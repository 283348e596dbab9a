--------------------------- MODULE ClientsProofs ----------------------------
(***************************************************************************)
(* The clients of the services around the gateway: the xDS server, the DNS *)
(* resolver and the certificate authority.                                 *)
(***************************************************************************)
EXTENDS XdsClient, DnsCache, CaClient, Integers, TLAPS

-----------------------------------------------------------------------------
(***************************************************************************)
(* The xDS client.  StoreMatchesServer speaks of resources of which nothing *)
(* is under way; the invariant adds what the responses under way say: the  *)
(* last one about a resource carries what the server believes.             *)
(***************************************************************************)

About(m, t, n) == m.type = t /\ n \in m.names

(* The last response under way about a resource says what the server believes
   the client has: the server writes both together and the stream keeps order. *)
LastOnWireTold ==
  stream = "up" =>
    \A t \in Type, n \in ResourceName, i \in 1..Len(wire) :
      /\ About(wire[i], t, n)
      /\ \A j \in 1..Len(wire) : j > i => ~About(wire[j], t, n)
      => wire[i].value[n] = told[t][n]

(* What the proof needs besides: nothing is under way without a stream, and
   each type that is no longer expected has been loaded. *)
AdsInv ==
  /\ ClientSound
  /\ LastOnWireTold
  /\ stream # "up" => wire = <<>>
  /\ \A t \in Type : t \in types_to_expect \/ t \in loaded

(* What a response is made of. *)
LEMMA ResponseFields ==
  ASSUME NEW m \in Response
  PROVE  /\ m.type \in Type /\ m.names \in SUBSET ResourceName
         /\ m.value \in [ResourceName -> Value \cup {None}]
  BY DEF Response, Resource

(* Before the first stream nothing is known or under way. *)
LEMMA AdsInitInv == AdsInit => AdsInv
  <1> SUFFICES ASSUME AdsInit PROVE AdsInv
    OBVIOUS
  <1>1. AdsTypeOK
    <2>1. InitialBackoff \in InitialBackoff..MaxBackoff /\ <<>> \in Seq(Response)
      BY BackoffAssumption
    <2>2. /\ Nothing \in [Type -> [ResourceName -> (Value \ Invalid) \cup {None}]]
          /\ Nothing \in [Type -> [ResourceName -> Resource]]
          /\ Nothing \in [Type -> [ResourceName -> Resource \cup {Stale}]]
      BY DEF Nothing, Resource
    <2> QED
      BY Zenon, <2>1, <2>2 DEF AdsInit, AdsTypeOK
  <1> QED
    BY <1>1 DEF AdsInit, AdsInv, ClientSound, KnownCoversStore, StoreMatchesServer, ReadyWhenLoaded,
       LastOnWireTold, Nothing

(* The server says one thing more. *)
LEMMA RespondKeeps ==
  ASSUME AdsInv, NEW t \in Type, NEW names \in SUBSET ResourceName, Respond(t, names)
  PROVE  AdsInv'
  <1> DEFINE m == [type |-> t, names |-> names, value |-> world[t]]
  <1>t. AdsTypeOK
    BY DEF AdsInv, ClientSound
  <1>1. m \in Response
    BY <1>t DEF AdsTypeOK, Response
  <1>2. /\ wire \in Seq(Response) /\ wire' = Append(wire, m) /\ stream = "up"
        /\ UNCHANGED <<client, stream, backoff, world>>
    BY <1>t DEF Respond, AdsTypeOK
  <1>3. m.type = t /\ m.names = names /\ m.value = world[t]
    OBVIOUS
  <1> HIDE DEF m
  <1>4. /\ wire' \in Seq(Response) /\ Len(wire') = Len(wire) + 1 /\ Len(wire) \in Nat
        /\ \A i \in 1..Len(wire) : wire'[i] = wire[i]
        /\ wire'[Len(wire) + 1] = m
    BY <1>1, <1>2
  <1>5. /\ told' \in [Type -> [ResourceName -> Resource \cup {Stale}]]
        /\ \A u \in Type, n \in ResourceName :
             told'[u][n] = IF u = t /\ n \in names THEN world[t][n] ELSE told[u][n]
    BY <1>t DEF Respond, AdsTypeOK
  <1>6. answered' \subseteq Type
    BY <1>t DEF Respond, AdsTypeOK
  <1>7. AdsTypeOK'
    BY <1>t, <1>2, <1>4, <1>5, <1>6 DEF AdsTypeOK, client
  <1>8. LastOnWireTold'
    <2> SUFFICES ASSUME NEW u \in Type, NEW n \in ResourceName, NEW i \in 1..Len(wire'),
                        About(wire'[i], u, n),
                        \A j \in 1..Len(wire') : j > i => ~About(wire'[j], u, n)
                 PROVE  wire'[i].value[n] = told'[u][n]
      BY DEF LastOnWireTold, About
    <2>1. CASE i = Len(wire) + 1
      BY <1>3, <1>4, <1>5, <2>1 DEF About
    <2>2. CASE i \in 1..Len(wire)
      <3>1. \A j \in 1..Len(wire) : j > i => ~About(wire[j], u, n)
        BY <1>4
      <3>2. wire[i].value[n] = told[u][n]
        BY <1>2, <1>4, <2>2, <3>1 DEF AdsInv, LastOnWireTold
      <3>3. ~About(m, u, n)
        BY <1>4, <2>2
      <3> QED
        BY <1>3, <1>4, <1>5, <2>2, <3>2, <3>3 DEF About
    <2> QED
      BY <1>4, <2>1, <2>2
  <1>9. StoreMatchesServer'
    <2> SUFFICES ASSUME NEW u \in Type, NEW n \in ResourceName, ~OnWire(u, n)',
                        told'[u][n] \notin Invalid \cup {Stale}
                 PROVE  store'[u][n] = told'[u][n]
      BY DEF StoreMatchesServer
    <2>1. ~OnWire(u, n) /\ ~About(m, u, n)
      BY <1>4 DEF OnWire, About
    <2>2. told'[u][n] = told[u][n]
      BY Zenon, <1>3, <1>5, <2>1 DEF About
    <2> QED
      BY <1>2, <2>1, <2>2 DEF AdsInv, ClientSound, StoreMatchesServer, client
  <1> QED
    BY <1>2, <1>7, <1>8, <1>9 DEF AdsInv, ClientSound, KnownCoversStore, ReadyWhenLoaded, client

(* The client takes the first response off the wire: its store, known names
   and loaded types. *)
LEMMA HandleIs ==
  ASSUME AdsInv, Handle, NEW m, m = Head(wire)
  PROVE  /\ m \in Response
         /\ store' \in [Type -> [ResourceName -> (Value \ Invalid) \cup {None}]]
         /\ known_resources' \in [Type -> SUBSET ResourceName]
         /\ KnownCoversStore'
         /\ \A t \in Type, n \in ResourceName :
              store'[t][n] = IF About(m, t, n) /\ m.value[n] \notin Invalid THEN m.value[n] ELSE store[t][n]
         /\ loaded' = IF Accepted(m) THEN loaded \cup {m.type} ELSE loaded
         /\ loaded' \subseteq Type
  <1>t. AdsTypeOK
    BY Zenon DEF AdsInv, ClientSound
  <1>1. m \in Response
    BY <1>t DEF AdsTypeOK, Handle
  <1>2. /\ m.type \in Type /\ m.names \in SUBSET ResourceName
        /\ m.value \in [ResourceName -> Value \cup {None}]
    BY <1>1, ResponseFields
  <1>3. /\ store' = [store EXCEPT ![m.type] = Applied(m, store[m.type])]
        /\ known_resources' = [known_resources EXCEPT ![m.type] = Known(m, known_resources[m.type])]
        /\ loaded' = IF Accepted(m) THEN loaded \cup {m.type} ELSE loaded
    BY Zenon DEF Handle
  <1>4. \A t \in Type, n \in ResourceName :
          store'[t][n] = IF About(m, t, n) /\ m.value[n] \notin Invalid THEN m.value[n] ELSE store[t][n]
    BY Zenon, <1>t, <1>2, <1>3 DEF AdsTypeOK, Applied, About
  <1>5. store' \in [Type -> [ResourceName -> (Value \ Invalid) \cup {None}]]
    <2>1. Applied(m, store[m.type]) \in [ResourceName -> (Value \ Invalid) \cup {None}]
      BY <1>t, <1>2 DEF AdsTypeOK, Applied
    <2> QED
      BY <1>t, <1>2, <1>3, <2>1 DEF AdsTypeOK
  <1>6. /\ known_resources' \in [Type -> SUBSET ResourceName]
        /\ \A t \in Type, n \in ResourceName :
             n \in known_resources'[t] <=> IF About(m, t, n) THEN m.value[n] # None ELSE n \in known_resources[t]
    <2>1. Known(m, known_resources[m.type]) \in SUBSET ResourceName
      BY <1>t, <1>2 DEF AdsTypeOK, Known
    <2> QED
      BY <1>t, <1>2, <1>3, <2>1 DEF AdsTypeOK, Known, About
  <1>7. KnownCoversStore'
    BY <1>4, <1>6, ValueAssumption DEF AdsInv, ClientSound, KnownCoversStore
  <1>8. loaded' \subseteq Type
    BY <1>t, <1>2, <1>3 DEF AdsTypeOK
  <1> QED
    BY <1>1, <1>3, <1>4, <1>5, <1>6, <1>7, <1>8

(* The client handles the next response: what it says of a resource is what
   the client has afterwards. *)
LEMMA HandleStreamEventKeeps ==
  ASSUME AdsInv, HandleStreamEvent
  PROVE  AdsInv'
  <1>t. AdsTypeOK
    BY DEF AdsInv, ClientSound
  <1>1. PICK m : m = Head(wire)
    BY Zenon
  <1>2. /\ Handle /\ Release(m) /\ wire' = Tail(wire) /\ stream = "up" /\ wire # <<>>
        /\ UNCHANGED <<stream, backoff, world, told, answered>>
    BY Zenon, <1>1 DEF HandleStreamEvent, Handle
  <1>3. /\ m \in Response
        /\ store' \in [Type -> [ResourceName -> (Value \ Invalid) \cup {None}]]
        /\ known_resources' \in [Type -> SUBSET ResourceName]
        /\ KnownCoversStore'
        /\ \A t \in Type, n \in ResourceName :
             store'[t][n] = IF About(m, t, n) /\ m.value[n] \notin Invalid THEN m.value[n] ELSE store[t][n]
        /\ loaded' = IF Accepted(m) THEN loaded \cup {m.type} ELSE loaded
        /\ loaded' \subseteq Type
    BY <1>1, <1>2, HandleIs
  <1>4. /\ wire' \in Seq(Response) /\ Len(wire) \in Nat /\ Len(wire) >= 1 /\ Len(wire') = Len(wire) - 1
        /\ \A i \in 1..Len(wire') : wire'[i] = wire[i + 1]
        /\ wire[1] = m
    BY <1>t, <1>1, <1>2 DEF AdsTypeOK
  <1>5. types_to_expect' \subseteq Type /\ ready' \in BOOLEAN
    BY <1>t, <1>2 DEF AdsTypeOK, Release
  <1>6. AdsTypeOK'
    BY <1>t, <1>2, <1>3, <1>4, <1>5 DEF AdsTypeOK
  <1>7. \A t \in Type : t \in types_to_expect' \/ t \in loaded'
    BY <1>2, <1>3 DEF Release, AdsInv
  <1>8. ReadyWhenLoaded'
    BY Zenon, <1>2, <1>3, <1>7 DEF Release, AdsInv, ClientSound, ReadyWhenLoaded
  <1>9. LastOnWireTold'
    <2> SUFFICES ASSUME NEW t \in Type, NEW n \in ResourceName, NEW i \in 1..Len(wire'),
                        About(wire'[i], t, n),
                        \A j \in 1..Len(wire') : j > i => ~About(wire'[j], t, n)
                 PROVE  wire'[i].value[n] = told'[t][n]
      BY DEF LastOnWireTold, About
    <2>1. i + 1 \in 1..Len(wire) /\ About(wire[i + 1], t, n) /\ wire'[i] = wire[i + 1]
      BY <1>4
    <2>2. ASSUME NEW j \in 1..Len(wire), j > i + 1
          PROVE  ~About(wire[j], t, n)
      <3>1. j - 1 \in 1..Len(wire') /\ j - 1 > i /\ wire'[j - 1] = wire[(j - 1) + 1]
        BY <1>4, <2>2
      <3> QED
        BY <3>1
    <2> QED
      BY <1>2, <2>1, <2>2 DEF AdsInv, LastOnWireTold
  <1>10. StoreMatchesServer'
    <2> SUFFICES ASSUME NEW t \in Type, NEW n \in ResourceName, ~OnWire(t, n)',
                        told'[t][n] \notin Invalid \cup {Stale}
                 PROVE  store'[t][n] = told'[t][n]
      BY DEF StoreMatchesServer
    <2>1. ASSUME NEW j \in 1..Len(wire), j > 1
          PROVE  ~About(wire[j], t, n)
      <3>1. j - 1 \in 1..Len(wire') /\ wire'[j - 1] = wire[(j - 1) + 1]
        BY <1>4, <2>1
      <3> QED
        BY <3>1 DEF OnWire, About
    <2>2. CASE About(m, t, n)
      <3>1. m.value[n] = told[t][n]
        BY <1>2, <1>4, <2>1, <2>2 DEF AdsInv, LastOnWireTold
      <3> QED
        BY Zenon, <1>2, <1>3, <2>2, <3>1
    <2>3. CASE ~About(m, t, n)
      <3>1. ~OnWire(t, n)
        BY <1>4, <2>1, <2>3 DEF OnWire, About
      <3> QED
        BY <1>2, <1>3, <2>3, <3>1 DEF AdsInv, ClientSound, StoreMatchesServer
    <2> QED
      BY <2>2, <2>3
  <1> QED
    BY <1>2, <1>3, <1>6, <1>7, <1>8, <1>9, <1>10 DEF AdsInv, ClientSound

(* Every step of the client, the stream and the server keeps the invariant. *)
LEMMA AdsInvStep == AdsInv /\ [AdsNext]_adsVars => AdsInv'
  <1> SUFFICES ASSUME AdsInv, [AdsNext]_adsVars PROVE AdsInv'
    OBVIOUS
  <1>t. AdsTypeOK
    BY DEF AdsInv, ClientSound
  <1>n. Nothing \in [Type -> [ResourceName -> Resource \cup {Stale}]]
    BY DEF Nothing, Resource
  <1>d. Doubled(backoff) \in InitialBackoff..MaxBackoff /\ InitialBackoff \in InitialBackoff..MaxBackoff
    BY <1>t, BackoffAssumption DEF AdsTypeOK, Doubled
  <1>1. ASSUME NEW t \in Type, NEW n \in ResourceName, Publish(t, n)
        PROVE  AdsInv'
    <2>1. world' \in [Type -> [ResourceName -> Resource]]
      BY <1>1, <1>t DEF Publish, AdsTypeOK
    <2>2. UNCHANGED <<client, stream, backoff, told, answered, wire>>
      BY <1>1 DEF Publish
    <2>3. AdsTypeOK'
      BY Zenon, <1>t, <2>1, <2>2 DEF AdsTypeOK, client
    <2> QED
      BY <2>2, <2>3 DEF client, AdsInv, ClientSound, KnownCoversStore, StoreMatchesServer, ReadyWhenLoaded,
         LastOnWireTold, OnWire, About
  <1>2. CASE OpenStream
    <2>1. /\ told' \in [Type -> [ResourceName -> Resource \cup {Stale}]] /\ stream' = "up" /\ wire = <<>>
          /\ UNCHANGED <<client, backoff, world, answered, wire>>
      BY <1>2 DEF OpenStream, Resource, AdsInv
    <2>2. AdsTypeOK'
      BY <1>t, <2>1 DEF AdsTypeOK, client
    <2>3. LastOnWireTold'
      BY <2>1 DEF LastOnWireTold
    <2>4. StoreMatchesServer'
      BY Zenon, <1>2, <2>1 DEF OpenStream, StoreMatchesServer, client, AdsInv, ClientSound, KnownCoversStore
    <2> QED
      BY <2>1, <2>2, <2>3, <2>4 DEF client, AdsInv, ClientSound, KnownCoversStore, ReadyWhenLoaded
  <1>3. CASE ConnectErr \/ Wakeup
    <2>1. /\ stream' # "up" /\ stream' \in {"connecting", "up", "sleeping"} /\ stream # "up"
          /\ backoff' \in InitialBackoff..MaxBackoff /\ UNCHANGED <<client, server>>
      BY <1>3, <1>t, <1>d DEF ConnectErr, Wakeup, AdsTypeOK
    <2>2. AdsTypeOK'
      BY Zenon, <1>t, <2>1 DEF AdsTypeOK, client, server
    <2> QED
      BY <2>1, <2>2 DEF client, server, AdsInv, ClientSound, KnownCoversStore, StoreMatchesServer,
         ReadyWhenLoaded, LastOnWireTold
  <1>4. CASE StreamErr \/ StreamEnd
    <2>1. /\ stream' # "up" /\ stream' \in {"connecting", "up", "sleeping"} /\ wire' = <<>>
          /\ backoff' \in InitialBackoff..MaxBackoff /\ told' = Nothing /\ answered' = {}
          /\ UNCHANGED <<client, world>>
      BY <1>4, <1>t, <1>d DEF StreamErr, StreamEnd, AdsTypeOK, Disconnected
    <2>2. AdsTypeOK'
      BY <1>t, <1>n, <2>1 DEF AdsTypeOK, client
    <2> QED
      BY Zenon, <2>1, <2>2 DEF client, AdsInv, ClientSound, KnownCoversStore, StoreMatchesServer,
         ReadyWhenLoaded, LastOnWireTold
  <1>5. CASE HandleSendErr
    <2>1. /\ stream' = "connecting" /\ wire' = <<>> /\ backoff' = InitialBackoff /\ told' = Nothing
          /\ answered' = {} /\ UNCHANGED <<world, types_to_expect, ready>> /\ Handle
      BY <1>5 DEF HandleSendErr, Disconnected
    <2>2. PICK m : m = Head(wire)
      BY Zenon
    <2>3. /\ store' \in [Type -> [ResourceName -> (Value \ Invalid) \cup {None}]]
          /\ known_resources' \in [Type -> SUBSET ResourceName]
          /\ KnownCoversStore'
          /\ loaded' = IF Accepted(m) THEN loaded \cup {m.type} ELSE loaded
          /\ loaded' \subseteq Type
      BY Zenon, <2>1, <2>2, HandleIs
    <2>4. AdsTypeOK'
      BY <1>t, <1>n, <1>d, <2>1, <2>3 DEF AdsTypeOK
    <2> QED
      BY <2>1, <2>3, <2>4 DEF AdsInv, ClientSound, StoreMatchesServer, ReadyWhenLoaded, LastOnWireTold
  <1>6. CASE UNCHANGED adsVars
    <2>1. AdsTypeOK'
      BY <1>6, <1>t DEF adsVars, client, server, AdsTypeOK
    <2> QED
      BY <1>6, <2>1 DEF adsVars, client, server, AdsInv, ClientSound, KnownCoversStore, StoreMatchesServer,
         ReadyWhenLoaded, LastOnWireTold, OnWire, About
  <1> QED
    BY <1>1, <1>2, <1>3, <1>4, <1>5, <1>6, RespondKeeps, HandleStreamEventKeeps DEF AdsNext

(* Whatever streams break, with whatever responses lost, refused or not yet
   acknowledged: known_resources covers the stores, a resource of which no
   response is under way is in the store as the server believes it to be, and
   the gateway is released only when every type has been loaded
   (run_internal, handle_stream_event), for any number of types and
   resources. *)
THEOREM ClientCorrect == AdsSpec => []ClientSound
  <1>1. AdsInv => ClientSound
    BY Zenon DEF AdsInv
  <1> QED
    BY <1>1, AdsInitInv, AdsInvStep, PTL DEF AdsSpec

-----------------------------------------------------------------------------
(***************************************************************************)
(* The DNS cache: a name has exactly one background task while it is       *)
(* cached, no caller waits for a notification that never comes, and a woken *)
(* caller finds a result.                                                  *)
(***************************************************************************)

(* A caller inside a call holds an entry whose task was spawned. *)
DnsHolds ==
  \A c \in Caller : pc[c] # "idle" => entry[c] \in Entry /\ task[entry[c]] # "none"

(* How far a task can be without a result, and that its first swap finds the
   entry active. *)
Progress ==
  \A e \in Entry :
    /\ task[e] \in {"notify", "sleep", "remove", "done"} => entries[e] # None
    /\ task[e] = "loop" /\ entries[e] = None => active[e]

(* A Notified future is completed only after a result was stored. *)
Notified ==
  \A c \in Caller :
    pc[c] \in {"load", "empty", "wait"} /\ notified[c] => entries[entry[c]] # None

DnsTypes ==
  /\ cache \in [Name -> Entry \cup {None}]
  /\ name \in [Entry -> Name]
  /\ task \in [Entry -> TaskPoint]
  /\ active \in [Entry -> BOOLEAN]
  /\ entries \in [Entry -> Result \cup {None}]
  /\ pc \in [Caller -> CallerPoint]
  /\ entry \in [Caller -> Entry \cup {None}]
  /\ notified \in [Caller -> BOOLEAN]

DnsInv == DnsTypes /\ OneTaskPerName /\ DnsHolds /\ Progress /\ Notified /\ NoLostWakeup

LEMMA DnsInvInit == DnsInit => DnsInv
  BY NoneAssumption
  DEF DnsInit, DnsInv, DnsTypes, OneTaskPerName, DnsHolds, Progress, Notified, NoLostWakeup,
      TaskPoint, CallerPoint, Running, Result

LEMMA TypesPreserved == DnsTypes /\ DnsHolds /\ [DnsNext]_dnsVars => DnsTypes'
  <1> SUFFICES ASSUME DnsTypes, DnsHolds, [DnsNext]_dnsVars
               PROVE  DnsTypes'
    OBVIOUS
  <1> USE DEF DnsTypes, TaskPoint, CallerPoint
  <1>1. ASSUME NEW c \in Caller, NEW n \in Name, LookupHit(c, n)
        PROVE  DnsTypes'
    BY Zenon, <1>1 DEF LookupHit
  <1>2. ASSUME NEW c \in Caller, NEW n \in Name, LookupMiss(c, n)
        PROVE  DnsTypes'
    BY <1>2 DEF LookupMiss
  <1>3. ASSUME NEW c \in Caller, CallerStep(c) \/ Cancel(c)
        PROVE  DnsTypes'
    <2>1. CASE Register(c)
      BY Zenon, <2>1 DEF Register
    <2>2. CASE Load(c)
      <3>1. CASE entries[entry[c]] # None
        BY Zenon, <2>2, <3>1 DEF Load, Return
      <3>2. CASE entries[entry[c]] = None
        BY <2>2, <3>2 DEF Load
      <3> QED
        BY <3>1, <3>2
    <2>3. CASE Await(c)
      BY <2>3 DEF Await, entryVars
    <2>4. CASE Wake(c) \/ Cancel(c)
      BY Zenon, <2>4 DEF Wake, Cancel, Return, entryVars
    <2> QED
      BY <1>3, <2>1, <2>2, <2>3, <2>4 DEF CallerStep
  <1>4. ASSUME NEW e \in Entry, TaskStep(e)
        PROVE  DnsTypes'
    <2>1. CASE Start(e) \/ Swap(e)
      BY Zenon, <2>1 DEF Start, Swap, Goto, callerVars
    <2>2. CASE ResolveOk(e)
      BY <2>2 DEF ResolveOk, Goto, callerVars, Result
    <2>3. CASE ResolveErr(e)
      BY <2>3 DEF ResolveErr, Goto, callerVars, Result
    <2>4. CASE NotifyWaiters(e)
      <3>1. notified' \in [Caller -> BOOLEAN]
        BY <2>4, Zenon DEF NotifyWaiters
      <3> QED
        BY <2>4, <3>1 DEF NotifyWaiters, Goto
    <2>5. CASE Expire(e) \/ RemoveEntry(e)
      BY <2>5 DEF Expire, RemoveEntry, Goto, callerVars
    <2> QED
      BY <1>4, <2>1, <2>2, <2>3, <2>4, <2>5 DEF TaskStep
  <1>5. CASE UNCHANGED dnsVars
    BY <1>5 DEF dnsVars
  <1> QED
    BY <1>1, <1>2, <1>3, <1>4, <1>5 DEF DnsNext

(* The cache and the tasks change together: only LookupMiss spawns, for an
   entry that nothing refers to, and only RemoveEntry ends a task, whose entry
   is then the one the cache has under its name. *)
LEMMA OneTaskPreserved == DnsInv /\ [DnsNext]_dnsVars => OneTaskPerName'
  <1> SUFFICES ASSUME DnsInv, [DnsNext]_dnsVars
               PROVE  OneTaskPerName'
    OBVIOUS
  <1> USE DEF DnsInv, DnsTypes, OneTaskPerName, Running
  <1>1. ASSUME NEW c \in Caller, NEW n \in Name, LookupHit(c, n)
        PROVE  OneTaskPerName'
    BY Zenon, <1>1 DEF LookupHit
  <1>2. ASSUME NEW c \in Caller, NEW n \in Name, LookupMiss(c, n)
        PROVE  OneTaskPerName'
    <2>1. PICK e \in Entry :
            /\ task[e] \in {"none", "done"}
            /\ cache' = [cache EXCEPT ![n] = e]
            /\ name' = [name EXCEPT ![e] = n]
            /\ task' = [task EXCEPT ![e] = "spawned"]
      BY Zenon, <1>2 DEF LookupMiss, Dropped
    <2>2. cache[n] = None /\ \A m \in Name : cache[m] # e
      BY Zenon, <1>2, <2>1 DEF LookupMiss
    <2>3. ASSUME NEW f \in Entry, NEW m \in Name
          PROVE  (cache[m] = f <=> (Running(f) /\ name[f] = m))'
      BY <2>1, <2>2, <2>3, NoneAssumption
    <2> QED
      BY <2>3
  <1>3. ASSUME NEW c \in Caller, CallerStep(c) \/ Cancel(c)
        PROVE  OneTaskPerName'
    <2>1. CASE Register(c)
      BY Zenon, <2>1 DEF Register
    <2>2. CASE Load(c)
      BY <2>2 DEF Load, Return
    <2>3. CASE Await(c)
      BY Zenon, <2>3 DEF Await, entryVars
    <2>4. CASE Wake(c)
      BY <2>4 DEF Wake, Return
    <2>5. CASE Cancel(c)
      BY <2>5 DEF Cancel, Return, entryVars
    <2> QED
      BY Zenon, <1>3, <2>1, <2>2, <2>3, <2>4, <2>5 DEF CallerStep
  <1>4. ASSUME NEW e \in Entry, RemoveEntry(e)
        PROVE  OneTaskPerName'
    BY <1>4, NoneAssumption DEF RemoveEntry, Goto
  <1>5. ASSUME NEW e \in Entry,
               Start(e) \/ Swap(e) \/ ResolveOk(e) \/ ResolveErr(e) \/ NotifyWaiters(e) \/ Expire(e)
        PROVE  OneTaskPerName'
    <2>1. CASE Start(e)
      BY <2>1 DEF Start, Goto
    <2>2. CASE Swap(e)
      BY <2>2 DEF Swap, Goto
    <2>3. CASE ResolveOk(e)
      BY <2>3 DEF ResolveOk, Goto
    <2>4. CASE ResolveErr(e)
      BY <2>4 DEF ResolveErr, Goto
    <2>5. CASE NotifyWaiters(e)
      BY <2>5 DEF NotifyWaiters, Goto
    <2>6. CASE Expire(e)
      BY <2>6 DEF Expire, Goto
    <2> QED
      BY Zenon, <1>5, <2>1, <2>2, <2>3, <2>4, <2>5, <2>6
  <1>6. CASE UNCHANGED dnsVars
    BY <1>6 DEF dnsVars
  <1> QED
    BY Zenon, <1>1, <1>2, <1>3, <1>4, <1>5, <1>6 DEF DnsNext, TaskStep

LEMMA HoldsPreserved == DnsInv /\ [DnsNext]_dnsVars => DnsHolds'
  <1> SUFFICES ASSUME DnsInv, [DnsNext]_dnsVars
               PROVE  DnsHolds'
    OBVIOUS
  <1> USE DEF DnsInv, DnsTypes, DnsHolds
  <1>1. ASSUME NEW c \in Caller, NEW n \in Name, LookupHit(c, n)
        PROVE  DnsHolds'
    BY <1>1 DEF LookupHit, OneTaskPerName, Running
  <1>2. ASSUME NEW c \in Caller, NEW n \in Name, LookupMiss(c, n)
        PROVE  DnsHolds'
    BY <1>2 DEF LookupMiss
  <1>3. ASSUME NEW c \in Caller, CallerStep(c) \/ Cancel(c)
        PROVE  DnsHolds'
    <2>1. CASE Register(c)
      BY Zenon, <2>1 DEF Register
    <2>2. CASE Load(c)
      BY <2>2 DEF Load, Return
    <2>3. CASE Await(c)
      BY Zenon, <2>3 DEF Await, entryVars
    <2>4. CASE Wake(c)
      BY Zenon, <2>4 DEF Wake, Return
    <2>5. CASE Cancel(c)
      BY <2>5 DEF Cancel, Return, entryVars
    <2> QED
      BY Zenon, <1>3, <2>1, <2>2, <2>3, <2>4, <2>5 DEF CallerStep
  <1>4. ASSUME NEW e \in Entry, TaskStep(e)
        PROVE  DnsHolds'
    <2>1. CASE Start(e)
      BY Zenon, <2>1 DEF Start, Goto, callerVars
    <2>2. CASE Swap(e)
      BY Zenon, <2>2 DEF Swap, Goto, callerVars
    <2>3. CASE ResolveOk(e)
      BY Zenon, <2>3 DEF ResolveOk, Goto, callerVars
    <2>4. CASE ResolveErr(e)
      BY Zenon, <2>4 DEF ResolveErr, Goto, callerVars
    <2>5. CASE NotifyWaiters(e)
      BY Zenon, <2>5 DEF NotifyWaiters, Goto
    <2>6. CASE Expire(e)
      BY Zenon, <2>6 DEF Expire, Goto, callerVars
    <2>7. CASE RemoveEntry(e)
      BY Zenon, <2>7 DEF RemoveEntry, Goto, callerVars
    <2> QED
      BY Zenon, <1>4, <2>1, <2>2, <2>3, <2>4, <2>5, <2>6, <2>7 DEF TaskStep
  <1>5. CASE UNCHANGED dnsVars
    BY <1>5 DEF dnsVars
  <1> QED
    BY Zenon, <1>1, <1>2, <1>3, <1>4, <1>5 DEF DnsNext

LEMMA ProgressPreserved == DnsInv /\ [DnsNext]_dnsVars => Progress'
  <1> SUFFICES ASSUME DnsInv, [DnsNext]_dnsVars
               PROVE  Progress'
    OBVIOUS
  <1> USE DEF DnsInv, DnsTypes, Progress
  <1>1. ASSUME NEW c \in Caller, NEW n \in Name, LookupHit(c, n)
        PROVE  Progress'
    BY Zenon, <1>1 DEF LookupHit
  <1>2. ASSUME NEW c \in Caller, NEW n \in Name, LookupMiss(c, n)
        PROVE  Progress'
    BY <1>2 DEF LookupMiss
  <1>3. ASSUME NEW c \in Caller, CallerStep(c) \/ Cancel(c)
        PROVE  Progress'
    <2>1. CASE Register(c)
      BY Zenon, <2>1 DEF Register
    <2>2. CASE Load(c)
      BY Zenon, <2>2 DEF Load, Return
    <2>3. CASE Await(c)
      BY Zenon, <2>3 DEF Await, entryVars
    <2>4. CASE Wake(c)
      BY Zenon, <2>4 DEF Wake, Return
    <2>5. CASE Cancel(c)
      BY <2>5 DEF Cancel, Return, entryVars
    <2> QED
      BY Zenon, <1>3, <2>1, <2>2, <2>3, <2>4, <2>5 DEF CallerStep
  <1>4. ASSUME NEW e \in Entry, TaskStep(e)
        PROVE  Progress'
    <2>1. CASE Start(e)
      BY Zenon, <2>1 DEF Start, Goto
    <2>2. CASE Swap(e)
      BY Zenon, <2>2 DEF Swap, Goto
    <2>3. CASE ResolveOk(e)
      BY Zenon, <2>3, AnswerAssumption DEF ResolveOk, Goto
    <2>4. CASE ResolveErr(e)
      BY Zenon, <2>4, AnswerAssumption DEF ResolveErr, Goto
    <2>5. CASE NotifyWaiters(e)
      BY <2>5 DEF NotifyWaiters, Goto
    <2>6. CASE Expire(e)
      BY Zenon, <2>6 DEF Expire, Goto
    <2>7. CASE RemoveEntry(e)
      BY Zenon, <2>7 DEF RemoveEntry, Goto
    <2> QED
      BY Zenon, <1>4, <2>1, <2>2, <2>3, <2>4, <2>5, <2>6, <2>7 DEF TaskStep
  <1>5. CASE UNCHANGED dnsVars
    BY <1>5 DEF dnsVars
  <1> QED
    BY Zenon, <1>1, <1>2, <1>3, <1>4, <1>5 DEF DnsNext

LEMMA NotifiedPreserved == DnsInv /\ [DnsNext]_dnsVars => Notified'
  <1> SUFFICES ASSUME DnsInv, [DnsNext]_dnsVars
               PROVE  Notified'
    OBVIOUS
  <1> USE DEF DnsInv, DnsTypes, Notified
  <1>1. ASSUME NEW c \in Caller, NEW n \in Name, LookupHit(c, n)
        PROVE  Notified'
    BY Zenon, <1>1 DEF LookupHit
  <1>2. ASSUME NEW c \in Caller, NEW n \in Name, LookupMiss(c, n)
        PROVE  Notified'
    BY <1>2 DEF LookupMiss, Dropped
  <1>3. ASSUME NEW c \in Caller, CallerStep(c) \/ Cancel(c)
        PROVE  Notified'
    <2>1. CASE Register(c)
      BY Zenon, <2>1 DEF Register
    <2>2. CASE Load(c)
      BY <2>2 DEF Load, Return
    <2>3. CASE Await(c)
      BY Zenon, <2>3 DEF Await, entryVars
    <2>4. CASE Wake(c)
      BY <2>4 DEF Wake, Return
    <2>5. CASE Cancel(c)
      BY <2>5 DEF Cancel, Return, entryVars
    <2> QED
      BY Zenon, <1>3, <2>1, <2>2, <2>3, <2>4, <2>5 DEF CallerStep
  <1>4. ASSUME NEW e \in Entry, TaskStep(e)
        PROVE  Notified'
    <2>1. CASE Start(e)
      BY Zenon, <2>1 DEF Start, Goto, callerVars
    <2>2. CASE Swap(e)
      BY Zenon, <2>2 DEF Swap, Goto, callerVars
    <2>3. CASE ResolveOk(e)
      BY <2>3, AnswerAssumption DEF ResolveOk, Goto, callerVars, DnsHolds
    <2>4. CASE ResolveErr(e)
      BY Zenon, <2>4, AnswerAssumption DEF ResolveErr, Goto, callerVars, DnsHolds
    <2>5. CASE NotifyWaiters(e)
      BY Zenon, <2>5 DEF NotifyWaiters, Goto, Progress, DnsHolds
    <2>6. CASE Expire(e)
      BY Zenon, <2>6 DEF Expire, Goto, callerVars
    <2>7. CASE RemoveEntry(e)
      BY Zenon, <2>7 DEF RemoveEntry, Goto, callerVars
    <2> QED
      BY Zenon, <1>4, <2>1, <2>2, <2>3, <2>4, <2>5, <2>6, <2>7 DEF TaskStep
  <1>5. CASE UNCHANGED dnsVars
    BY <1>5 DEF dnsVars
  <1> QED
    BY Zenon, <1>1, <1>2, <1>3, <1>4, <1>5 DEF DnsNext

LEMMA NoLostWakeupPreserved == DnsInv /\ [DnsNext]_dnsVars => NoLostWakeup'
  <1> SUFFICES ASSUME DnsInv, [DnsNext]_dnsVars
               PROVE  NoLostWakeup'
    OBVIOUS
  <1> USE DEF DnsInv, DnsTypes, NoLostWakeup
  <1>1. ASSUME NEW c \in Caller, NEW n \in Name, LookupHit(c, n)
        PROVE  NoLostWakeup'
    BY Zenon, <1>1 DEF LookupHit
  <1>2. ASSUME NEW c \in Caller, NEW n \in Name, LookupMiss(c, n)
        PROVE  NoLostWakeup'
    BY <1>2 DEF LookupMiss, Dropped
  <1>3. ASSUME NEW c \in Caller, CallerStep(c) \/ Cancel(c)
        PROVE  NoLostWakeup'
    <2>1. CASE Register(c)
      BY Zenon, <2>1 DEF Register, DnsHolds, Progress, TaskPoint
    <2>2. CASE Load(c)
      BY <2>2 DEF Load, Return, DnsHolds, Progress, TaskPoint
    <2>3. CASE Await(c)
      BY Zenon, <2>3 DEF Await, entryVars, DnsHolds, Progress, TaskPoint
    <2>4. CASE Wake(c)
      BY Zenon, <2>4 DEF Wake, Return, DnsHolds, Progress, TaskPoint
    <2>5. CASE Cancel(c)
      BY <2>5 DEF Cancel, Return, entryVars, DnsHolds, Progress, TaskPoint
    <2> QED
      BY Zenon, <1>3, <2>1, <2>2, <2>3, <2>4, <2>5 DEF CallerStep
  <1>4. ASSUME NEW e \in Entry, TaskStep(e)
        PROVE  NoLostWakeup'
    <2>1. CASE Start(e)
      BY Zenon, <2>1 DEF Start, Goto, callerVars, Progress, DnsHolds
    <2>2. CASE Swap(e)
      BY Zenon, <2>2 DEF Swap, Goto, callerVars, Progress, DnsHolds
    <2>3. CASE ResolveOk(e)
      BY Zenon, <2>3 DEF ResolveOk, Goto, callerVars, DnsHolds
    <2>4. CASE ResolveErr(e)
      BY <2>4 DEF ResolveErr, Goto, callerVars, DnsHolds
    <2>5. CASE NotifyWaiters(e)
      BY Zenon, <2>5 DEF NotifyWaiters, Goto, DnsHolds
    <2>6. CASE Expire(e)
      BY Zenon, <2>6 DEF Expire, Goto, callerVars, DnsHolds
    <2>7. CASE RemoveEntry(e)
      BY Zenon, <2>7 DEF RemoveEntry, Goto, callerVars, DnsHolds
    <2> QED
      BY Zenon, <1>4, <2>1, <2>2, <2>3, <2>4, <2>5, <2>6, <2>7 DEF TaskStep
  <1>5. CASE UNCHANGED dnsVars
    BY <1>5 DEF dnsVars
  <1> QED
    BY Zenon, <1>1, <1>2, <1>3, <1>4, <1>5 DEF DnsNext

LEMMA DnsInvCorrect == DnsSpec => []DnsInv
  <1>1. DnsInv /\ [DnsNext]_dnsVars => DnsInv'
    BY TypesPreserved, OneTaskPreserved, HoldsPreserved, ProgressPreserved, NotifiedPreserved,
       NoLostWakeupPreserved
    DEF DnsInv
  <1> QED
    BY <1>1, DnsInvInit, PTL DEF DnsSpec

(* However lookups, expiries and removals interleave, a cached name has
   exactly one background task and a task that runs has its entry cached. *)
THEOREM OneTaskCorrect == DnsSpec => []OneTaskPerName
  BY DnsInvCorrect, PTL DEF DnsInv

(* No caller of resolve ever waits for a notification that is not coming. *)
THEOREM NoLostWakeupCorrect == DnsSpec => []NoLostWakeup
  BY DnsInvCorrect, PTL DEF DnsInv

(* A woken caller finds a result, and no task gives up an entry without one. *)
THEOREM WokenCorrect == DnsSpec => []WokenWithResult
  <1>1. DnsInv => WokenWithResult
    BY Zenon DEF DnsInv, Notified, Progress, WokenWithResult
  <1> QED
    BY <1>1, DnsInvCorrect, PTL

-----------------------------------------------------------------------------
(***************************************************************************)
(* The certificate is renewed in time, for every validity, polling period, *)
(* duration of a fetch and number of connections.  The invariant bounds    *)
(* how late the fetcher can be: the tick it sleeps for lies at most one    *)
(* Period after the renewal is due, and a fetch it has begun ends before   *)
(* the certificate does.                                                   *)
(***************************************************************************)

(* refresh_at for a certificate that is valid for Ttl. *)
Half == Ttl \div 2

(* The CA answers, and its certificates outlive a tick and a fetch. *)
InTime == ~caFails /\ Skew <= Half /\ Period + FetchTime <= Ttl - Half

Certs == [from : Int, to : Int, id : {Identity}]

Users == [at : {"idle", "waiting", "woken", "handshake", "done"}, seen : Int, cert : Certs,
          res : {"none", "error", "expired", "connected", "refused"}]

CertStates == [kind : {"not ready", "error", "available"}, cert : Certs]

Fetchers == [at : {"fetching", "sleeping"}, since : Int, tick : Int]

ClockType == clock \in Int /\ Skew <= clock

CaTypes ==
  /\ ClockType /\ version \in Int
  /\ certState \in CertStates /\ fetcher \in Fetchers /\ user \in [User -> Users]

(* What the channel holds was made by Fetched. *)
CertMade ==
  certState.kind = "available" =>
    0 <= certState.cert.from /\ certState.cert.to = certState.cert.from + Ttl

(* A fetch that runs: how long, and which tick follows it. *)
FetchOnTime ==
  fetcher.at = "fetching" =>
    /\ fetcher.since <= clock /\ clock <= fetcher.since + FetchTime
    /\ fetcher.tick <= fetcher.since + Period

(* The renewal of the certificate in the channel is never late. *)
RenewalInTime ==
  InTime /\ certState.kind = "available" =>
    /\ fetcher.at = "fetching" => fetcher.since + FetchTime <= certState.cert.to
    /\ fetcher.at = "sleeping" =>
         /\ fetcher.tick <= certState.cert.from + Half + Period
         /\ clock <= certState.cert.from + Half + Period

(* What connections have been given. *)
UsersServed ==
  /\ InTime => \A u \in User : user[u].res # "expired"
  /\ \A u \in User : user[u].at = "handshake" => user[u].cert.to >= 0

CaInv == CaTypes /\ CertMade /\ FetchOnTime /\ RenewalInTime /\ UsersServed

(* Half of the validity is a number of units, and at most all of it. *)
LEMMA HalfNat == Half \in Int /\ 0 <= Half /\ Half <= Ttl
  BY CaAssumption DEF Half

(* refresh_at of a certificate made by Fetched. *)
LEMMA RefreshAtHalf ==
  ASSUME NEW cert \in Certs, cert.to = cert.from + Ttl
  PROVE  RefreshAt(cert) = cert.from + Half
  <1>1. cert.to >= cert.from /\ cert.to - cert.from = Ttl
    BY CaAssumption DEF Certs
  <1> QED
    BY <1>1 DEF RefreshAt, Half

(* What the assumption of timeliness says of the constants. *)
LEMMA InTimeMeans == InTime => Skew <= Half /\ Period + FetchTime <= Ttl - Half
  BY DEF InTime

(* The types of the fields. *)
LEMMA Fields ==
  ASSUME CaTypes
  PROVE  /\ clock \in Int /\ Skew <= clock
         /\ certState.cert \in Certs /\ certState.cert.id = Identity
         /\ certState.cert.from \in Int /\ certState.cert.to \in Int
         /\ fetcher.at \in {"fetching", "sleeping"}
         /\ fetcher.since \in Int /\ fetcher.tick \in Int
  BY Zenon DEF CaTypes, ClockType, CertStates, Fetchers, Certs

(* Under the invariant no certificate in the channel has expired. *)
LEMMA NotExpired ==
  ASSUME CaInv, InTime, certState.kind = "available"
  PROVE  clock <= certState.cert.to
  <1>1. Period + FetchTime <= Ttl - Half
    BY Zenon, InTimeMeans
  <1>2. CASE fetcher.at = "fetching"
    <2>1. clock <= fetcher.since + FetchTime /\ fetcher.since + FetchTime <= certState.cert.to
      BY Zenon, <1>2 DEF CaInv, FetchOnTime, RenewalInTime
    <2> QED
      BY <2>1, Fields, CaAssumption DEF CaInv
  <1>3. CASE fetcher.at = "sleeping"
    <2>1. /\ clock <= certState.cert.from + Half + Period
          /\ certState.cert.to = certState.cert.from + Ttl
      BY Zenon, <1>3 DEF CaInv, CertMade, RenewalInTime
    <2> QED
      BY <2>1, <1>1, Fields, CaAssumption, HalfNat DEF CaInv
  <1> QED
    BY <1>2, <1>3, Fields DEF CaInv

(* What an answer of the CA becomes. *)
LEMMA FetchedMade ==
  ASSUME CaTypes, NEW a \in Answers
  PROVE  /\ Fetched(a) \in CertStates
         /\ Fetched(a).cert.from \in Int
         /\ Fetched(a).kind = "available" =>
              /\ 0 <= Fetched(a).cert.from /\ clock - Skew <= Fetched(a).cert.from
              /\ Fetched(a).cert.to = Fetched(a).cert.from + Ttl
  <1>1. a.from = clock \/ \E s \in 0..Skew : a.from = clock - s
    BY DEF Answers
  <1>2. a.from \in Int /\ 0 <= a.from /\ clock - Skew <= a.from
    BY <1>1, Fields, CaAssumption
  <1>3. CASE ~a.ok \/ a.roots = 0 \/ a.id # Identity
    <2>1. Fetched(a) = Errored
      BY Zenon, <1>3 DEF Fetched
    <2>2. /\ Errored \in CertStates /\ Errored.cert.from \in Int
          /\ Errored.kind # "available"
      BY DEF Errored, NoCert, CertStates, Certs
    <2> QED
      BY Zenon, <2>1, <2>2
  <1>4. CASE ~(~a.ok \/ a.roots = 0 \/ a.id # Identity)
    <2>1. Fetched(a) = [kind |-> "available",
                        cert |-> [from |-> a.from, to |-> a.from + Ttl, id |-> Identity]]
      BY <1>4 DEF Fetched
    <2> QED
      BY <1>2, <2>1, CaAssumption DEF CertStates, Certs
  <1> QED
    BY <1>3, <1>4

(* The invariant holds when the fetcher's task starts. *)
LEMMA CaInitially == CaInit => CaInv
  <1> SUFFICES ASSUME CaInit PROVE CaInv
    OBVIOUS
  <1>1. CaTypes
    <2>1. NoCert \in Certs
      BY DEF NoCert, Certs
    <2>2. NewUser \in Users
      BY <2>1 DEF NewUser, Users
    <2>3. ClockType /\ version \in Int
      BY CaAssumption DEF CaInit, NothingFetched, ClockType
    <2>4. certState \in CertStates
      BY Zenon, <2>1 DEF CaInit, NothingFetched, NotReady, CertStates
    <2>5. fetcher \in Fetchers
      BY CaAssumption DEF CaInit, Fetchers
    <2>6. user \in [User -> Users]
      BY <2>2 DEF CaInit
    <2> QED
      BY <2>3, <2>4, <2>5, <2>6 DEF CaTypes
  <1>2. CertMade /\ RenewalInTime
    BY Zenon DEF CaInit, NothingFetched, NotReady, CertMade, RenewalInTime
  <1>3. FetchOnTime
    BY CaAssumption DEF CaInit, NothingFetched, FetchOnTime
  <1>4. UsersServed
    BY DEF CaInit, NewUser, UsersServed
  <1> QED
    BY <1>1, <1>2, <1>3, <1>4 DEF CaInv

(* Every step of the fetcher, of the connections and of time keeps it. *)
LEMMA CaPreserved == CaInv /\ [CaNext]_caVars => CaInv'
  <1> SUFFICES ASSUME CaInv, [CaNext]_caVars PROVE CaInv'
    OBVIOUS
  <1>0. CaTypes /\ CertMade /\ FetchOnTime /\ RenewalInTime /\ UsersServed
    BY DEF CaInv
  <1>1. CASE FetchEnds
    <2>1. PICK a \in Answers : certState' = Fetched(a)
      BY <1>1 DEF FetchEnds
    <2>2. /\ UNCHANGED <<caFails, clock, user>> /\ fetcher.at = "fetching"
          /\ fetcher'.at = "sleeping" /\ fetcher'.tick = fetcher.tick
      BY <1>0, <1>1 DEF FetchEnds, CaTypes, Fetchers
    <2>3. CaTypes'
      <3>1. certState' \in CertStates
        BY <1>0, <2>1, FetchedMade
      <3>2. fetcher' \in Fetchers
        BY <1>0, <1>1 DEF FetchEnds, CaTypes, Fetchers
      <3>3. version' \in Int
        BY <1>0, <1>1 DEF FetchEnds, CaTypes
      <3> QED
        BY Zenon, <1>0, <2>2, <3>1, <3>2, <3>3 DEF CaTypes, ClockType
    <2>4. CertMade' /\ FetchOnTime'
      BY Zenon, <1>0, <2>1, <2>2, FetchedMade DEF CertMade, FetchOnTime
    <2>5. ASSUME InTime, Fetched(a).kind = "available"
          PROVE  /\ fetcher.tick <= Fetched(a).cert.from + Half + Period
                 /\ clock <= Fetched(a).cert.from + Half + Period
      <3>1. fetcher.since <= clock /\ fetcher.tick <= fetcher.since + Period
        BY Zenon, <1>0, <2>2 DEF FetchOnTime
      <3>2. Fetched(a).cert.from \in Int /\ clock - Skew <= Fetched(a).cert.from
        BY <1>0, <2>5, FetchedMade
      <3>3. Skew <= Half
        BY Zenon, <2>5, InTimeMeans
      <3> QED
        BY <1>0, <3>1, <3>2, <3>3, Fields, HalfNat, CaAssumption
    <2>6. RenewalInTime' /\ UsersServed'
      BY <1>0, <2>1, <2>2, <2>5 DEF RenewalInTime, UsersServed, InTime
    <2> QED
      BY <2>3, <2>4, <2>6 DEF CaInv
  <1>2. CASE TickFires
    <2>1. /\ UNCHANGED <<caFails, clock, certState, version, user>>
          /\ fetcher.at = "sleeping" /\ clock >= fetcher.tick
          /\ fetcher'.since = clock /\ fetcher'.tick = fetcher.tick + Period
          /\ fetcher'.at = IF \/ certState.kind # "available"
                              \/ clock >= RefreshAt(certState.cert)
                           THEN "fetching" ELSE "sleeping"
      BY Zenon, <1>2 DEF TickFires
    <2>2. CaTypes'
      <3>1. fetcher' \in Fetchers
        BY <1>0, <1>2, Fields, CaAssumption DEF TickFires, Fetchers
      <3> QED
        BY Zenon, <1>0, <2>1, <3>1 DEF CaTypes, ClockType
    <2>3. CertMade' /\ UsersServed'
      BY Zenon, <1>0, <2>1 DEF CertMade, UsersServed, InTime
    <2>4. FetchOnTime'
      BY <1>0, <2>1, Fields, CaAssumption DEF FetchOnTime
    <2>5. ASSUME InTime, certState.kind = "available"
          PROVE  /\ fetcher'.at = "fetching" => clock + FetchTime <= certState.cert.to
                 /\ fetcher'.at = "sleeping" =>
                      fetcher.tick + Period <= certState.cert.from + Half + Period
      <3>1. RefreshAt(certState.cert) = certState.cert.from + Half
        BY Zenon, <1>0, <2>5, RefreshAtHalf, Fields DEF CertMade
      <3>2. /\ clock <= certState.cert.from + Half + Period
            /\ certState.cert.to = certState.cert.from + Ttl
        BY Zenon, <1>0, <2>1, <2>5 DEF RenewalInTime, CertMade
      <3>3. clock + FetchTime <= certState.cert.to
        BY <1>0, <2>5, <3>2, Fields, InTimeMeans, HalfNat, CaAssumption
      <3>4. fetcher'.at = "sleeping" => ~(clock >= certState.cert.from + Half)
        BY Zenon, <2>1, <3>1
      <3> QED
        BY <1>0, <2>1, <3>3, <3>4, Fields, HalfNat, CaAssumption
    <2>6. InTime /\ certState.kind = "available" /\ fetcher'.at = "sleeping" =>
            clock <= certState.cert.from + Half + Period
      BY Zenon, <1>0, <2>1 DEF RenewalInTime
    <2>7. RenewalInTime'
      BY Zenon, <2>1, <2>5, <2>6 DEF RenewalInTime, InTime
    <2> QED
      BY Zenon, <2>2, <2>3, <2>4, <2>7 DEF CaInv
  <1>3. CASE TimePasses
    <2>1. UNCHANGED <<caFails, certState, version, fetcher, user>> /\ clock' = clock + 1
      BY <1>3 DEF TimePasses
    <2>2. CaTypes'
      <3>1. ClockType'
        BY <1>0, <2>1, Fields, CaAssumption DEF ClockType
      <3> QED
        BY Zenon, <1>0, <2>1, <3>1 DEF CaTypes
    <2>3. CertMade' /\ UsersServed'
      BY <1>0, <2>1 DEF CertMade, UsersServed, InTime
    <2>4. fetcher.at = "fetching" => clock < fetcher.since + FetchTime
      BY Zenon, <1>3 DEF TimePasses
    <2>5. FetchOnTime'
      BY <1>0, <2>1, <2>4, Fields, CaAssumption DEF FetchOnTime
    <2>6. ASSUME InTime, certState.kind = "available", fetcher.at = "sleeping"
          PROVE  clock + 1 <= certState.cert.from + Half + Period
      <3>1. clock < fetcher.tick /\ fetcher.tick <= certState.cert.from + Half + Period
        BY Zenon, <1>0, <1>3, <2>6 DEF TimePasses, RenewalInTime
      <3> QED
        BY <1>0, <3>1, Fields, HalfNat, CaAssumption
    <2>7. RenewalInTime'
      BY <1>0, <2>1, <2>6 DEF RenewalInTime, InTime
    <2> QED
      BY <2>2, <2>3, <2>5, <2>7 DEF CaInv
  <1>4. ASSUME NEW u \in User, NEW w \in Users, user' = [user EXCEPT ![u] = w],
               UNCHANGED <<caFails, clock, certState, version, fetcher>>,
               InTime => w.res # "expired", w.at = "handshake" => w.cert.to >= 0
        PROVE  CaInv'
    <2>1. user' \in [User -> Users]
      BY <1>0, <1>4 DEF CaTypes
    <2>2. CaTypes' /\ CertMade' /\ FetchOnTime' /\ RenewalInTime'
      <3>1. CaTypes'
        BY Zenon, <1>0, <1>4, <2>1 DEF CaTypes, ClockType
      <3>2. CertMade' /\ FetchOnTime'
        BY Zenon, <1>0, <1>4 DEF CertMade, FetchOnTime
      <3>3. RenewalInTime'
        BY <1>0, <1>4 DEF RenewalInTime, InTime
      <3> QED
        BY Zenon, <3>1, <3>2, <3>3
    <2>3. \A v \in User : user'[v] = IF v = u THEN w ELSE user[v]
      BY Zenon, <1>0, <1>4 DEF CaTypes
    <2>4. UsersServed'
      BY <1>0, <1>4, <2>3 DEF UsersServed, InTime
    <2> QED
      BY Zenon, <2>2, <2>4 DEF CaInv
  <1>5. ASSUME NEW u \in User, LookAtState(u) PROVE CaInv'
    <2>1. user[u] \in Users /\ UNCHANGED <<caFails, clock, certState, version, fetcher>>
      BY Zenon, <1>0, <1>5 DEF CaTypes, LookAtState
    <2>2. CASE certState.kind = "not ready"
      <3>1. user' = [user EXCEPT ![u] = [user[u] EXCEPT !.at = "waiting", !.seen = version]]
        BY Zenon, <1>5, <2>2 DEF LookAtState
      <3>2. [user[u] EXCEPT !.at = "waiting", !.seen = version] \in Users
        BY Zenon, <1>0, <2>1 DEF Users, CaTypes
      <3> QED
        BY Zenon, <1>0, <1>4, <2>1, <3>1, <3>2 DEF Users, UsersServed
    <2>3. CASE certState.kind = "error"
      <3>1. user' = [user EXCEPT ![u] = [user[u] EXCEPT !.at = "done", !.res = "error"]]
        BY <1>5, <2>3 DEF LookAtState
      <3>2. [user[u] EXCEPT !.at = "done", !.res = "error"] \in Users
        BY Zenon, <2>1 DEF Users
      <3> QED
        BY Zenon, <1>4, <2>1, <3>1, <3>2 DEF Users
    <2>4. CASE certState.kind = "available" /\ IsExpired(certState.cert)
      <3>1. user' = [user EXCEPT ![u] = [user[u] EXCEPT !.at = "done", !.res = "expired"]]
        BY <1>5, <2>4 DEF LookAtState
      <3>2. [user[u] EXCEPT !.at = "done", !.res = "expired"] \in Users
        BY Zenon, <2>1 DEF Users
      <3>3. ~InTime
        BY <1>0, <2>4, NotExpired, Fields DEF IsExpired
      <3> QED
        BY Zenon, <1>4, <2>1, <3>1, <3>2, <3>3 DEF Users
    <2>5. CASE certState.kind = "available" /\ ~IsExpired(certState.cert)
      <3>1. user' = [user EXCEPT ![u] =
                       [user[u] EXCEPT !.at = "handshake", !.cert = certState.cert]]
        BY <1>5, <2>5 DEF LookAtState
      <3>2. [user[u] EXCEPT !.at = "handshake", !.cert = certState.cert] \in Users
        BY Zenon, <1>0, <2>1, Fields DEF Users
      <3>3. certState.cert.to >= 0
        BY <1>0, <2>5, Fields, CaAssumption DEF CertMade
      <3> QED
        BY Zenon, <1>0, <1>4, <2>1, <3>1, <3>2, <3>3 DEF Users, UsersServed
    <2>6. certState.kind \in {"not ready", "error", "available"}
      BY Zenon, <1>0 DEF CaTypes, CertStates
    <2> QED
      BY Zenon, <2>2, <2>3, <2>4, <2>5, <2>6
  <1>6. ASSUME NEW u \in User, Wakes(u) PROVE CaInv'
    <2>1. user[u] \in Users
      BY <1>0 DEF CaTypes
    <2>2. user' = [user EXCEPT ![u] = [user[u] EXCEPT !.at = "woken"]]
      BY <1>6 DEF Wakes
    <2>3. [user[u] EXCEPT !.at = "woken"] \in Users
      BY <2>1 DEF Users
    <2> QED
      BY Zenon, <1>0, <1>4, <1>6, <2>1, <2>2, <2>3 DEF Wakes, Users, UsersServed
  <1>7. ASSUME NEW u \in User, Handshake(u) PROVE CaInv'
    <2>1. user[u] \in Users
      BY <1>0 DEF CaTypes
    <2>2. PICK r \in {"connected", "refused"} :
            user' = [user EXCEPT ![u] = [user[u] EXCEPT !.at = "done", !.res = r]]
      BY Zenon, <1>0, <1>7 DEF Handshake, CaTypes
    <2>3. [user[u] EXCEPT !.at = "done", !.res = r] \in Users
      BY Zenon, <2>1, <2>2 DEF Users
    <2> QED
      BY Zenon, <1>4, <1>7, <2>1, <2>2, <2>3 DEF Handshake, Users
  <1>8. ASSUME NEW u \in User, Again(u) PROVE CaInv'
    <2>1. NewUser \in Users
      BY DEF NewUser, NoCert, Users, Certs
    <2> QED
      BY Zenon, <1>4, <1>8, <2>1 DEF Again, NewUser
  <1>9. CASE UNCHANGED caVars
    BY Zenon, <1>0, <1>9 DEF caVars, CaInv, CaTypes, ClockType, CertMade, FetchOnTime, RenewalInTime,
                      UsersServed, InTime
  <1> QED
    BY <1>1, <1>2, <1>3, <1>5, <1>6, <1>7, <1>8, <1>9 DEF CaNext

(* The invariant says what the property asks. *)
LEMMA CaSuffices == CaInv => CertificatesSound
  <1> SUFFICES ASSUME CaInv PROVE CertificatesSound
    BY Zenon
  <1>1. InTime /\ certState.kind = "available" => ~IsExpired(certState.cert)
    BY NotExpired, Fields DEF IsExpired, CaInv
  <1>2. NeverExpired
    BY Zenon, <1>1 DEF NeverExpired, InTime, Half, CaInv, UsersServed
  <1>3. OwnIdentityOnly
    BY DEF OwnIdentityOnly, CaInv, CaTypes, Users, Certs, UsersServed
  <1> QED
    BY <1>2, <1>3 DEF CertificatesSound

(* run_fetcher renews in time and get_identity hands out only certificates for
   the configured identity, for every validity, period and duration of a fetch
   and any number of connections. *)
THEOREM CertificatesCorrect == CaSpec => []CertificatesSound
  <1>1. CaSpec => []CaInv
    BY CaInitially, CaPreserved, PTL DEF CaSpec
  <1> QED
    BY <1>1, CaSuffices, PTL
=============================================================================
