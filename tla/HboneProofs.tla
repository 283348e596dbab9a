---------------------------- MODULE HboneProofs -----------------------------
(***************************************************************************)
(* The HBONE pool, for any number of callers.  The counter of a connection *)
(* is compared with the number of streams on it, so that each step moves   *)
(* one request in or out of a finite set of streams.                       *)
(***************************************************************************)
EXTENDS HbonePool, FiniteSetTheorems, TLAPS

HbonePoints == {"idle", "lookup", "insert", "trylock", "wait", "relookup", "lock", "get",
                "spawn", "send", "response", "open", "halfopen"}

HboneTypes ==
  /\ writelock \in [Hash -> {"absent", "free"} \cup Task]
  /\ pool \in [Hash -> SUBSET Conn]
  /\ at \in [Task -> HbonePoints]
  /\ key \in [Task -> Key \cup {None}]
  /\ conn \in [Task -> Conn \cup {None}]
  /\ h2 \in [Conn -> H2State \cup {None}]

(* A request past connect has a connection, one within it has a key, and what
   something refers to is open: SpawnOk takes an identity nobody refers to. *)
Placed ==
  /\ \A t \in Task : conn[t] # None <=> at[t] \in {"send", "response", "open", "halfopen"}
  /\ \A t \in Task : at[t] # "idle" => key[t] \in Key
  /\ \A c \in Conn : Referenced(c) => h2[c] # None

HboneInv == HboneTypes /\ Placed /\ ConnMatchesKey /\ LockHeldByWorker

Streams(c) == {t \in Task : conn[t] = c /\ at[t] \in {"response", "open"}}

(* A request ends: its guard is dropped and it has no connection. *)
LEMMA LeaveKeeps ==
  ASSUME HboneInv, NEW t \in Task, Leave(t), pool' \in [Hash -> SUBSET Conn],
         \A h \in Hash : pool'[h] \subseteq pool[h],
         NEW f \in [Conn -> H2State \cup {None}], Connections(f),
         \A c \in Conn : h2[c] # None => f[c] # None /\ f[c].wl_key = h2[c].wl_key
  PROVE  HboneInv'
  <1> USE DEF HboneInv, HboneTypes
  <1>1. /\ at' \in [Task -> HbonePoints] /\ at'[t] = "idle" /\ conn'[t] = None
        /\ key' \in [Task -> Key \cup {None}] /\ conn' \in [Task -> Conn \cup {None}]
        /\ \A u \in Task \ {t} : at'[u] = at[u] /\ conn'[u] = conn[u] /\ key'[u] = key[u]
    BY DEF Leave, HbonePoints
  <1>2. writelock' \in [Hash -> {"absent", "free"} \cup Task]
    BY DEF Leave, Unlocked
  <1>3. h2' \in [Conn -> H2State \cup {None}]
    BY DEF Connections
  <1>4. ASSUME NEW c \in Conn, Referenced(c)'
        PROVE  h2[c] # None /\ h2'[c] = f[c] /\ f[c] # None /\ h2'[c].wl_key = h2[c].wl_key
    <2>1. Referenced(c)
      BY <1>1, <1>4, HboneAssumption DEF Referenced
    <2> QED
      BY <1>4, <2>1 DEF Connections, Placed
  <1>5. Placed'
    BY <1>1, <1>4 DEF Placed
  <1>6. ConnMatchesKey'
    <2> SUFFICES ASSUME NEW u \in Task, NEW d \in Conn, conn'[u] = d
                 PROVE  h2'[d].wl_key = key'[u]
      BY <1>1 DEF ConnMatchesKey
    <2>1. u # t /\ conn'[u] = conn[u] /\ key'[u] = key[u]
      BY <1>1, HboneAssumption
    <2>2. Referenced(d)'
      BY DEF Referenced
    <2> QED
      BY <1>4, <2>1, <2>2, HboneAssumption DEF ConnMatchesKey
  <1>7. LockHeldByWorker'
    <2> SUFFICES ASSUME NEW u \in Task, NEW h \in Hash
                 PROVE  writelock'[h] = u <=> (at'[u] \in {"get", "spawn"} /\ h = HashFor(u)')
      BY DEF LockHeldByWorker
    <2>1. CASE u = t
      BY <1>1, <2>1, HboneAssumption DEF Leave, Unlocked
    <2>2. CASE u # t
      <3>1. writelock'[h] = u <=> writelock[h] = u
        BY <2>2, HboneAssumption DEF Leave, Unlocked
      <3> QED
        BY <1>1, <2>2, <3>1 DEF LockHeldByWorker, HashFor
    <2> QED
      BY <2>1, <2>2
  <1> QED
    BY <1>1, <1>2, <1>3, <1>5, <1>6, <1>7

(* A request is given connection c, which has its key. *)
LEMMA ReturnKeeps ==
  ASSUME HboneInv, NEW t \in Task, at[t] \in {"get", "spawn"}, NEW c \in Conn, ReturnConn(t, c),
         pool' \in [Hash -> SUBSET Conn],
         \A h \in Hash : pool'[h] \subseteq pool[h] \cup {c},
         NEW f \in [Conn -> H2State \cup {None}], Connections(f),
         \A d \in Conn \ {c} : f[d] = h2[d],
         f[c] # None, f[c].wl_key = key[t],
         h2[c] = None \/ f = h2
  PROVE  HboneInv'
  <1> USE DEF HboneInv, HboneTypes
  <1>1. /\ at' \in [Task -> HbonePoints] /\ at'[t] = "send" /\ conn'[t] = c /\ c # None
        /\ key' = key /\ conn' \in [Task -> Conn \cup {None}]
        /\ \A u \in Task \ {t} : at'[u] = at[u] /\ conn'[u] = conn[u]
    BY HboneAssumption DEF ReturnConn, HbonePoints
  <1>2. writelock' \in [Hash -> {"absent", "free"} \cup Task]
    BY DEF ReturnConn, Unlocked
  <1>3. h2' \in [Conn -> H2State \cup {None}]
    BY DEF Connections
  <1>4. ASSUME NEW d \in Conn, Referenced(d)'
        PROVE  h2'[d] = f[d] /\ f[d] # None
    <2>1. d = c \/ Referenced(d)
      BY <1>1, <1>4, HboneAssumption DEF Referenced
    <2> QED
      BY <1>4, <2>1 DEF Connections, Placed
  <1>5. Placed'
    BY <1>1, <1>4 DEF Placed
  <1>6. ConnMatchesKey'
    <2> SUFFICES ASSUME NEW u \in Task, NEW d \in Conn, conn'[u] = d
                 PROVE  h2'[d].wl_key = key'[u]
      BY <1>1 DEF ConnMatchesKey
    <2>1. Referenced(d)'
      BY DEF Referenced
    <2>2. CASE u = t
      BY <1>1, <1>4, <2>1, <2>2
    <2>3. CASE u # t
      <3>1. conn[u] = d /\ h2[d].wl_key = key[u] /\ Referenced(d)
        BY <1>1, <2>3, HboneAssumption DEF ConnMatchesKey, Referenced
      <3>2. h2[d] # None
        BY <3>1 DEF Placed
      <3> QED
        BY <1>1, <1>4, <2>1, <3>1, <3>2
    <2> QED
      BY <2>2, <2>3
  <1>7. LockHeldByWorker'
    <2> SUFFICES ASSUME NEW u \in Task, NEW h \in Hash
                 PROVE  writelock'[h] = u <=> (at'[u] \in {"get", "spawn"} /\ h = HashFor(u)')
      BY DEF LockHeldByWorker
    <2>1. CASE u = t
      BY <1>1, <2>1, HboneAssumption DEF ReturnConn, Unlocked
    <2>2. CASE u # t
      <3>1. writelock'[h] = u <=> writelock[h] = u
        BY <2>2, HboneAssumption DEF ReturnConn, Unlocked
      <3> QED
        BY <1>1, <2>2, <3>1 DEF LockHeldByWorker, HashFor
    <2> QED
      BY <2>1, <2>2
  <1> QED
    BY <1>1, <1>2, <1>3, <1>5, <1>6, <1>7

(* Steps within connect that touch neither connections nor the pool. *)
LEMMA ControlKeeps ==
  ASSUME HboneInv, NEW t \in Task,
         (\E k \in Key : HboneConnect(t, k))
           \/ Lookup(t) \/ Insert(t) \/ TryLock(t) \/ Woken(t) \/ Lock(t) \/ ResponseOk(t)
  PROVE  HboneInv'
  <1> USE DEF HboneInv, HboneTypes
  <1>1. UNCHANGED <<pool, conn, h2>>
    BY DEF HboneConnect, Lookup, Insert, TryLock, Woken, Lock, ResponseOk
  <1>2. /\ at' \in [Task -> HbonePoints]
        /\ \A u \in Task \ {t} : at'[u] = at[u]
    BY DEF HboneConnect, Lookup, Insert, TryLock, Woken, Lock, ResponseOk, TaskAt, HbonePoints
  <1>3. at'[t] \in {"send", "response", "open", "halfopen"}
          <=> at[t] \in {"send", "response", "open", "halfopen"}
    BY DEF HboneConnect, Lookup, Insert, TryLock, Woken, Lock, ResponseOk, TaskAt, HbonePoints
  <1>4. key' \in [Task -> Key \cup {None}]
    BY DEF HboneConnect, Lookup, Insert, TryLock, Woken, Lock, ResponseOk
  <1>5. /\ key'[t] \in Key
        /\ \A u \in Task \ {t} : key'[u] = key[u]
        /\ at[t] # "idle" => key' = key
    BY DEF HboneConnect, Lookup, Insert, TryLock, Woken, Lock, ResponseOk, TaskAt, Placed
  <1>6. HashFor(t)' \in Hash
    BY <1>5, HashAssumption DEF HashFor
  <1>7. writelock' \in [Hash -> {"absent", "free"} \cup Task]
    BY <1>6 DEF HboneConnect, Lookup, Insert, TryLock, Woken, Lock, ResponseOk
  <1>8. Placed'
    BY <1>1, <1>2, <1>3, <1>5 DEF Placed, Referenced
  <1>9. ConnMatchesKey'
    BY <1>1, <1>3, <1>5 DEF Placed, ConnMatchesKey
  <1>10. LockHeldByWorker'
    <2>1. ASSUME NEW u \in Task, NEW h \in Hash, u # t
          PROVE  writelock'[h] = u <=> writelock[h] = u
      BY <2>1, HboneAssumption DEF HboneConnect, Lookup, Insert, TryLock, Woken, Lock, ResponseOk
    <2>2. ASSUME NEW h \in Hash
          PROVE  writelock'[h] = t <=> (at'[t] \in {"get", "spawn"} /\ h = HashFor(t)')
      <3>1. CASE TryLock(t)
        BY <3>1, <1>6, HboneAssumption DEF TryLock, LockHeldByWorker, HashFor
      <3>2. CASE Lock(t)
        BY <3>2, <1>6, HboneAssumption DEF Lock, TaskAt, LockHeldByWorker, HashFor
      <3>3. CASE Insert(t)
        BY <3>3, <1>6, HboneAssumption DEF Insert, TaskAt, LockHeldByWorker, HashFor
      <3>4. CASE (\E k \in Key : HboneConnect(t, k)) \/ Lookup(t) \/ Woken(t) \/ ResponseOk(t)
        BY <3>4 DEF HboneConnect, Lookup, Woken, ResponseOk, TaskAt, LockHeldByWorker
      <3> QED
        BY Zenon, <3>1, <3>2, <3>3, <3>4
    <2> QED
      BY <1>2, <1>5, <2>1, <2>2 DEF LockHeldByWorker, HashFor
  <1> QED
    BY Zenon, <1>1, <1>2, <1>4, <1>7, <1>8, <1>9, <1>10

(* The counter of the connection of a task that has one. *)
LEMMA CountedValue ==
  ASSUME HboneInv, NEW t \in Task, at[t] \in {"send", "response", "open", "halfopen"},
         NEW n \in Int
  PROVE  /\ conn[t] \in Conn /\ h2[conn[t]] # None
         /\ Counted(t, n) \in [Conn -> H2State \cup {None}]
         /\ \A c \in Conn \ {conn[t]} : Counted(t, n)[c] = h2[c]
         /\ Counted(t, n)[conn[t]] # None
         /\ Counted(t, n)[conn[t]].stream_count = h2[conn[t]].stream_count + n
         /\ Counted(t, n)[conn[t]].wl_key = h2[conn[t]].wl_key
  <1> DEFINE c == conn[t]
             g == [h2[c] EXCEPT !.stream_count = @ + n]
  <1>1. c \in Conn /\ h2[c] # None
    BY DEF HboneInv, HboneTypes, Placed, Referenced
  <1>2. h2[c] \in H2State
    BY <1>1 DEF HboneInv, HboneTypes
  <1>3. /\ g \in H2State /\ g.stream_count = h2[c].stream_count + n
        /\ g.wl_key = h2[c].wl_key
    BY <1>2 DEF H2State
  <1>4. g # None
    BY <1>3, HboneAssumption
  <1>5. Counted(t, n) = [h2 EXCEPT ![c] = g]
    BY <1>1 DEF Counted, HboneInv, HboneTypes
  <1> HIDE DEF g
  <1> QED
    BY <1>1, <1>3, <1>4, <1>5 DEF HboneInv, HboneTypes

(* Steps with a stream: only the state of connections and the point of a task
   that keeps its connection change. *)
LEMMA StreamKeeps ==
  ASSUME HboneInv, NEW t \in Task, at' \in [Task -> HbonePoints],
         UNCHANGED <<writelock, pool, key, conn>>,
         h2' \in [Conn -> H2State \cup {None}],
         \A c \in Conn : h2[c] # None => h2'[c] # None /\ h2'[c].wl_key = h2[c].wl_key,
         \A u \in Task : at'[u] = at[u] \/ {at[u], at'[u]} \subseteq {"send", "response", "open", "halfopen"}
  PROVE  HboneInv'
  <1> USE DEF HboneInv, HboneTypes
  <1>1. Placed'
    <2>1. \A u \in Task : at'[u] \in {"send", "response", "open", "halfopen"}
                             <=> at[u] \in {"send", "response", "open", "halfopen"}
      OBVIOUS
    <2>2. \A u \in Task : at'[u] # "idle" => at[u] # "idle"
      OBVIOUS
    <2> QED
      BY <2>1, <2>2 DEF Placed, Referenced
  <1>2. ConnMatchesKey'
    BY DEF ConnMatchesKey, Placed, Referenced
  <1>3. LockHeldByWorker'
    BY DEF LockHeldByWorker, HashFor
  <1> QED
    BY <1>1, <1>2, <1>3

(* References leave the pool. *)
LEMMA PruneKeeps ==
  ASSUME HboneInv, pool' \in [Hash -> SUBSET Conn],
         \A h \in Hash : pool'[h] \subseteq pool[h],
         UNCHANGED <<writelock, key, conn, at>>, Connections(h2)
  PROVE  HboneInv'
  <1> USE DEF HboneInv, HboneTypes
  <1>1. ASSUME NEW c \in Conn, Referenced(c)' PROVE h2'[c] = h2[c] /\ h2[c] # None
    BY <1>1 DEF Connections, Referenced, Placed
  <1>2. h2' \in [Conn -> H2State \cup {None}]
    BY DEF Connections
  <1>3. \A t \in Task : conn[t] # None => conn[t] \in Conn /\ h2'[conn[t]] = h2[conn[t]]
    BY <1>1 DEF Referenced
  <1> QED
    BY <1>1, <1>2, <1>3 DEF Placed, ConnMatchesKey, LockHeldByWorker, HashFor

(* Every step of a request, of the pool and of a connection keeps the places
   and the keys. *)
LEMMA HboneInvStep == HboneInv /\ [HboneNext]_hboneVars => HboneInv'
  <1> SUFFICES ASSUME HboneInv, [HboneNext]_hboneVars PROVE HboneInv'
    OBVIOUS
  <1>t. HboneTypes
    BY DEF HboneInv
  <1>p. \A h \in Hash, c \in Conn : [pool EXCEPT ![h] = @ \ {c}] \in [Hash -> SUBSET Conn]
    BY <1>t DEF HboneTypes
  <1>h. \A t \in Task : at[t] # "idle" => HashFor(t) \in Hash /\ key[t] \in Key
    BY HashAssumption DEF HboneInv, Placed, HashFor
  <1>2. ASSUME NEW t \in Task, (\E k \in Key : HboneConnect(t, k))
           \/ Lookup(t) \/ Insert(t) \/ TryLock(t) \/ Woken(t) \/ Lock(t) \/ ResponseOk(t)
        PROVE  HboneInv'
    BY <1>2, ControlKeeps
  <1>3. ASSUME NEW t \in Task, SpawnErr(t) \/ DropSecondHalf(t) \/ CancelConnect(t)
        PROVE  HboneInv'
    <2>1. Leave(t) /\ pool' = pool /\ Connections(h2)
      BY <1>3 DEF SpawnErr, DropSecondHalf, CancelConnect
    <2> QED
      BY <1>t, <2>1, LeaveKeeps DEF HboneTypes
  <1>4. ASSUME NEW t \in Task, ResponseErr(t)
        PROVE  HboneInv'
    <2>1. Leave(t) /\ pool' = pool /\ Connections(Counted(t, -1)) /\ at[t] = "response"
      BY <1>4 DEF ResponseErr
    <2>2. \A c \in Conn : h2[c] # None => Counted(t, -1)[c] # None /\ Counted(t, -1)[c].wl_key = h2[c].wl_key
      BY <2>1, CountedValue
    <2>3. Counted(t, -1) \in [Conn -> H2State \cup {None}]
      BY <2>1, CountedValue
    <2> QED
      BY <1>t, <2>1, <2>2, <2>3, LeaveKeeps DEF HboneTypes
  <1>5. ASSUME NEW t \in Task, SendRequest(t) \/ DropFirstHalf(t)
        PROVE  HboneInv'
    <2>1. PICK n \in {1, -1} : h2' = Counted(t, n)
      BY <1>5 DEF SendRequest, DropFirstHalf
    <2>2. /\ at[t] \in {"send", "open"} /\ UNCHANGED <<writelock, pool, key, conn>>
          /\ at' \in [Task -> HbonePoints]
          /\ \A u \in Task : at'[u] = at[u] \/ {at[u], at'[u]} \subseteq {"send", "response", "open", "halfopen"}
      BY <1>5, <1>t DEF SendRequest, DropFirstHalf, TaskAt, HboneTypes, HbonePoints
    <2>3. /\ h2' \in [Conn -> H2State \cup {None}]
          /\ \A c \in Conn : h2[c] # None => h2'[c] # None /\ h2'[c].wl_key = h2[c].wl_key
      BY <2>1, <2>2, CountedValue
    <2> QED
      BY <2>2, <2>3, StreamKeeps
  <1>6. ASSUME NEW c \in Conn, Break(c)
        PROVE  HboneInv'
    <2>1. h2[c] \in H2State
      BY <1>6, <1>t DEF Break, HboneTypes
    <2>2. [h2[c] EXCEPT !.ready = FALSE] \in H2State /\ [h2[c] EXCEPT !.ready = FALSE].wl_key = h2[c].wl_key
      BY Zenon, <2>1 DEF H2State
    <2>3. h2' = [h2 EXCEPT ![c] = [h2[c] EXCEPT !.ready = FALSE]]
      BY <1>6 DEF Break
    <2>4. /\ h2' \in [Conn -> H2State \cup {None}]
          /\ \A d \in Conn : h2[d] # None => h2'[d] # None /\ h2'[d].wl_key = h2[d].wl_key
      BY Zenon, <2>2, <2>3, <1>t, HboneAssumption DEF HboneTypes
    <2>5. UNCHANGED <<writelock, pool, key, conn, at>>
      BY <1>6 DEF Break
    <2> QED
      BY <2>4, <2>5, <1>t DEF HboneInv, HboneTypes, Placed, Referenced, ConnMatchesKey, LockHeldByWorker, HashFor
  <1>7. ASSUME NEW h \in Hash, NEW c \in Conn, Evict(h, c)
        PROVE  HboneInv'
    <2>1. /\ pool' \in [Hash -> SUBSET Conn] /\ \A g \in Hash : pool'[g] \subseteq pool[g]
          /\ UNCHANGED <<writelock, key, conn, at>> /\ Connections(h2)
      BY <1>7, <1>t, <1>p DEF Evict, HboneTypes
    <2> QED
      BY <2>1, PruneKeeps
  <1>8. ASSUME NEW t \in Task, Get(t)
        PROVE  HboneInv'
    <2>1. Connections(h2) /\ at[t] = "get" /\ HashFor(t) \in Hash
      BY <1>8, <1>h DEF Get
    <2>2. CASE TaskAt(t, "get", "spawn") /\ UNCHANGED <<writelock, pool, enpooled, changed, key, conn>>
      <3>1. \A c \in Conn : Referenced(c)' <=> Referenced(c)
        BY <2>2 DEF Referenced
      <3>2. at' \in [Task -> HbonePoints]
        BY <2>2, <1>t DEF TaskAt, HboneTypes, HbonePoints
      <3>3. HboneTypes'
        BY Zenon, <2>1, <2>2, <3>2, <1>t DEF HboneTypes, Connections
      <3>4. Placed' /\ ConnMatchesKey'
        BY Zenon, <2>1, <2>2, <3>1, <1>t DEF HboneTypes, Connections, HboneInv, Placed, ConnMatchesKey, TaskAt, Referenced
      <3>5. LockHeldByWorker'
        BY <2>1, <2>2, <1>t DEF HboneTypes, HboneInv, LockHeldByWorker, TaskAt, HashFor
      <3> QED
        BY <3>3, <3>4, <3>5 DEF HboneInv
    <2>3. ASSUME NEW c \in pool[HashFor(t)], NEW idle, idle = [pool EXCEPT ![HashFor(t)] = @ \ {c}],
                 h2[c].wl_key # key[t], Leave(t), pool' = idle
          PROVE  HboneInv'
      <3>1. c \in Conn /\ pool' \in [Hash -> SUBSET Conn] /\ \A g \in Hash : pool'[g] \subseteq pool[g]
        BY <2>1, <2>3, <1>t, <1>p DEF HboneTypes
      <3> QED
        BY <3>1, <2>1, <2>3, <1>t, LeaveKeeps DEF HboneTypes
    <2>4. ASSUME NEW c \in pool[HashFor(t)], NEW idle, idle = [pool EXCEPT ![HashFor(t)] = @ \ {c}],
                 pool' = idle, UNCHANGED <<writelock, at, key, conn>>
          PROVE  HboneInv'
      <3>1. c \in Conn /\ pool' \in [Hash -> SUBSET Conn] /\ \A g \in Hash : pool'[g] \subseteq pool[g]
        BY <2>1, <2>4, <1>t, <1>p DEF HboneTypes
      <3> QED
        BY <3>1, <2>1, <2>4, PruneKeeps
    <2>5. ASSUME NEW c \in pool[HashFor(t)], NEW idle, idle = [pool EXCEPT ![HashFor(t)] = @ \ {c}],
                 h2[c].wl_key = key[t], ReturnConn(t, c),
                 MaybeCheckin(t, c, h2[c].stream_count, h2[c].limit, idle)
          PROVE  HboneInv'
      <3>1. c \in Conn /\ h2[c] # None
        BY <2>1, <1>t DEF HboneTypes, HboneInv, Placed, Referenced
      <3>2. pool' \in [Hash -> SUBSET Conn] /\ \A g \in Hash : pool'[g] \subseteq pool[g] \cup {c}
        BY <3>1, <2>1, <2>5, <1>t DEF HboneTypes, MaybeCheckin
      <3> QED
        BY Zenon, <3>1, <3>2, <2>1, <2>5, <1>t, ReturnKeeps DEF HboneTypes
    <2> QED
      BY Zenon, <1>8, <2>2, <2>3, <2>4, <2>5 DEF Get
  <1>9. ASSUME NEW t \in Task, SpawnOk(t)
        PROVE  HboneInv'
    <2>1. PICK c \in Conn, max \in StreamLimit :
             /\ h2[c] = None
             /\ ReturnConn(t, c)
             /\ MaybeCheckin(t, c, 0, max, pool)
             /\ Connections([h2 EXCEPT ![c] = [wl_key |-> key[t], ready |-> TRUE, limit |-> max,
                                               stream_count |-> 0]])
      BY Zenon, <1>9 DEF SpawnOk
    <2> DEFINE fresh == [wl_key |-> key[t], ready |-> TRUE, limit |-> max, stream_count |-> 0]
               f == [h2 EXCEPT ![c] = fresh]
    <2>2. at[t] = "spawn" /\ HashFor(t) \in Hash /\ key[t] \in Key
      BY Zenon, <1>9, <1>h DEF SpawnOk
    <2>3. fresh \in H2State /\ fresh.wl_key = key[t]
      BY <2>2 DEF H2State
    <2>4. fresh # None
      BY Zenon, <2>3, HboneAssumption
    <2> HIDE DEF fresh
    <2>5. /\ f \in [Conn -> H2State \cup {None}] /\ f[c] = fresh
          /\ \A d \in Conn \ {c} : f[d] = h2[d]
      BY <2>3, <1>t DEF HboneTypes
    <2>6. Connections(f)
      BY <2>1 DEF fresh
    <2>7. pool' \in [Hash -> SUBSET Conn] /\ \A g \in Hash : pool'[g] \subseteq pool[g] \cup {c}
      BY <2>1, <2>2, <1>t DEF HboneTypes, MaybeCheckin
    <2> HIDE DEF f
    <2> QED
      BY <2>1, <2>2, <2>3, <2>4, <2>5, <2>6, <2>7, ReturnKeeps
  <1>10. CASE UNCHANGED hboneVars
    BY Zenon, <1>10 DEF hboneVars, HboneInv, HboneTypes, Placed, Referenced, ConnMatchesKey, LockHeldByWorker, HashFor
  <1> QED
    BY <1>2, <1>3, <1>4, <1>5, <1>6, <1>7, <1>8, <1>9, <1>10 DEF HboneNext, Step

(* What a step may do to the streams of a connection and to its counter. *)
LEMMA CountKeeps ==
  ASSUME HboneTypes, HboneTypes', CountCoversStreams,
         \A c \in Conn : h2'[c] # None =>
           \/ /\ h2[c] # None /\ h2'[c].stream_count = h2[c].stream_count
              /\ Streams(c)' \subseteq Streams(c)
           \/ /\ h2[c] # None /\ h2'[c].stream_count = h2[c].stream_count + 1
              /\ \E t \in Task : Streams(c)' \subseteq Streams(c) \cup {t}
           \/ /\ h2[c] # None /\ h2'[c].stream_count = h2[c].stream_count - 1
              /\ \E t \in Streams(c) : Streams(c)' \subseteq Streams(c) \ {t}
           \/ h2'[c].stream_count = 0 /\ Streams(c)' = {}
  PROVE  CountCoversStreams'
  <1> SUFFICES ASSUME NEW c \in Conn, h2'[c] # None
               PROVE  h2'[c].stream_count >= Cardinality(Streams(c)')
    BY Zenon DEF CountCoversStreams, Streams
  <1> DEFINE S == Streams(c)
             T == Streams(c)'
             n == h2[c].stream_count
  <1>1. IsFiniteSet(S) /\ Cardinality(S) \in Nat /\ IsFiniteSet(T) /\ Cardinality(T) \in Nat
    BY Zenon, HboneAssumption, FS_Subset, FS_CardinalityType DEF Streams
  <1>2. h2[c] # None => n \in Int /\ n >= Cardinality(S)
    BY Zenon DEF CountCoversStreams, Streams, HboneTypes, H2State
  <1> HIDE DEF S, T, n
  <1>3. ASSUME T \subseteq S PROVE Cardinality(T) <= Cardinality(S)
    BY <1>1, <1>3, FS_Subset
  <1>4. ASSUME NEW t \in Task, T \subseteq S \cup {t} PROVE Cardinality(T) <= Cardinality(S) + 1
    <2>1. PICK U : U = S \cup {t}
      BY Zenon
    <2>2. CASE t \in S
      BY <1>3, <1>1, <1>4, <2>2
    <2>3. CASE t \notin S
      <3>1. IsFiniteSet(U) /\ Cardinality(U) = Cardinality(S) + 1
        BY Zenon, <1>1, <2>1, <2>3, FS_AddElement
      <3>2. Cardinality(T) <= Cardinality(U)
        BY Zenon, <1>4, <2>1, <3>1, FS_Subset
      <3> QED
        BY <3>1, <3>2
    <2> QED
      BY <2>2, <2>3
  <1>5. ASSUME NEW t \in S, T \subseteq S \ {t} PROVE Cardinality(T) <= Cardinality(S) - 1
    <2>1. IsFiniteSet(S \ {t}) /\ Cardinality(S \ {t}) = Cardinality(S) - 1
      BY <1>1, FS_RemoveElement
    <2>2. Cardinality(T) <= Cardinality(S \ {t})
      BY <1>5, <2>1, FS_Subset
    <2> QED
      BY <2>1, <2>2
  <1>6. T = {} => Cardinality(T) = 0
    BY FS_EmptySet
  <1>7. \/ h2[c] # None /\ h2'[c].stream_count = n /\ T \subseteq S
        \/ h2[c] # None /\ h2'[c].stream_count = n + 1 /\ \E t \in Task : T \subseteq S \cup {t}
        \/ h2[c] # None /\ h2'[c].stream_count = n - 1 /\ \E t \in S : T \subseteq S \ {t}
        \/ h2'[c].stream_count = 0 /\ T = {}
    BY DEF S, T, n
  <1> QED
    BY <1>1, <1>2, <1>3, <1>4, <1>5, <1>6, <1>7 DEF T

(* ... and the counter of every connection covers its streams. *)
LEMMA CountStep ==
  HboneInv /\ CountCoversStreams /\ [HboneNext]_hboneVars => CountCoversStreams'
  <1> SUFFICES ASSUME HboneInv, CountCoversStreams, [HboneNext]_hboneVars PROVE CountCoversStreams'
    OBVIOUS
  <1>t. HboneTypes /\ HboneTypes' /\ Placed /\ Placed'
    BY HboneInvStep DEF HboneInv
  <1>r. \A t \in Task : at[t] \in HbonePoints /\ (conn[t] = None \/ conn[t] \in Conn)
    BY <1>t DEF HboneTypes
  <1>1. ASSUME Connections(h2) \/ h2' = h2,
               \A c \in Conn : Streams(c)' \subseteq Streams(c)
        PROVE  CountCoversStreams'
    <2>1. \A c \in Conn : h2'[c] # None => h2[c] # None /\ h2'[c] = h2[c]
      BY <1>1, <1>t DEF Connections
    <2> QED
      BY <1>1, <1>t, <2>1, CountKeeps
  <1>2. ASSUME NEW t \in Task, Leave(t)
        PROVE  \A c \in Conn : Streams(c)' = Streams(c) \ {t}
    BY <1>2, <1>t, HboneAssumption DEF Leave, Streams, HboneTypes
  <1>3. ASSUME NEW t \in Task, UNCHANGED conn, NEW p \in HbonePoints, at' = [at EXCEPT ![t] = p],
               p \in {"response", "open"} => at[t] \in {"response", "open"}
        PROVE  \A c \in Conn : Streams(c)' \subseteq Streams(c)
    BY <1>3, <1>t DEF Streams, HboneTypes
  <1>4. ASSUME NEW t \in Task, NEW d \in Conn, ReturnConn(t, d)
        PROVE  \A c \in Conn : Streams(c)' \subseteq Streams(c)
    BY <1>4, <1>t DEF ReturnConn, Streams, HboneTypes
  <1>5. ASSUME NEW t \in Task,
               \/ \E k \in Key : HboneConnect(t, k)
               \/ Lookup(t) \/ Insert(t) \/ TryLock(t) \/ Woken(t) \/ Lock(t) \/ ResponseOk(t)
        PROVE  CountCoversStreams'
    <2>1. h2' = h2 /\ UNCHANGED conn
      BY Zenon, <1>5 DEF HboneConnect, Lookup, Insert, TryLock, Woken, Lock, ResponseOk
    <2>2. PICK p \in HbonePoints : /\ at' = [at EXCEPT ![t] = p]
                                   /\ p \in {"response", "open"} => at[t] \in {"response", "open"}
      BY <1>5 DEF HboneConnect, Lookup, Insert, TryLock, Woken, Lock, ResponseOk, TaskAt, HbonePoints
    <2> QED
      BY Zenon, <1>1, <1>3, <2>1, <2>2
  <1>6. ASSUME NEW t \in Task, SpawnErr(t) \/ DropSecondHalf(t) \/ CancelConnect(t)
        PROVE  CountCoversStreams'
    BY Zenon, <1>6, <1>1, <1>2 DEF SpawnErr, DropSecondHalf, CancelConnect
  <1>7. ASSUME NEW t \in Task, Get(t)
        PROVE  CountCoversStreams'
    <2>1. Connections(h2) /\ HashFor(t) \in Hash /\ pool[HashFor(t)] \subseteq Conn
      BY <1>7, <1>t, HashAssumption DEF Get, HboneTypes, Placed, HashFor
    <2>2. \/ at' = [at EXCEPT ![t] = "spawn"] /\ UNCHANGED conn
          \/ Leave(t)
          \/ UNCHANGED <<at, conn>>
          \/ \E c \in Conn : ReturnConn(t, c)
      BY Zenon, <1>7, <2>1 DEF Get, TaskAt
    <2>3. \A c \in Conn : Streams(c)' \subseteq Streams(c)
      BY <1>2, <1>3, <1>4, <2>2 DEF Streams, HbonePoints
    <2> QED
      BY Zenon, <1>1, <2>1, <2>3
  <1>8. ASSUME NEW t \in Task, SendRequest(t)
        PROVE  CountCoversStreams'
    <2>1. at[t] = "send" /\ h2' = Counted(t, 1) /\ conn' = conn /\ at' = [at EXCEPT ![t] = "response"]
      BY <1>8 DEF SendRequest, TaskAt
    <2>a. PICK d \in Conn : conn[t] = d
      BY <2>1, CountedValue
    <2>2. /\ \A c \in Conn \ {d} : h2'[c] = h2[c] /\ Streams(c)' = Streams(c)
          /\ Streams(d)' \subseteq Streams(d) \cup {t}
      BY <2>a, <2>1, <1>t, CountedValue DEF Streams, HboneTypes
    <2>3. h2[d] # None /\ h2'[d].stream_count = h2[d].stream_count + 1
      BY <2>a, <2>1, CountedValue
    <2> QED
      BY <1>t, <2>2, <2>3, CountKeeps
  <1>9. ASSUME NEW t \in Task, DropFirstHalf(t) \/ ResponseErr(t)
        PROVE  CountCoversStreams'
    <2>a. PICK d \in Conn : conn[t] = d
      BY SMTT(30), <1>9, CountedValue DEF DropFirstHalf, ResponseErr, TaskAt
    <2>1. at[t] \in {"response", "open"} /\ t \in Streams(d) /\ h2[d] # None
      BY <2>a, <1>9, <1>t, <1>r, CountedValue DEF DropFirstHalf, ResponseErr, TaskAt, Placed, Streams
    <2>2. h2' = Counted(t, -1) \/ Connections(Counted(t, -1))
      BY <1>9 DEF DropFirstHalf, ResponseErr
    <2>3. \A c \in Conn : h2'[c] # None => h2'[c] = Counted(t, -1)[c]
      BY <2>2 DEF Connections
    <2>4. \A c \in Conn : Streams(c)' \subseteq Streams(c) \ {t}
      BY <1>9, <1>2, <1>t DEF DropFirstHalf, ResponseErr, TaskAt, Streams, HboneTypes
    <2>5. /\ \A c \in Conn \ {d} : h2'[c] # None => h2'[c] = h2[c]
          /\ h2'[d] # None => h2'[d].stream_count = h2[d].stream_count - 1
      <3>1. Counted(t, -1)[d].stream_count = h2[d].stream_count + (-1)
        BY <2>a, <2>1, CountedValue
      <3>2. \A c \in Conn \ {d} : Counted(t, -1)[c] = h2[c]
        BY <2>a, <2>1, CountedValue
      <3>3. h2[d].stream_count \in Int
        BY Zenon, <2>1, <1>t DEF HboneTypes, H2State
      <3> QED
        BY Zenon, <2>3, <3>1, <3>2, <3>3
    <2> QED
      BY Zenon, <1>t, <2>1, <2>4, <2>5, CountKeeps
  <1>10. ASSUME NEW t \in Task, SpawnOk(t)
        PROVE  CountCoversStreams'
    <2>1. PICK d \in Conn, max \in StreamLimit :
             /\ h2[d] = None
             /\ ReturnConn(t, d)
             /\ Connections([h2 EXCEPT ![d] = [wl_key |-> key[t], ready |-> TRUE, limit |-> max,
                                               stream_count |-> 0]])
      BY Zenon, <1>10 DEF SpawnOk
    <2>2. /\ h2'[d] # None => h2'[d].stream_count = 0
          /\ \A c \in Conn \ {d} : h2'[c] # None => h2'[c] = h2[c]
      BY Zenon, <2>1, <1>t DEF Connections, HboneTypes
    <2>3. Streams(d) = {}
      BY <2>1, <1>t DEF Streams, Placed, Referenced
    <2>4. \A c \in Conn : Streams(c)' \subseteq Streams(c)
      BY Zenon, <1>4, <2>1
    <2> QED
      BY <1>t, <2>2, <2>3, <2>4, CountKeeps
  <1>11. ASSUME NEW c \in Conn, Break(c)
        PROVE  CountCoversStreams'
    <2>1. h2[c] \in H2State
      BY <1>11, <1>t DEF Break, HboneTypes
    <2>2. \A d \in Conn : h2'[d] # None => h2[d] # None /\ h2'[d].stream_count = h2[d].stream_count
      BY <2>1, <1>11, <1>t DEF Break, HboneTypes, H2State
    <2>3. \A d \in Conn : Streams(d)' = Streams(d)
      BY <1>11 DEF Break, Streams
    <2> QED
      BY <1>t, <2>2, <2>3, CountKeeps
  <1>12. ASSUME (\E h \in Hash, c \in Conn : Evict(h, c)) \/ UNCHANGED hboneVars
         PROVE  CountCoversStreams'
    <2>1. \A d \in Conn : Streams(d)' = Streams(d)
      BY <1>12 DEF Evict, hboneVars, Streams
    <2> QED
      BY <1>1, <1>12, <2>1 DEF Evict, hboneVars
  <1> QED
    BY <1>5, <1>6, <1>7, <1>8, <1>9, <1>10, <1>11, <1>12 DEF HboneNext, Step

(* A request is given only a connection of its own workload key, also when
   keys share a hash; the lock of a hash is held exactly by a request that gets
   or opens a connection under it; and the counter of a connection never falls
   below its streams with both halves, for any number of requests, keys, hashes
   and connections (connect, checkout, check-in, DropCounter). *)
THEOREM ConnectionsCorrect == HboneSpec => []ConnectionsSound
  <1>1. HboneInit => HboneInv /\ CountCoversStreams
    <2> SUFFICES ASSUME HboneInit PROVE HboneInv /\ CountCoversStreams
      OBVIOUS
    <2>1. HboneTypes /\ Placed
      BY HboneAssumption DEF HboneInit, HboneTypes, Placed, Referenced, HbonePoints
    <2>2. ConnMatchesKey /\ LockHeldByWorker /\ CountCoversStreams
      BY HboneAssumption DEF HboneInit, ConnMatchesKey, LockHeldByWorker, CountCoversStreams
    <2> QED
      BY <2>1, <2>2 DEF HboneInv
  <1>2. HboneInv /\ CountCoversStreams => ConnectionsSound
    BY DEF HboneInv, ConnectionsSound
  <1> QED
    BY <1>1, <1>2, HboneInvStep, CountStep, PTL DEF HboneSpec
=============================================================================
