------------------------------ MODULE HbonePool ------------------------------
(***************************************************************************)
(* The pool of HBONE connections (crates/hbone: pool.rs, client.rs and the *)
(* stream counter of lib.rs).  A request asks for a connection to a        *)
(* workload key; connections are shared by as many requests as the peer    *)
(* allows streams, and a mutex per key keeps requests for the same key     *)
(* from all opening a connection at once.                                  *)
(*                                                                         *)
(* The steps of a request lie between its awaits and atomic operations.    *)
(* Locks and pooled connections are found by the hash of the key, so two   *)
(* keys may share them.  The watch channel that announces a new connection *)
(* is shared by all keys; every request starts from the receiver the pool  *)
(* was created with, so a channel that was ever written counts as changed. *)
(***************************************************************************)
EXTENDS Integers, FiniteSets, Nil

CONSTANTS
  Task,         \* concurrent calls of send_request_pooled
  Key, Hash,
  HashOf,       \* the hash of each key
  Conn,         \* identities of connections, used again when unreferenced
  StreamLimit   \* values of max_allowed_streams

ASSUME HashAssumption == HashOf \in [Key -> Hash]

ASSUME LimitAssumption == StreamLimit \subseteq Nat \ {0}

H2State == [wl_key : Key, ready : BOOLEAN, limit : StreamLimit, stream_count : Int]

ASSUME HboneAssumption ==
  /\ IsFiniteSet(Task) /\ Task \cap {"absent", "free"} = {}
  /\ None \notin Conn /\ None \notin H2State

VARIABLES
  writelock,   \* established_conn_writelock: "absent", "free" or the task that holds it
  pool,        \* connected_pool: the idle references of each hash
  enpooled,    \* pool_notifier has been sent to
  changed,     \* the task's pool_watcher has an unseen change (kept while it may wait for one)
  at, key, conn,
  h2           \* the state of each connection that something refers to, else None

hboneVars == <<writelock, pool, enpooled, changed, at, key, conn, h2>>

(* The points of a request: idle, lookup, insert, trylock, wait, relookup, lock,
   get, spawn in connect; send, response, open, halfopen with its stream. *)

HboneInit ==
  /\ writelock = [h \in Hash |-> "absent"]
  /\ pool = [h \in Hash |-> {}]
  /\ enpooled = FALSE
  /\ changed = [t \in Task |-> FALSE]
  /\ at = [t \in Task |-> "idle"]
  /\ key = [t \in Task |-> None]
  /\ conn = [t \in Task |-> None]
  /\ h2 = [c \in Conn |-> None]

-----------------------------------------------------------------------------
HashFor(t) == HashOf[key[t]]

TaskAt(t, from, to) == at[t] = from /\ at' = [at EXCEPT ![t] = to]

(* The mutex guard of the task, if it has one, is dropped. *)
Unlocked(t) == [h \in Hash |-> IF writelock[h] = t THEN "free" ELSE writelock[h]]

(* The call ends, with an error or because the request is gone. *)
Leave(t) ==
  /\ at' = [at EXCEPT ![t] = "idle"]
  /\ conn' = [conn EXCEPT ![t] = None]
  /\ key' = [key EXCEPT ![t] = None]
  /\ writelock' = Unlocked(t)

Referenced(c) == (\E t \in Task : conn[t] = c) \/ (\E h \in Hash : c \in pool[h])

(* The connections after a step: those nothing refers to any more are closed. *)
Connections(f) == h2' = [c \in Conn |-> IF Referenced(c)' THEN f[c] ELSE None]

HboneConnect(t, k) ==
  /\ TaskAt(t, "idle", "lookup")
  /\ key' = [key EXCEPT ![t] = k]
  /\ changed' = [changed EXCEPT ![t] = enpooled]
  /\ UNCHANGED <<writelock, pool, enpooled, conn, h2>>

(* checkout_conn_under_writelock: is there a mutex for the key? *)
Lookup(t) ==
  /\ \/ TaskAt(t, "lookup", IF writelock[HashFor(t)] = "absent" THEN "insert" ELSE "lock")
     \/ TaskAt(t, "relookup", IF writelock[HashFor(t)] = "absent" THEN "wait" ELSE "lock")
  /\ UNCHANGED <<writelock, pool, enpooled, changed, key, conn, h2>>

(* try_insert of a mutex. *)
Insert(t) ==
  /\ TaskAt(t, "insert", "trylock")
  /\ writelock' = [writelock EXCEPT ![HashFor(t)] = IF @ = "absent" THEN "free" ELSE @]
  /\ UNCHANGED <<pool, enpooled, changed, key, conn, h2>>

(* start_conn_if_win_writelock: whoever gets the mutex opens a connection,
   the others wait for the announcement. *)
TryLock(t) ==
  /\ at[t] = "trylock"
  /\ IF writelock[HashFor(t)] = "free"
     THEN /\ at' = [at EXCEPT ![t] = "spawn"]
          /\ writelock' = [writelock EXCEPT ![HashFor(t)] = t]
     ELSE at' = [at EXCEPT ![t] = "wait"] /\ UNCHANGED writelock
  /\ UNCHANGED <<pool, enpooled, changed, key, conn, h2>>

(* pool_watcher.changed() returns. *)
Woken(t) ==
  /\ changed[t]
  /\ TaskAt(t, "wait", "relookup")
  /\ changed' = [changed EXCEPT ![t] = FALSE]
  /\ UNCHANGED <<writelock, pool, enpooled, key, conn, h2>>

(* The mutex of the key is acquired by waiting for it. *)
Lock(t) ==
  /\ TaskAt(t, "lock", "get")
  /\ writelock[HashFor(t)] = "free"
  /\ writelock' = [writelock EXCEPT ![HashFor(t)] = t]
  /\ UNCHANGED <<pool, enpooled, changed, key, conn, h2>>

(* maybe_checkin_conn of connection c, which has `count` streams and is not in
   `idle`; a connection that one more request fills up is not checked in. *)
MaybeCheckin(t, c, count, max, idle) ==
  IF count + 1 >= max
  THEN pool' = idle /\ UNCHANGED <<enpooled, changed>>
  ELSE /\ pool' = [idle EXCEPT ![HashFor(t)] = @ \cup {c}]
       /\ enpooled' = TRUE
       /\ changed' = [u \in Task |-> at[u] \in {"lookup", "insert", "trylock", "wait", "relookup"}]

(* connect returns a clone of c and the mutex guard is dropped. *)
ReturnConn(t, c) ==
  /\ at' = [at EXCEPT ![t] = "send"]
  /\ conn' = [conn EXCEPT ![t] = c]
  /\ UNCHANGED key
  /\ writelock' = Unlocked(t)

(* Mutant of Get: the key of the connection is not compared. *)
GetUnguarded(t) ==
  /\ at[t] = "get"
  /\ \/ /\ pool[HashFor(t)] = {}
        /\ TaskAt(t, "get", "spawn")
        /\ UNCHANGED <<writelock, pool, enpooled, changed, key, conn>>
     \/ \E c \in pool[HashFor(t)] :
          LET idle == [pool EXCEPT ![HashFor(t)] = @ \ {c}]
          IN IF h2[c].ready THEN ReturnConn(t, c) /\ MaybeCheckin(t, c, h2[c].stream_count, h2[c].limit, idle)
             ELSE pool' = idle /\ UNCHANGED <<writelock, at, key, conn, enpooled, changed>>
  /\ Connections(h2)

(* One turn of the loop under the mutex: take a connection out of the pool;
   give up if it belongs to another key, drop it and go on if it is broken,
   use it otherwise; with none left, open one. *)
Get(t) ==
  /\ at[t] = "get"
  /\ \/ /\ pool[HashFor(t)] = {}
        /\ TaskAt(t, "get", "spawn")
        /\ UNCHANGED <<writelock, pool, enpooled, changed, key, conn>>
     \/ \E c \in pool[HashFor(t)] :
          LET idle == [pool EXCEPT ![HashFor(t)] = @ \ {c}]
          IN \/ /\ h2[c].wl_key # key[t]
                /\ Leave(t)
                /\ pool' = idle
                /\ UNCHANGED <<enpooled, changed>>
             \/ /\ h2[c].wl_key = key[t] /\ ~h2[c].ready
                /\ pool' = idle
                /\ UNCHANGED <<writelock, at, key, conn, enpooled, changed>>
             \/ /\ h2[c].wl_key = key[t] /\ h2[c].ready
                /\ ReturnConn(t, c)
                /\ MaybeCheckin(t, c, h2[c].stream_count, h2[c].limit, idle)
  /\ Connections(h2)

(* new_pool_conn succeeds: the connection is checked in and returned. *)
SpawnOk(t) ==
  /\ at[t] = "spawn"
  /\ \E c \in Conn, max \in StreamLimit :
       /\ h2[c] = None
       /\ ReturnConn(t, c)
       /\ MaybeCheckin(t, c, 0, max, pool)
       /\ Connections([h2 EXCEPT ![c] = [wl_key |-> key[t], ready |-> TRUE, limit |-> max,
                                         stream_count |-> 0]])

(* Mutant of SpawnErr: the mutex stays locked. *)
SpawnErrLocked(t) ==
  /\ TaskAt(t, "spawn", "idle")
  /\ UNCHANGED <<writelock, conn, pool, enpooled, changed, key, h2>>

(* Fetching the certificate, connecting or a handshake fails. *)
SpawnErr(t) ==
  /\ at[t] = "spawn"
  /\ Leave(t)
  /\ UNCHANGED <<pool, enpooled, changed>>
  /\ Connections(h2)

-----------------------------------------------------------------------------
(* H2ConnectClient::send_request and the life of the stream. *)

(* The counter of the task's connection changed by n. *)
Counted(t, n) == [h2 EXCEPT ![conn[t]].stream_count = @ + n]

SendRequest(t) ==
  /\ TaskAt(t, "send", "response")
  /\ h2' = Counted(t, 1)
  /\ UNCHANGED <<writelock, pool, enpooled, changed, key, conn>>

ResponseOk(t) ==
  /\ TaskAt(t, "response", "open")
  /\ UNCHANGED <<writelock, pool, enpooled, changed, key, conn, h2>>

ResponseErr(t) ==
  /\ at[t] = "response"
  /\ Leave(t)
  /\ UNCHANGED <<pool, enpooled, changed>>
  /\ Connections(Counted(t, -1))

(* DropCounter::drop of the half that goes first: Arc::into_inner yields
   nothing, as the other half still holds the Arc, and the count goes down. *)
DropFirstHalf(t) ==
  /\ TaskAt(t, "open", "halfopen")
  /\ h2' = Counted(t, -1)
  /\ UNCHANGED <<writelock, pool, enpooled, changed, key, conn>>

(* Mutant of DropSecondHalf: both halves count. *)
DropSecondHalfCounted(t) ==
  /\ at[t] = "halfopen"
  /\ Leave(t)
  /\ UNCHANGED <<pool, enpooled, changed>>
  /\ Connections(Counted(t, -1))

(* The other half: the Arc is its own now, and the count is left alone. *)
DropSecondHalf(t) ==
  /\ at[t] = "halfopen"
  /\ Leave(t)
  /\ UNCHANGED <<pool, enpooled, changed>>
  /\ Connections(h2)

-----------------------------------------------------------------------------
(* The request is dropped at one of its awaits.  The mutex guard goes with
   it; a stream that was counted and has no response yet stays counted. *)
CancelConnect(t) ==
  /\ at[t] \in {"wait", "lock", "spawn", "response"}
  /\ Leave(t)
  /\ UNCHANGED <<pool, enpooled, changed>>
  /\ Connections(h2)

(* idle_timeout, or the limit of the pool, evicts a reference. *)
Evict(h, c) ==
  /\ c \in pool[h]
  /\ pool' = [pool EXCEPT ![h] = @ \ {c}]
  /\ UNCHANGED <<writelock, enpooled, changed, at, key, conn>>
  /\ Connections(h2)

(* The peer goes away or stops answering pings. *)
Break(c) ==
  /\ h2[c] # None /\ h2[c].ready
  /\ h2' = [h2 EXCEPT ![c].ready = FALSE]
  /\ UNCHANGED <<writelock, pool, enpooled, changed, at, key, conn>>

(* What a task does on its own until it has a connection or an error. *)
Step(t) ==
  \/ Lookup(t) \/ Insert(t) \/ TryLock(t) \/ Woken(t) \/ Get(t)
  \/ SpawnOk(t) \/ SpawnErr(t)

HboneNext ==
  \/ \E t \in Task, k \in Key : HboneConnect(t, k)
  \/ \E t \in Task :
       \/ Step(t) \/ Lock(t) \/ CancelConnect(t)
       \/ SendRequest(t) \/ ResponseOk(t) \/ ResponseErr(t)
       \/ DropFirstHalf(t) \/ DropSecondHalf(t)
  \/ \E h \in Hash, c \in Conn : Evict(h, c)
  \/ \E c \in Conn : Break(c)

(* Tasks are polled and a connection attempt ends.  The tokio mutex serves
   its waiters first come, first served: a task that keeps waiting gets it. *)
HboneFairness == \A t \in Task : WF_hboneVars(Step(t)) /\ SF_hboneVars(Lock(t))

HboneSpec == HboneInit /\ [][HboneNext]_hboneVars /\ HboneFairness

-----------------------------------------------------------------------------
(* Properties *)

(* Nobody gets a connection of another workload: pool and locks go by a hash,
   and enforce_key_integrity is what keeps keys of one hash apart. *)
ConnMatchesKey == \A t \in Task : conn[t] # None => h2[conn[t]].wl_key = key[t]

(* The mutex of a key is held exactly by the task that looks for or opens a
   connection under it, however the task fails or is dropped: a guard that
   outlived its task would block the key for good. *)
LockHeldByWorker ==
  \A t \in Task, h \in Hash :
    writelock[h] = t <=> (at[t] \in {"get", "spawn"} /\ h = HashFor(t))

(* The counter of a connection never falls below the streams on it that still
   have both halves, so it never wraps and never lets in more than it shows. *)
CountCoversStreams ==
  \A c \in Conn : h2[c] # None =>
    h2[c].stream_count >= Cardinality({t \in Task : conn[t] = c /\ at[t] \in {"response", "open"}})

(* A caller gets a connection of its own workload, no key stays locked, and no
   connection carries more streams than it counts. *)
ConnectionsSound == ConnMatchesKey /\ LockHeldByWorker /\ CountCoversStreams

(* Once the pool has announced any connection, every call of connect returns,
   even if all attempts to connect fail. *)
ConnectReturns ==
  \A t \in Task : at[t] = "lookup" /\ enpooled ~> at[t] \in {"idle", "send"}
=============================================================================
