---------------------------- MODULE GatewayBinds ----------------------------
(***************************************************************************)
(* The gateway's event loop (Gateway::run in proxy/gateway.rs) on top of   *)
(* the store: it starts a task per address for the binds it finds, then    *)
(* follows the store's events.  Tasks are spawned, fail to bind or listen, *)
(* and are aborted; the socket of an aborted task is closed only when the  *)
(* runtime gets around to dropping the task, which other steps may         *)
(* overtake.  `listening` goes by address, not by the key of the bind.     *)
(*                                                                         *)
(* This is the multi-threaded mode; the drain that ends the loop is the    *)
(* subject of Shutdown.                                                    *)
(***************************************************************************)
EXTENDS BindStore, FiniteSets

CONSTANTS
  BindTask,    \* identities of run_bind tasks, used again once a task is gone
  AddressOf    \* the address of a bind of the local file: its key is made from the port

ASSUME AddressAssumption ==
  /\ AddressOf \in [BindName -> Address]
  /\ \A b, c \in BindName : AddressOf[b] = AddressOf[c] => b = c

ASSUME TaskAssumption == None \notin BindTask

VARIABLES
  started,   \* the gateway has taken its snapshot and its subscription
  initial,   \* binds of the snapshot that are still to be handled
  listening, \* the task of each address, or None
  state,     \* of each task: "gone", "spawned", "listening", or "aborted" and not yet dropped
  address    \* of each task

gwVars == <<started, initial, listening, state, address>>

allVars == <<vars, gwVars>>

GwInit ==
  /\ Init
  /\ started = FALSE
  /\ initial = {}
  /\ listening = [a \in Address |-> None]
  /\ state = [k \in BindTask |-> "gone"]
  /\ address \in [BindTask -> Address]

-----------------------------------------------------------------------------
(* The snapshot and the subscription, under one read lock. *)
StartGateway ==
  /\ ~started
  /\ started' = TRUE
  /\ initial' = {[key |-> b, address |-> by_name[b].address] :
                   b \in {c \in BindName : by_name[c] # None}}
  /\ tx' = <<>>
  /\ missed' = FALSE
  /\ UNCHANGED <<by_name, staged_listeners, staged_routes, policies_by_name,
                 policies_by_target, backends_by_name, listening, state, address>>

(* Mutant of HandleAdd: an address that is active is started again. *)
HandleAddAgain(a) ==
  \E k \in BindTask :
    /\ state[k] = "gone"
    /\ \A o \in Address : listening[o] # k
    /\ listening' = [listening EXCEPT ![a] = k]
    /\ state' = [state EXCEPT ![k] = "spawned"]
    /\ address' = [address EXCEPT ![k] = a]

(* handle_bind for Event::Add. *)
HandleAdd(a) ==
  \/ listening[a] # None /\ UNCHANGED <<listening, state, address>>
  \/ /\ listening[a] = None
     /\ \E k \in BindTask :
          /\ state[k] = "gone"
          /\ \A o \in Address : listening[o] # k
          /\ listening' = [listening EXCEPT ![a] = k]
          /\ state' = [state EXCEPT ![k] = "spawned"]
          /\ address' = [address EXCEPT ![k] = a]

(* AbortHandle::abort: only a task that listens has something left to drop. *)
Aborted(s) == IF s = "listening" THEN "aborted" ELSE "gone"

(* Mutants of HandleRemove: the entry stays; the event is ignored. *)
HandleRemoveKeepsEntry(a) ==
  /\ state' = [k \in BindTask |-> IF listening[a] = k THEN Aborted(state[k]) ELSE state[k]]
  /\ UNCHANGED <<listening, address>>
HandleRemoveIgnored(a) == UNCHANGED <<listening, state, address>>

(* handle_bind for Event::Remove. *)
HandleRemove(a) ==
  /\ listening' = [listening EXCEPT ![a] = None]
  /\ state' = [k \in BindTask |-> IF listening[a] = k THEN Aborted(state[k]) ELSE state[k]]
  /\ UNCHANGED address

HandleInitial ==
  /\ \E b \in initial : initial' = initial \ {b} /\ HandleAdd(b.address)
  /\ UNCHANGED <<vars, started>>

(* The next event; a receiver that lagged gets an error first and goes on. *)
HandleEvent ==
  /\ started /\ initial = {}
  /\ Recv
  /\ IF Head(tx).type = "Add" THEN HandleAdd(Head(tx).address) ELSE HandleRemove(Head(tx).address)
  /\ UNCHANGED <<started, initial>>

-----------------------------------------------------------------------------
(* A socket is open on the address, also that of an aborted task. *)
InUse(a) == \E k \in BindTask : state[k] \in {"listening", "aborted"} /\ address[k] = a

(* run_bind binds its address ... *)
BindOk(k) ==
  /\ state[k] = "spawned"
  /\ ~InUse(address[k])
  /\ state' = [state EXCEPT ![k] = "listening"]
  /\ UNCHANGED <<vars, started, initial, listening, address>>

(* ... or fails, as the address is in use; the loop only logs the result. *)
BindErr(k) ==
  /\ state[k] = "spawned"
  /\ InUse(address[k])
  /\ state' = [state EXCEPT ![k] = "gone"]
  /\ UNCHANGED <<vars, started, initial, listening, address>>

(* The runtime drops an aborted task, and its socket. *)
DropAborted(k) ==
  /\ state[k] = "aborted"
  /\ state' = [state EXCEPT ![k] = "gone"]
  /\ UNCHANGED <<vars, started, initial, listening, address>>

GatewayStep ==
  \/ StartGateway \/ HandleInitial \/ HandleEvent
  \/ \E k \in BindTask : BindOk(k) \/ BindErr(k) \/ DropAborted(k)

-----------------------------------------------------------------------------
(* The calls of sync_local; a bind of the local file has its own address.  The
   channel (1000 events) is assumed not to overflow. *)
LocalStoreCall ==
  /\ Len(tx) < TxCapacity
  /\ LocalCall
  /\ \A b \in BindName : by_name'[b] # None => by_name'[b].address = AddressOf[b]
  /\ UNCHANGED gwVars

XdsBindCall == XdsCall /\ UNCHANGED gwVars

LocalNext == LocalStoreCall \/ GatewayStep

XdsNext == XdsBindCall \/ GatewayStep

GwFairness ==
  /\ WF_allVars(StartGateway) /\ WF_allVars(HandleInitial) /\ WF_allVars(HandleEvent)
  /\ \A k \in BindTask : WF_allVars(BindOk(k) \/ BindErr(k)) /\ WF_allVars(DropAborted(k))

LocalSpec == GwInit /\ [][LocalNext]_allVars /\ GwFairness

GwXdsSpec == GwInit /\ [][XdsNext]_allVars /\ GwFairness

-----------------------------------------------------------------------------
(* Properties *)

Caughtup == started /\ initial = {} /\ tx = <<>> /\ ~missed

(* When the gateway has handled all events, exactly the addresses of the
   store's binds are active: the snapshot and the events neither overlap nor
   leave a gap.  It holds for the local file, where a key has one address. *)
ActiveFollowsStore ==
  Caughtup => \A a \in Address :
    listening[a] # None <=> \E b \in BindName : by_name[b] # None /\ by_name[b].address = a

(* No listener outlives its entry: a task that has not been aborted is the one
   `listening` has for its address, so a Remove event still reaches it. *)
NoOrphanListener ==
  \A k \in BindTask : state[k] \in {"spawned", "listening"} => listening[address[k]] = k

(* Both at once. *)
ListenersFollowStore == ActiveFollowsStore /\ NoOrphanListener

(* A bind that is removed for good stops listening. *)
RemovedStops ==
  \A b \in BindName :
    <>[](by_name[b] = None) =>
      <>[](\A k \in BindTask : state[k] = "listening" => address[k] # AddressOf[b])

(* README.md: "agentgateway supports dynamic configuration updates via xDS,
   without any downtime".  Once the updates have been handled and the tasks
   have settled, every bind of the store is listened to. *)
BindsServed ==
  Caughtup /\ (\A k \in BindTask : state[k] \in {"gone", "listening"}) =>
    \A b \in BindName : by_name[b] # None =>
      \E k \in BindTask : state[k] = "listening" /\ address[k] = by_name[b].address
=============================================================================
