----------------------------- MODULE XdsClient -----------------------------
(***************************************************************************)
(* The client of the control plane (AdsClient in crates/xds/src/client.rs) *)
(* with the two stores its handlers write to, and a control plane that     *)
(* follows the delta protocol.                                             *)
(*                                                                         *)
(* On every stream the client lists the resources it knows of, then        *)
(* applies each response and acknowledges or rejects it.  A stream can end *)
(* at any moment; what is on the wire is lost and the next stream starts   *)
(* from known_resources.  The gateway is released (block_ready is dropped) *)
(* when every watched type has been acknowledged once.                     *)
(*                                                                         *)
(* Resources are values; those in Invalid are refused by decode_proto or   *)
(* by the handler.  Responses of a type that nobody watches change         *)
(* nothing, and subscriptions on demand are switched off (on_demand is     *)
(* FALSE in Config::new): neither is modelled.                             *)
(***************************************************************************)
EXTENDS Integers, Sequences, Nil

CONSTANTS
  Type,            \* watched types, one handler each
  ResourceName, Value,
  Invalid,         \* the values that a handler refuses
  InitialBackoff, MaxBackoff,
  WireCapacity,    \* bound on the responses under way
  Stale            \* a resource whose version the server does not know

ASSUME ValueAssumption ==
  /\ Invalid \subseteq Value
  /\ None \notin Value /\ Stale \notin Value /\ None # Stale

ASSUME BackoffAssumption ==
  /\ InitialBackoff \in Nat \ {0} /\ MaxBackoff \in Nat /\ InitialBackoff <= MaxBackoff
  /\ WireCapacity \in Nat \ {0}

VARIABLES
  store,             \* the resources the handlers hold
  known_resources, types_to_expect,
  ready,             \* block_ready has been dropped
  stream,            \* "connecting", "up" or "sleeping"
  backoff,
  world,             \* the server: the resources there are,
  told,              \*   what it has said, or was told, of each on this stream,
  answered,          \*   and the types it has answered on this stream
  wire,              \* responses under way to the client
  loaded             \* history: the types of which a response was accepted

client == <<store, known_resources, types_to_expect, ready, loaded>>
server == <<world, told, answered, wire>>
adsVars == <<client, stream, backoff, server>>

Resource == Value \cup {None}

(* A response: names whose value is None are in removed_resources, the others
   in resources. *)
Response == [type : Type, names : SUBSET ResourceName, value : [ResourceName -> Resource]]

(* The client's state stays in its domain; the delay between attempts stays
   between the two bounds. *)
AdsTypeOK ==
  /\ store \in [Type -> [ResourceName -> (Value \ Invalid) \cup {None}]]
  /\ known_resources \in [Type -> SUBSET ResourceName]
  /\ types_to_expect \subseteq Type
  /\ ready \in BOOLEAN
  /\ stream \in {"connecting", "up", "sleeping"}
  /\ backoff \in InitialBackoff..MaxBackoff
  /\ world \in [Type -> [ResourceName -> Resource]]
  /\ told \in [Type -> [ResourceName -> Resource \cup {Stale}]]
  /\ answered \subseteq Type
  /\ wire \in Seq(Response)
  /\ loaded \subseteq Type

Nothing == [t \in Type |-> [n \in ResourceName |-> None]]

AdsInit ==
  /\ store = Nothing
  /\ known_resources = [t \in Type |-> {}]
  /\ types_to_expect = Type
  /\ ready = FALSE
  /\ stream = "connecting"
  /\ backoff = InitialBackoff
  /\ world = Nothing
  /\ told = Nothing
  /\ answered = {}
  /\ wire = <<>>
  /\ loaded = {}

-----------------------------------------------------------------------------
(* The server. *)

Publish(t, n) ==
  /\ \E r \in Resource : r # world[t][n] /\ world' = [world EXCEPT ![t][n] = r]
  /\ UNCHANGED <<client, stream, backoff, told, answered, wire>>

Pending(t) == {n \in ResourceName : told[t][n] # world[t][n]}

(* The first response to a type has everything, later ones some of the changes. *)
Respond(t, names) ==
  /\ stream = "up"
  /\ Len(wire) < WireCapacity
  /\ IF t \in answered THEN names # {} /\ names \subseteq Pending(t) ELSE names = Pending(t)
  /\ wire' = Append(wire, [type |-> t, names |-> names, value |-> world[t]])
  /\ told' = [told EXCEPT ![t] = [n \in ResourceName |-> IF n \in names THEN world[t][n] ELSE @[n]]]
  /\ answered' = answered \cup {t}
  /\ UNCHANGED <<client, stream, backoff, world>>

-----------------------------------------------------------------------------
(* The client. *)

(* A stream ends: what is under way is lost and the server forgets the client. *)
Disconnected == told' = Nothing /\ answered' = {} /\ wire' = <<>> /\ UNCHANGED world

(* Mutant of OpenStream: the names of the previous stream are not sent again. *)
ConnectForgetful ==
  /\ stream = "connecting"
  /\ stream' = "up"
  /\ UNCHANGED <<client, backoff, server>>

(* The stream is established; the initial requests list the known resources,
   without versions. *)
OpenStream ==
  /\ stream = "connecting"
  /\ stream' = "up"
  /\ told' = [t \in Type |-> [n \in ResourceName |-> IF n \in known_resources[t] THEN Stale ELSE None]]
  /\ UNCHANGED <<client, backoff, world, answered, wire>>

Doubled(b) == IF b * 2 < MaxBackoff THEN b * 2 ELSE MaxBackoff

(* Error::Connection and Error::Transport. *)
ConnectErr ==
  /\ stream = "connecting"
  /\ stream' = "sleeping"
  /\ backoff' = Doubled(backoff)
  /\ UNCHANGED <<client, server>>

(* Error::GrpcStatus: a status that means a reconnect starts the delays over. *)
StreamErr ==
  /\ stream = "up"
  /\ stream' = "sleeping"
  /\ backoff' \in {InitialBackoff, Doubled(backoff)}
  /\ Disconnected
  /\ UNCHANGED client

(* The end of the stream, and any other error: reconnect at once. *)
StreamEnd ==
  /\ stream = "up"
  /\ stream' = "connecting"
  /\ backoff' = InitialBackoff
  /\ Disconnected
  /\ UNCHANGED client

Wakeup ==
  /\ stream = "sleeping"
  /\ stream' = "connecting"
  /\ UNCHANGED <<client, backoff, server>>

-----------------------------------------------------------------------------
(* HandlerWrapper::handle: every resource that can be applied is, then the
   removals; the names are known from then on, refused ones included. *)
Applied(m, held) ==
  [n \in ResourceName |-> IF n \in m.names /\ m.value[n] \notin Invalid THEN m.value[n] ELSE held[n]]

(* Mutant of Known: only what was applied is known. *)
KnownIfApplied(m, known) ==
  (known \ m.names) \cup {n \in m.names : m.value[n] \notin Invalid \cup {None}}

Known(m, known) == (known \ m.names) \cup {n \in m.names : m.value[n] # None}

Accepted(m) == \A n \in m.names : m.value[n] \notin Invalid

Handle ==
  /\ stream = "up" /\ wire # <<>>
  /\ LET m == Head(wire)
     IN /\ store' = [store EXCEPT ![m.type] = Applied(m, @)]
        /\ known_resources' = [known_resources EXCEPT ![m.type] = Known(m, @)]
        /\ loaded' = IF Accepted(m) THEN loaded \cup {m.type} ELSE loaded

(* Mutants of Release: any type is enough; the last type is not noticed. *)
ReleaseOnAny(m) ==
  /\ types_to_expect' = IF Accepted(m) THEN types_to_expect \ {m.type} ELSE types_to_expect
  /\ ready' = (ready \/ types_to_expect' # types_to_expect)
ReleaseNever(m) ==
  /\ types_to_expect' = IF Accepted(m) THEN types_to_expect \ {m.type} ELSE types_to_expect
  /\ ready' = (ready \/ types_to_expect = {})

(* What an acknowledged response means for block_ready. *)
Release(m) ==
  /\ types_to_expect' = IF Accepted(m) THEN types_to_expect \ {m.type} ELSE types_to_expect
  /\ ready' = (ready \/ types_to_expect' = {})

HandleStreamEvent ==
  /\ Handle
  /\ Release(Head(wire))
  /\ wire' = Tail(wire)
  /\ UNCHANGED <<stream, backoff, world, told, answered>>

(* The acknowledgement cannot be sent: the stream ends with the response applied. *)
HandleSendErr ==
  /\ Handle
  /\ stream' = "connecting"
  /\ backoff' = InitialBackoff
  /\ Disconnected
  /\ UNCHANGED <<types_to_expect, ready>>

-----------------------------------------------------------------------------
AdsNext ==
  \/ \E t \in Type, n \in ResourceName : Publish(t, n)
  \/ \E t \in Type, names \in SUBSET ResourceName : Respond(t, names)
  \/ OpenStream \/ ConnectErr \/ StreamErr \/ StreamEnd \/ Wakeup
  \/ HandleStreamEvent \/ HandleSendErr

(* The client handles what arrives; the server answers every subscription and
   reports every change in the end. *)
AdsFairness ==
  /\ WF_adsVars(HandleStreamEvent)
  /\ \A t \in Type : SF_adsVars(\E names \in SUBSET ResourceName : t \notin answered /\ Respond(t, names))
  /\ \A t \in Type, n \in ResourceName : SF_adsVars(\E names \in SUBSET ResourceName : n \in names /\ Respond(t, names))

AdsSpec == AdsInit /\ [][AdsNext]_adsVars

AdsFairSpec == AdsSpec /\ AdsFairness

-----------------------------------------------------------------------------
(* Properties *)

(* Whatever the stores hold is listed on the next stream, so that the server
   can take it back: known_resources is never behind the stores, although the
   two are written at different times and refused responses write only one. *)
KnownCoversStore ==
  \A t \in Type, n \in ResourceName : store[t][n] # None => n \in known_resources[t]

OnWire(t, n) == \E i \in 1..Len(wire) : wire[i].type = t /\ n \in wire[i].names

(* When no response about a resource is under way, the store has what the
   server believes it has: also after streams that broke with responses lost,
   applied but not acknowledged, or partly refused.  In particular nothing
   that was deleted while the client was disconnected survives. *)
StoreMatchesServer ==
  stream = "up" =>
    \A t \in Type, n \in ResourceName :
      ~OnWire(t, n) /\ told[t][n] \notin Invalid \cup {Stale} => store[t][n] = told[t][n]

(* The gateway is not released before a response of every watched type has
   been accepted, on whichever streams. *)
ReadyWhenLoaded == ready => loaded = Type

(* If the stream stays up and a resource no longer changes, the store gets it. *)
Converges ==
  \A t \in Type, n \in ResourceName, r \in Resource \ Invalid :
    <>[](stream = "up" /\ world[t][n] = r) => <>[](store[t][n] = r)

(* If the stream stays up and the server no longer has resources that are
   refused, the gateway is released. *)
BecomesReady ==
  <>[](stream = "up" /\ \A t \in Type, n \in ResourceName : world[t][n] \notin Invalid) => <>ready

(* What the client never does wrong, with its types. *)
ClientSound == AdsTypeOK /\ KnownCoversStore /\ StoreMatchesServer /\ ReadyWhenLoaded

(* What it gets done in the end. *)
ClientProgress == Converges /\ BecomesReady
=============================================================================
