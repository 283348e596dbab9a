---------------------------- MODULE LocalConfig ----------------------------
(***************************************************************************)
(* The local configuration file: state_manager.rs (LocalClient, which      *)
(* watches the file, reads it again on a change and synchronises the two   *)
(* stores) and types/local.rs (the conversion of the file's content into   *)
(* binds, backends and policies with the names they refer to each other    *)
(* by).                                                                    *)
(*                                                                         *)
(* A content is [text, binds, remote, services]: whether it parses, its    *)
(* binds <<port, protocol, routes>>, whether its conversion fetches a key  *)
(* set over the network, and its services and workloads.  A route is       *)
(* [backends, bpol, rpol, mirror]; a backend is [kind, host, targets].     *)
(***************************************************************************)
EXTENDS Integers, Sequences, FiniteSets, TLC, SequencesExt

CONSTANTS LContents,   \* names of what the file may hold
          LFile,       \* the content of each name
          MaxVersions  \* bound: versions of the file

VARIABLES lhist,     \* versions of the file
          levents,   \* kinds of change the debouncer holds
          lchan,     \* the channel of capacity 1: batches of kinds
          ltask,     \* [at, got]: the reloading task and the version it read
          lprev,     \* PreviousState: names of the last load
          lstore,    \* [binds, backends, policies, disc] in the stores
          lapplied   \* [binds, disc]: versions the stores were synchronised with

localVars == <<lhist, levents, lchan, ltask, lprev, lstore, lapplied>>

Empty == [n \in {} |-> 0]

-----------------------------------------------------------------------------
(* types/local.rs: names and references                                     *)

RouteKey(port, r) == <<"route", port, r, 0>>
DynamicName == <<"dynamic", 0, 0, 0>>
InvalidName == <<"invalid", 0, 0, 0>>
ServiceName(h) == <<"service", h, 0, 0>>
MirrorName(key) == <<"mirror", key[2], key[3], 0>>

(* The name of the backend of an MCP target: its own, except for OpenAPI.  *)
TargetNameShared(name, kind, i) == name
TargetName(name, kind, i) ==
    IF kind = "openapi" THEN name ELSE <<"mcp", name[2], name[3], i>>

NoHost == 0
SBackend(k, h) == [kind |-> k, host |-> h, targets |-> <<>>]

(* to_simple_backend_and_ref: the reference, and the backend to store.     *)
SimpleRef(name, b) ==
    CASE b.kind = "service" -> ServiceName(b.host)
      [] b.kind = "invalid" -> InvalidName
      [] OTHER -> name
SimpleBackends(name, b) ==
    CASE b.kind = "service" -> <<>>
      [] b.kind = "invalid" -> <<[name |-> InvalidName, value |-> SBackend("invalid", NoHost)]>>
      [] OTHER -> <<[name |-> name, value |-> SBackend("opaque", b.host)]>>

(* LocalBackend::as_backends: the backends a route's backend stands for,   *)
(* in the order in which they are stored.                                  *)
AsBackends(name, b) ==
    CASE b.kind = "service" -> <<>>
      [] b.kind = "host" -> <<[name |-> name, value |-> SBackend("opaque", b.host)]>>
      [] b.kind = "ai" -> <<[name |-> name, value |-> SBackend("ai", NoHost)]>>
      [] b.kind = "dynamic" -> <<[name |-> DynamicName, value |-> SBackend("dynamic", NoHost)]>>
      [] b.kind = "invalid" -> <<[name |-> InvalidName, value |-> SBackend("invalid", NoHost)]>>
      [] b.kind = "mcp" ->
           LET inline == SelectSeq([i \in DOMAIN b.targets |-> [t |-> b.targets[i], i |-> i]],
                                   LAMBDA x : x.t.kind # "stdio")
               tname(x) == TargetName(name, x.t.kind, x.i)
           IN FlattenSeq([j \in DOMAIN inline |->
                            SimpleBackends(tname(inline[j]), SBackend("host", inline[j].t.host))])
              \o <<[name |-> name,
                    value |-> [kind |-> "mcp", host |-> NoHost,
                               targets |-> [j \in DOMAIN inline |->
                                              [kind |-> inline[j].t.kind, ref |-> tname(inline[j])]]]]>>

BackendRef(key, b) ==
    CASE b.kind = "service" -> ServiceName(b.host)
      [] b.kind = "invalid" -> InvalidName
      [] OTHER -> key

(* convert_route: every inline backend of a route is named after the route. *)
HasMirror(r) == r.mirror.kind # "none"
RouteBackends(key, r) ==
    FlattenSeq([i \in DOMAIN r.backends |-> AsBackends(BackendRef(key, r.backends[i]), r.backends[i])])
    \o IF HasMirror(r) THEN SimpleBackends(MirrorName(key), r.mirror) ELSE <<>>
RouteValue(key, r) ==
    [refs |-> [i \in DOMAIN r.backends |-> BackendRef(key, r.backends[i])],
     mirror |-> IF HasMirror(r) THEN SimpleRef(MirrorName(key), r.mirror) ELSE <<>>]
RoutePolicies(key, r) ==
    (IF r.bpol THEN <<[name |-> <<"backend-1", key[2], key[3], 0>>, value |-> BackendRef(key, r.backends[1])]>>
     ELSE <<>>)
    \o (IF r.rpol THEN <<[name |-> <<"1", key[2], key[3], 0>>, value |-> key]>> ELSE <<>>)

BackendPolicyFault(r) == r.bpol /\ Len(r.backends) # 1

(* convert_tcp_route: its backend policy may bail, and every route that gets *)
(* past it meets the todo!().                                                *)
TcpRouteFault(r) == IF BackendPolicyFault(r) THEN "error" ELSE "panic"

(* What stops the conversion of a bind: convert_listener's bails, a backend *)
(* policy on several backends, and the first of its tcpRoutes.              *)
BindFault(b) ==
    CASE b.protocol \in {"TCP", "TLS"} /\ b.routes # <<>> -> TcpRouteFault(Head(b.routes))
      [] b.protocol \in {"TCP", "TLS"} -> "error"
      [] \E i \in DOMAIN b.routes : BackendPolicyFault(b.routes[i]) -> "error"
      [] OTHER -> "none"

(* NormalizedLocalConfig::from: the binds are converted one after another. *)
Outcome(c) ==
    IF c.text = "garbled" THEN "error"
    ELSE LET bad == SelectSeq(c.binds, LAMBDA b : BindFault(b) # "none") IN
         IF bad = <<>> THEN "none" ELSE BindFault(Head(bad))

(* The routes of a content with their keys, in the order of the conversion. *)
KeyedRoutes(c) ==
    FlattenSeq([i \in DOMAIN c.binds |->
        [j \in DOMAIN c.binds[i].routes |->
            [key |-> RouteKey(c.binds[i].port, j), route |-> c.binds[i].routes[j]]]])

ConvertBinds(c) ==
    [i \in DOMAIN c.binds |->
        [name |-> <<"bind", c.binds[i].port, 0, 0>>,
         value |-> [j \in DOMAIN c.binds[i].routes |->
                      RouteValue(RouteKey(c.binds[i].port, j), c.binds[i].routes[j])]]]
ConvertBackends(c) ==
    FlattenSeq([i \in DOMAIN KeyedRoutes(c) |->
        RouteBackends(KeyedRoutes(c)[i].key, KeyedRoutes(c)[i].route)])
ConvertPolicies(c) ==
    FlattenSeq([i \in DOMAIN KeyedRoutes(c) |->
        RoutePolicies(KeyedRoutes(c)[i].key, KeyedRoutes(c)[i].route)])
ConvertDiscovery(c) == SetToSeq({[name |-> s, value |-> s] : s \in c.services})

-----------------------------------------------------------------------------
(* sync_local of the two stores: insert what the file has, in its order,   *)
(* and remove what the previous load had and this one does not have.       *)

NamesOf(items) == {items[i].name : i \in DOMAIN items}

(* Of several items with one name the last one stays.                      *)
Latest(items) ==
    [n \in NamesOf(items) |-> items[Max({i \in DOMAIN items : items[i].name = n})].value]

(* NormalizedLocalConfig of each content.                                  *)
Loaded ==
    [i \in LContents |->
       LET c == LFile[i]
           ok == Outcome(c) = "none"
           map(items) == IF ok THEN Latest(items) ELSE Empty
       IN [outcome |-> Outcome(c), remote |-> c.remote,
           binds |-> map(ConvertBinds(c)), backends |-> map(ConvertBackends(c)),
           policies |-> map(ConvertPolicies(c)), disc |-> map(ConvertDiscovery(c))]]

LeftoverForgotten(prev, new) == {}
Leftover(prev, new) == prev \ DOMAIN new

Synced(f, new, prev) ==
    LET all == new @@ f IN [n \in (DOMAIN all) \ Leftover(prev, new) |-> all[n]]

Content == Loaded[lhist[ltask.got]]
At(stage) == ltask.at = stage
LGoto(stage) == ltask' = [ltask EXCEPT !.at = stage]

(* A failed load ends the start of the process; a later one is logged.     *)
AfterFailure(stage) == IF lapplied.binds = 0 THEN "exited" ELSE stage

-----------------------------------------------------------------------------
(* The file, the watcher and the task                                       *)

WriteFile ==
    /\ Len(lhist) < MaxVersions /\ ltask.at # "exited"
    /\ \E c \in LContents : lhist' = Append(lhist, c)
    /\ levents' = levents \cup {"modify"}
    /\ UNCHANGED <<lchan, ltask, lprev, lstore, lapplied>>

(* A change of attributes, an access: reported, not a change of content.   *)
TouchFile ==
    /\ levents = {} /\ lchan = <<>> /\ ltask.at # "exited"
    /\ levents' = {"other"}
    /\ UNCHANGED <<lhist, lchan, ltask, lprev, lstore, lapplied>>

(* The debouncer hands its batch over; it waits while the channel is full. *)
DebounceSends ==
    /\ levents # {} /\ lchan = <<>> /\ ltask.at # "dead"
    /\ lchan' = <<levents>> /\ levents' = {}
    /\ UNCHANGED <<lhist, ltask, lprev, lstore, lapplied>>

(* The loop of watch_config_file: one batch, one reload.                   *)
ReceiveBatch ==
    /\ At("wait") /\ lchan # <<>>
    /\ lchan' = <<>>
    /\ LGoto(IF "modify" \in Head(lchan) THEN "read" ELSE "wait")
    /\ UNCHANGED <<lhist, levents, lprev, lstore, lapplied>>

(* An error of the watcher ends the loop.                                  *)
WatchFails ==
    /\ At("wait") /\ lchan = <<>>
    /\ LGoto("dead")
    /\ UNCHANGED <<lhist, levents, lchan, lprev, lstore, lapplied>>

ReadFile ==
    /\ At("read")
    /\ ltask' = [at |-> "convert", got |-> Len(lhist)]
    /\ UNCHANGED <<lhist, levents, lchan, lprev, lstore, lapplied>>

(* The conversion awaits: the file may change meanwhile.  The panic of     *)
(* todo!() ends the task; a fetch over the network may fail.               *)
Convert ==
    /\ At("convert")
    /\ \/ LGoto(CASE Content.outcome = "panic" -> AfterFailure("dead")
                  [] Content.outcome = "error" -> AfterFailure("wait")
                  [] OTHER -> "binds")
       \/ Content.outcome = "none" /\ Content.remote /\ LGoto(AfterFailure("wait"))
    /\ UNCHANGED <<lhist, levents, lchan, lprev, lstore, lapplied>>

(* reload_config: the binds store under its lock, then the discovery store. *)
SyncBinds ==
    /\ At("binds")
    /\ LET c == Content IN
       /\ lstore' = [lstore EXCEPT !.binds = Synced(@, c.binds, lprev.binds),
                                   !.backends = Synced(@, c.backends, lprev.backends),
                                   !.policies = Synced(@, c.policies, lprev.policies)]
       /\ lprev' = [lprev EXCEPT !.binds = DOMAIN c.binds,
                                 !.backends = DOMAIN c.backends,
                                 !.policies = DOMAIN c.policies]
    /\ lapplied' = [lapplied EXCEPT !.binds = ltask.got]
    /\ LGoto("discovery")
    /\ UNCHANGED <<lhist, levents, lchan>>

SyncDiscovery ==
    /\ At("discovery")
    /\ lstore' = [lstore EXCEPT !.disc = Synced(@, Content.disc, lprev.disc)]
    /\ lprev' = [lprev EXCEPT !.disc = DOMAIN Content.disc]
    /\ lapplied' = [lapplied EXCEPT !.disc = ltask.got]
    /\ LGoto("wait")
    /\ UNCHANGED <<lhist, levents, lchan>>

-----------------------------------------------------------------------------
(* The watch is set up before the first load.                              *)
NothingLoaded ==
    /\ levents = {} /\ lchan = <<>>
    /\ lprev = [binds |-> {}, backends |-> {}, policies |-> {}, disc |-> {}]
    /\ lstore = [binds |-> Empty, backends |-> Empty, policies |-> Empty, disc |-> Empty]
    /\ lapplied = [binds |-> 0, disc |-> 0]

LocalInit ==
    /\ lhist \in {<<c>> : c \in LContents}
    /\ ltask = [at |-> "read", got |-> 0]
    /\ NothingLoaded

ReloadStep == ReceiveBatch \/ ReadFile \/ Convert \/ SyncBinds \/ SyncDiscovery

LocalNext == WriteFile \/ TouchFile \/ DebounceSends \/ WatchFails \/ ReloadStep

(* The debouncer's thread and the task run; the file settles (its versions *)
(* are bounded).                                                           *)
LocalFairness == WF_localVars(DebounceSends) /\ WF_localVars(ReloadStep)

LocalSpec == LocalInit /\ [][LocalNext]_localVars /\ LocalFairness

-----------------------------------------------------------------------------
(* The stores show one whole version of the file at a time, only ever a    *)
(* later one, nothing of an earlier one is left behind, and the last       *)
(* version is reached when its conversion cannot fail (watch_config_file,  *)
(* reload_config and both sync_local), unless the watching has ended.      *)
View == INSTANCE ConfigView WITH
    ViewContents <- LContents,
    ViewUsable <- LAMBDA c : Loaded[c].outcome = "none",
    ViewSure <- LAMBDA c : Loaded[c].outcome = "none" /\ ~Loaded[c].remote,
    ViewBinds <- LAMBDA c : [binds |-> Loaded[c].binds, backends |-> Loaded[c].backends,
                             policies |-> Loaded[c].policies],
    ViewDiscovery <- LAMBDA c : Loaded[c].disc,
    ViewNothing <- [binds |-> [binds |-> Empty, backends |-> Empty, policies |-> Empty],
                    disc |-> Empty],
    vhist <- lhist,
    vbinds <- [binds |-> lstore.binds, backends |-> lstore.backends, policies |-> lstore.policies],
    vdisc <- lstore.disc,
    vat <- lapplied.binds,
    vdat <- lapplied.disc,
    vstopped <- ltask.at \in {"dead", "exited"}

ShowsLastGoodFile == View!VSpec

(* Where the references of the stored configuration lead: the host of a    *)
(* backend, or no host; the targets of a stored MCP backend.               *)
Host(name) == IF name \in DOMAIN lstore.backends THEN lstore.backends[name].host ELSE NoHost
McpRefs(name) == IF name \in DOMAIN lstore.backends THEN lstore.backends[name].targets ELSE <<>>

Settled == At("wait") /\ lapplied.binds > 0
SoleInline(r) == Cardinality({i \in DOMAIN r.backends : r.backends[i].kind \notin {"service", "invalid"}}) = 1
TargetsReach(key, b, kinds) ==
    LET inline == SelectSeq(b.targets, LAMBDA t : t.kind # "stdio") IN
    \A t \in DOMAIN inline :
       inline[t].kind \in kinds => Host(McpRefs(key)[t].ref) = inline[t].host

(* Once a file is loaded, a route leads to the host its backend names, an  *)
(* MCP backend's SSE and streamable targets to theirs and a mirror to its  *)
(* own, whatever was loaded before (as_backends, convert_route and         *)
(* to_simple_backend_and_ref).  Of several inline backends of one route,   *)
(* which share the route's name, only the last is stored.                  *)
ReferencesReach ==
    Settled => \A kr \in ToSet(KeyedRoutes(LFile[lhist[lapplied.binds]])) :
       /\ kr.route.mirror.kind = "host" => Host(MirrorName(kr.key)) = kr.route.mirror.host
       /\ SoleInline(kr.route) => \A i \in DOMAIN kr.route.backends :
             LET b == kr.route.backends[i] IN
             /\ b.kind = "host" => Host(kr.key) = b.host
             /\ b.kind = "mcp" => TargetsReach(kr.key, b, {"sse", "mcp"})

(* An OpenAPI target of an MCP backend leads to the host written in it     *)
(* (examples/openapi: the calls are proxied to the application there).     *)
OpenApiReachesHost ==
    Settled => \A kr \in ToSet(KeyedRoutes(LFile[lhist[lapplied.binds]])) :
       \A i \in DOMAIN kr.route.backends :
          kr.route.backends[i].kind = "mcp" => TargetsReach(kr.key, kr.route.backends[i], {"openapi"})

============================================================================
