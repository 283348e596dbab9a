------------------------------ MODULE Shutdown ------------------------------
(***************************************************************************)
(* How the process stops: Bound::wait_termination in app.rs, the drain     *)
(* channels of core/src/drain.rs, the accept loops of Gateway::run_bind    *)
(* and the management servers.                                             *)
(*                                                                         *)
(* A drain is finished when every watcher has been dropped.  The process   *)
(* has one drain; each bind runs under run_with_drain, which has a drain   *)
(* of its own for the connections of the bind and gives it until           *)
(* max_deadline before it forces them to close.  A connection that is      *)
(* accepted before the bind notices the drain blocks it ("strong"); later  *)
(* ones get a dummy watcher.                                               *)
(*                                                                         *)
(* The second accept loop of a bind never ends by itself: it waits for     *)
(* inner_trigger, and inner_drain is dropped only with the loop.  What the *)
(* minimum drain time bounds is never reached, and it is left out.  The    *)
(* process's watcher is also in App of mcp/sse.rs, which every connection  *)
(* and every MCP session reaches through ProxyInputs.                      *)
(***************************************************************************)
CONSTANTS
  Bind,       \* bind tasks
  Conn,       \* connections of clients
  Admin,      \* connections of the management servers
  None

VARIABLES
  app,      \* "running", "draining" or "exited"
  gateway,  \* "waiting" for xDS, "running", "joining" its tasks, "done"
  bind,     \* the phase of each bind's task
  force,    \* force_shutdown of the bind is sent, or its senders are gone
  expired,  \* max_deadline has passed since the bind's drain was signalled
  conn,     \* of each connection: None or [bind, strong, asked]
  session,  \* a streamable HTTP session of MCP is open
  servers,  \* the management servers accept connections
  admin     \* of each of their connections: it is open

process == <<app, gateway>>
binds == <<bind, force, expired>>
management == <<servers, admin>>
vars == <<process, binds, conn, session, management>>

(* The phases of a bind: "none"; "accept", its task is spawned and accepts;
   "signalled", the bind's own drain is; "drain", the accept loop has noticed
   and is in its second loop; "done", the task has returned; "aborted". *)
Alive(b) == bind[b] \in {"accept", "signalled", "drain"}

Init ==
  /\ app = "running" /\ gateway = "waiting"
  /\ bind = [b \in Bind |-> "none"]
  /\ force = [b \in Bind |-> FALSE]
  /\ expired = [b \in Bind |-> FALSE]
  /\ conn = [c \in Conn |-> None]
  /\ session = FALSE
  /\ servers = TRUE /\ admin = [c \in Admin |-> FALSE]

-----------------------------------------------------------------------------
(* The process. *)

(* A signal or the admin interface ends shutdown.wait(): the drain starts. *)
StartDrain ==
  /\ app = "running"
  /\ app' = "draining"
  /\ UNCHANGED <<gateway, binds, conn, session, management>>

(* A watcher of the process's drain is still held: by the gateway and its
   binds, by ProxyInputs (through mcp_state) in a connection or a session, or
   by a management server or one of its connections. *)
Watched ==
  \/ gateway # "done"
  \/ \E b \in Bind : Alive(b)
  \/ \E c \in Conn : conn[c] # None
  \/ session
  \/ servers
  \/ \E c \in Admin : admin[c]

(* start_drain_and_wait returns, and wait_termination with it. *)
Exit ==
  /\ app = "draining" /\ ~Watched
  /\ app' = "exited"
  /\ UNCHANGED <<gateway, binds, conn, session, management>>

-----------------------------------------------------------------------------
(* The gateway. *)

(* xds_rx.changed() returns: Gateway::run starts a task for every bind. *)
StartGateway ==
  /\ gateway = "waiting"
  /\ gateway' = "running"
  /\ bind' = [b \in Bind |-> "accept"]
  /\ UNCHANGED <<app, force, expired, conn, session, management>>

(* Mutant of RemoveBind: a sender of force_shutdown outlives the task. *)
RemoveBindQuietly(b) ==
  /\ gateway = "running" /\ Alive(b)
  /\ bind' = [bind EXCEPT ![b] = "aborted"]
  /\ UNCHANGED <<process, force, expired, conn, session, management>>

(* The bind leaves the store and its task is aborted, which drops the senders
   of force_shutdown and of the bind's drain. *)
RemoveBind(b) ==
  /\ gateway = "running" /\ Alive(b)
  /\ bind' = [bind EXCEPT ![b] = "aborted"]
  /\ force' = [force EXCEPT ![b] = TRUE]
  /\ UNCHANGED <<process, expired, conn, session, management>>

(* "stop listening for binds; drain started" *)
StopBinds ==
  /\ gateway = "running" /\ app = "draining"
  /\ gateway' = "joining"
  /\ UNCHANGED <<app, binds, conn, session, management>>

(* "binds drained": the last task of the JoinSet is joined. *)
BindsDrained ==
  /\ gateway = "joining" /\ \A b \in Bind : ~Alive(b)
  /\ gateway' = "done"
  /\ UNCHANGED <<app, binds, conn, session, management>>

-----------------------------------------------------------------------------
(* run_with_drain and the accept loops of a bind. *)

(* The watch future sees the process's drain and starts the bind's. *)
SignalBind(b) ==
  /\ bind[b] = "accept" /\ app = "draining"
  /\ bind' = [bind EXCEPT ![b] = "signalled"]
  /\ UNCHANGED <<process, force, expired, conn, session, management>>

(* The first loop ends: upgrader.disable(), drop(drain_mode). *)
StopUpgrading(b) ==
  /\ bind[b] = "signalled"
  /\ bind' = [bind EXCEPT ![b] = "drain"]
  /\ UNCHANGED <<process, force, expired, conn, session, management>>

(* The timeout in run_with_drain fires. *)
MaxDeadline(b) ==
  /\ bind[b] \in {"signalled", "drain"} /\ ~expired[b]
  /\ expired' = [expired EXCEPT ![b] = TRUE]
  /\ UNCHANGED <<process, bind, force, conn, session, management>>

(* The connections that hold a watcher of the bind's drain. *)
Strong(b) == {c \in Conn : conn[c] # None /\ conn[c].bind = b /\ conn[c].strong}

(* Mutants of DrainOver: open connections hold no watcher; there is no timeout. *)
DrainOverAtOnce(b) == bind[b] = "drain"
DrainOverUntimed(b) == bind[b] = "drain" /\ Strong(b) = {}

(* start_drain_and_wait of the bind's drain returns, or its timeout does. *)
DrainOver(b) ==
  \/ bind[b] = "drain" /\ Strong(b) = {}
  \/ bind[b] = "signalled" /\ expired[b]
  \/ bind[b] = "drain" /\ expired[b]

(* The watch future sends force_shutdown and returns; select! drops the accept
   loop.  (The loop itself never returns: see the header.) *)
ForceShutdown(b) ==
  /\ DrainOver(b)
  /\ bind' = [bind EXCEPT ![b] = "done"]
  /\ force' = [force EXCEPT ![b] = TRUE]
  /\ UNCHANGED <<process, expired, conn, session, management>>

-----------------------------------------------------------------------------
(* Connections of clients. *)

(* Mutant of Upgrade: the upgrader is never disabled. *)
UpgradeAlways(b) == TRUE

(* upgrader.upgrade(weak) makes a watcher that counts, not a dummy. *)
Upgrade(b) == bind[b] # "drain"

(* listener.accept() and handle_stream, in either loop. *)
Accept(c, b) ==
  /\ conn[c] = None /\ Alive(b)
  /\ conn' = [conn EXCEPT ![c] = [bind |-> b, strong |-> Upgrade(b), asked |-> FALSE]]
  /\ UNCHANGED <<process, binds, session, management>>

(* GracefulConnectionFuture: the bind's drain is signalled (or its sender is
   gone), and hyper is told to shut the connection down. *)
AskToClose(c) ==
  /\ conn[c] # None /\ ~conn[c].asked /\ bind[conn[c].bind] # "accept"
  /\ conn' = [conn EXCEPT ![c].asked = TRUE]
  /\ UNCHANGED <<process, binds, session, management>>

(* proxy_bind returns. *)
Complete(c) ==
  /\ conn[c] # None
  /\ conn' = [conn EXCEPT ![c] = None]
  /\ UNCHANGED <<process, binds, session, management>>

(* force_shutdown.changed() returns first: "connection forcefully terminated". *)
Terminate(c) ==
  /\ conn[c] # None /\ force[conn[c].bind]
  /\ conn' = [conn EXCEPT ![c] = None]
  /\ UNCHANGED <<process, binds, session, management>>

(* A request opens, or deletes, a session of LocalSessionManager, whose task
   has a Relay and so ProxyInputs. *)
ToggleSession(c) ==
  /\ conn[c] # None
  /\ session' = ~session
  /\ UNCHANGED <<process, binds, conn, management>>

-----------------------------------------------------------------------------
(* The admin, metrics and readiness servers (Server::spawn in hyper_helpers). *)

StopServers ==
  /\ servers /\ app = "draining"
  /\ servers' = FALSE
  /\ UNCHANGED <<process, binds, conn, session, admin>>

AdminAccept(c) ==
  /\ servers /\ ~admin[c]
  /\ admin' = [admin EXCEPT ![c] = TRUE]
  /\ UNCHANGED <<process, binds, conn, session, servers>>

AdminComplete(c) ==
  /\ admin[c]
  /\ admin' = [admin EXCEPT ![c] = FALSE]
  /\ UNCHANGED <<process, binds, conn, session, servers>>

-----------------------------------------------------------------------------
BindStep(b) ==
  SignalBind(b) \/ StopUpgrading(b) \/ MaxDeadline(b) \/ ForceShutdown(b)

Next ==
  \/ StartDrain \/ Exit
  \/ StartGateway \/ StopBinds \/ BindsDrained
  \/ \E b \in Bind : RemoveBind(b) \/ BindStep(b)
  \/ \E c \in Conn, b \in Bind : Accept(c, b)
  \/ \E c \in Conn : AskToClose(c) \/ Complete(c) \/ Terminate(c) \/ ToggleSession(c)
  \/ StopServers
  \/ \E c \in Admin : AdminAccept(c) \/ AdminComplete(c)

Spec == Init /\ [][Next]_vars

(* Tasks that are ready run and timers fire.  A management connection ends once
   the servers stop: it is told to, and its requests are short.  Nothing is
   assumed of clients, of sessions or of the xDS server. *)
Fairness ==
  /\ WF_vars(Exit) /\ WF_vars(StopBinds) /\ WF_vars(BindsDrained) /\ WF_vars(StopServers)
  /\ \A b \in Bind : /\ WF_vars(SignalBind(b)) /\ WF_vars(StopUpgrading(b))
                     /\ WF_vars(MaxDeadline(b))
                     /\ WF_vars(ForceShutdown(b))
  /\ \A c \in Conn : WF_vars(Terminate(c))
  /\ \A c \in Admin : WF_vars(~servers /\ AdminComplete(c))

FairSpec == Spec /\ Fairness

-----------------------------------------------------------------------------
(* A connection accepted before its bind noticed the drain is given its time:
   it is forced to close only after max_deadline, or when the bind is removed. *)
GracefulUntilDeadline ==
  \A b \in Bind : force[b] /\ ~expired[b] /\ bind[b] # "aborted" => Strong(b) = {}

(* Accepting while draining (the second loop) never adds to what the drain of
   the bind waits for: "we don't want to block from our listen() loop, or we
   would never finish". *)
LateConnectionsDoNotBlock ==
  [][\A b \in Bind : bind[b] = "drain" => Strong(b)' \subseteq Strong(b)]_vars

(* Once the process drains, every connection is gone for good after a while,
   whatever the clients do, also those of binds removed before or meanwhile. *)
ConnectionsEnd ==
  (app = "draining" /\ gateway # "waiting") ~> [](\A c \in Conn : conn[c] = None)

(* The process ends after a drain, unless the first xDS configuration never
   came (the gateway holds its watcher while it waits) or an MCP session was
   left open. *)
DrainEnds ==
  app = "draining" ~> (app = "exited" \/ gateway = "waiting" \/ session)

(* The three: nobody can hold up the drain for good. *)
DrainProgress == LateConnectionsDoNotBlock /\ ConnectionsEnd /\ DrainEnds
=============================================================================
