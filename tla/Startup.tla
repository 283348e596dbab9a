------------------------------ MODULE Startup ------------------------------
(***************************************************************************)
(* How the process starts and what tells it to stop: app::run, the         *)
(* readiness tasks of core/src/readiness.rs and the server that reports    *)
(* them, the signals and the trigger of core/src/signal.rs, and the        *)
(* /quitquitquit handler of the admin server.                              *)
(*                                                                         *)
(* run() registers two tasks before it starts the readiness server and     *)
(* drops them when the gateway's task is handed to the data plane and when *)
(* the first configuration has arrived.  The first is dropped by a task    *)
(* that waits for the sender awaiting_ready to go; the gateway waits for   *)
(* the same event.  What a drain does is in Shutdown, what the xDS client  *)
(* does before it drops the sender is in XdsClient.                        *)
(***************************************************************************)
EXTENDS Naturals

CONSTANTS
  QuitReq,     \* requests for /quitquitquit
  MaxSignals   \* deliveries of each of SIGINT and SIGTERM

VARIABLES
  scfg,      \* [xds, local]: which sources of configuration there are
  spos,      \* where app::run, and then wait_termination, is
  spending,  \* Ready: the tasks that are registered and not dropped
  sheld,     \* awaiting_ready still has a sender
  sloaded,   \* the sources whose state is in the stores
  sproxy,    \* the gateway's task: "none", "waiting" or "running"
  sprobe,    \* the last answer of the readiness server
  squit,     \* of each request: "none", "sending" or "answered"
  sslot,     \* the channel of ShutdownTrigger: "open", "full" or "closed"
  ssignals,  \* how often each signal was delivered
  scaught,   \* the signals delivered to the first two watch_signal calls
  sdouble    \* the second SIGINT watcher: "none", "spawned", "listening"

requests == <<squit, sslot>>
signals == <<ssignals, scaught, sdouble>>
progress == <<scfg, spos, spending, sheld, sloaded, sproxy>>
svars == <<progress, sprobe, requests, signals>>

StateTask == "state manager"
ProxyTask == "agentgateway"

(* The steps of run(), in this order. *)
StartSteps == {"readiness", "state", "admin", "gateway", "metrics"}
Started == {"bound", "waiting", "draining"}
Over == {"exited", "killed"}
Sources == {s \in {"xds", "local"} : scfg[s]}

StartupInit ==
  /\ scfg \in [{"xds", "local"} -> BOOLEAN]
  /\ spos = "readiness"
  /\ spending = {}
  /\ sheld = TRUE /\ sloaded = {} /\ sproxy = "none" /\ sprobe = "none"
  /\ squit = [r \in QuitReq |-> "none"] /\ sslot = "open"
  /\ ssignals = [k \in {"int", "term"} |-> 0]
  /\ scaught = {} /\ sdouble = "none"

-----------------------------------------------------------------------------
(* Readiness. *)

(* BlockReady is dropped. *)
DropTask(t) == spending' = spending \ {t}

(* GET /healthz/ready *)
HandleReady ==
  /\ spos \notin {"readiness"} \cup Over
  /\ sprobe' = IF spending = {} THEN "ready" ELSE "not ready"
  /\ UNCHANGED <<progress, requests, signals>>

-----------------------------------------------------------------------------
(* app::run *)

(* A variant: the task that stands for the first configuration is registered
   where it is used, after the server has started. *)
RegisteredLate == {ProxyTask}

(* The tasks registered before the readiness server starts. *)
RegisteredTasks == {StateTask, ProxyTask}

(* The readiness server is bound and its task handed to the data plane. *)
StartReadiness ==
  /\ spos = "readiness"
  /\ spos' = "state"
  /\ spending' = RegisteredTasks
  /\ UNCHANGED <<scfg, sheld, sloaded, sproxy, sprobe, requests, signals>>

(* StateManager::new loads a local configuration before it returns; the sender
   moves into the xDS client, or is dropped when there is none. *)
StartStateManager ==
  /\ spos = "state"
  /\ spos' = "admin"
  /\ sloaded' = IF scfg["local"] THEN {"local"} ELSE {}
  /\ sheld' = scfg["xds"]
  /\ UNCHANGED <<scfg, spending, sproxy, sprobe, requests, signals>>

StartAdmin ==
  /\ spos = "admin"
  /\ spos' = "gateway"
  /\ UNCHANGED <<scfg, spending, sheld, sloaded, sproxy, sprobe, requests, signals>>

(* The gateway goes to the data plane, where it waits for the configuration;
   proxy_task is dropped and the admin server starts. *)
StartProxy ==
  /\ spos = "gateway"
  /\ spos' = "metrics"
  /\ sproxy' = "waiting"
  /\ DropTask(ProxyTask)
  /\ UNCHANGED <<scfg, sheld, sloaded, sprobe, requests, signals>>

StartMetrics ==
  /\ spos = "metrics"
  /\ spos' = "bound"
  /\ UNCHANGED <<scfg, spending, sheld, sloaded, sproxy, sprobe, requests, signals>>

(* An address is in use or the local configuration does not load: run returns
   Err and drops the readiness tasks it still owns.  state_mgr_task is its own
   until the task that waits for the configuration is spawned. *)
StartFails ==
  /\ spos \in {"readiness", "state", "admin", "metrics"}
  /\ spos = "state" => scfg["local"]
  /\ spos' = "failed"
  /\ spending' = spending \ ({ProxyTask} \cup
                  (IF spos \in {"readiness", "state"} THEN {StateTask} ELSE {}))
  /\ UNCHANGED <<scfg, sheld, sloaded, sproxy, sprobe, requests, signals>>

(* main returns the error. *)
FailedExits ==
  /\ spos = "failed"
  /\ spos' = "exited"
  /\ UNCHANGED <<scfg, spending, sheld, sloaded, sproxy, sprobe, requests, signals>>

StateManagerRuns == spos \in {"admin", "gateway", "metrics"} \cup Started

(* The xDS client has a response of every type and drops awaiting_ready. *)
XdsLoaded ==
  /\ StateManagerRuns /\ sheld
  /\ sheld' = FALSE /\ sloaded' = sloaded \cup {"xds"}
  /\ UNCHANGED <<scfg, spos, spending, sproxy, sprobe, requests, signals>>

(* xds_rx_for_task.changed() returns, with an error: the sender is gone. *)
ReportConfigured ==
  /\ StateManagerRuns /\ ~sheld /\ StateTask \in spending
  /\ DropTask(StateTask)
  /\ UNCHANGED <<scfg, spos, sheld, sloaded, sproxy, sprobe, requests, signals>>

(* xds_rx_for_proxy.changed() returns and the gateway runs. *)
RunProxy ==
  /\ sproxy = "waiting" /\ ~sheld /\ spos \notin Over
  /\ sproxy' = "running"
  /\ UNCHANGED <<scfg, spos, spending, sheld, sloaded, sprobe, requests, signals>>

-----------------------------------------------------------------------------
(* POST /quitquitquit *)

AdminServes == spos \in {"metrics"} \cup Started

HandleServerShutdown(r) ==
  /\ AdminServes /\ squit[r] = "none"
  /\ squit' = [squit EXCEPT ![r] = "sending"]
  /\ UNCHANGED <<progress, sprobe, sslot, signals>>

(* shutdown_now: the channel holds one message; without a receiver the send
   fails and the result is ignored. *)
ShutdownNow(r) ==
  /\ spos \notin Over /\ squit[r] = "sending" /\ sslot # "full"
  /\ squit' = [squit EXCEPT ![r] = "answered"]
  /\ sslot' = IF sslot = "open" THEN "full" ELSE sslot
  /\ UNCHANGED <<progress, sprobe, signals>>

(* The timeout of termination_min_deadline around it. *)
QuitTimesOut(r) ==
  /\ spos \notin Over /\ squit[r] = "sending"
  /\ squit' = [squit EXCEPT ![r] = "answered"]
  /\ UNCHANGED <<progress, sprobe, sslot, signals>>

-----------------------------------------------------------------------------
(* Shutdown::wait *)

(* select! polls its branches for the first time: both signals get a handler,
   which stays installed from then on. *)
WatchSignals ==
  /\ spos = "bound"
  /\ spos' = "waiting"
  /\ UNCHANGED <<scfg, spending, sheld, sloaded, sproxy, sprobe, requests, signals>>

(* A signal arrives.  Without a handler it kills the process; afterwards it
   reaches whoever listens at that moment. *)
Signal(k) ==
  /\ spos \notin Over /\ ssignals[k] < MaxSignals
  /\ ssignals' = [ssignals EXCEPT ![k] = @ + 1]
  /\ scaught' = IF spos = "waiting" THEN scaught \cup {k} ELSE scaught
  /\ spos' = CASE spos \notin {"waiting", "draining"} -> "killed"
               [] k = "int" /\ sdouble = "listening" -> "exited"
               [] OTHER -> spos
  /\ UNCHANGED <<scfg, spending, sheld, sloaded, sproxy, sprobe, requests, sdouble>>

(* The select! completes with one of its branches and the drain starts; a
   SIGINT also starts the task that waits for the second one.  The receiver of
   the trigger is dropped with the Shutdown. *)
WaitReturns ==
  /\ spos = "waiting"
  /\ \/ "int" \in scaught /\ sdouble' = "spawned"
     \/ "term" \in scaught /\ sdouble' = sdouble
     \/ sslot = "full" /\ sdouble' = sdouble
  /\ spos' = "draining" /\ sslot' = "closed"
  /\ UNCHANGED <<scfg, spending, sheld, sloaded, sproxy, sprobe, squit, ssignals,
                 scaught>>

(* The spawned task registers its listener. *)
WatchSecond ==
  /\ spos = "draining" /\ sdouble = "spawned"
  /\ sdouble' = "listening"
  /\ UNCHANGED <<progress, sprobe, requests, ssignals, scaught>>

(* Every watcher of the drain has gone.  The gateway's task holds one while it
   waits for the first configuration; the others are in Shutdown. *)
DrainCompletes ==
  /\ spos = "draining" /\ sproxy # "waiting"
  /\ spos' = "exited"
  /\ UNCHANGED <<scfg, spending, sheld, sloaded, sproxy, sprobe, requests, signals>>

-----------------------------------------------------------------------------
Run ==
  \/ StartReadiness \/ StartStateManager \/ StartAdmin \/ StartProxy \/ StartMetrics
  \/ FailedExits \/ ReportConfigured \/ RunProxy \/ WatchSignals \/ WaitReturns
  \/ WatchSecond

StartupNext ==
  \/ Run \/ StartFails \/ XdsLoaded \/ HandleReady \/ DrainCompletes
  \/ \E r \in QuitReq : HandleServerShutdown(r) \/ ShutdownNow(r) \/ QuitTimesOut(r)
  \/ \E k \in {"int", "term"} : Signal(k)

(* The steps of run and of the tasks it spawns, the timers of the requests and
   a drain whose watchers are gone.  Nothing says that the control plane ever
   answers. *)
StartupFair ==
  /\ WF_svars(Run) /\ WF_svars(DrainCompletes)
  /\ \A r \in QuitReq : WF_svars(QuitTimesOut(r))

StartupSpec == StartupInit /\ [][StartupNext]_svars /\ StartupFair

-----------------------------------------------------------------------------
(* While run has not failed, the readiness server answers "ready" only when
   every configured source of configuration has been loaded into the stores
   and the gateway has been handed to the data plane (the two BlockReady tasks
   of app::run and what they stand for). *)
ReadyMeansConfigured ==
  [][sprobe' = "ready" /\ sprobe # "ready" /\ spos # "failed"
       => sloaded = Sources /\ sproxy # "none"]_svars

=============================================================================
