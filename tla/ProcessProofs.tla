--------------------------- MODULE ProcessProofs ----------------------------
(***************************************************************************)
(* The life of the process: its start, its drain and the writer of its log. *)
(***************************************************************************)
EXTENDS Shutdown, Startup, LogWriter, Integers, TLAPS

-----------------------------------------------------------------------------
(***************************************************************************)
(* The drain of a bind, for any number of binds and connections: it is     *)
(* graceful, and it cannot be held up by connections that come late.       *)
(***************************************************************************)

Phases == {"none", "accept", "signalled", "drain", "done", "aborted"}

(* A bind whose connections are told to close has no accept loop any more, so
   none is added: this is what makes the emptiness of Strong last.  Before the
   gateway runs there is no bind. *)
DrainInv ==
  /\ bind \in [Bind -> Phases]
  /\ force \in [Bind -> BOOLEAN] /\ expired \in [Bind -> BOOLEAN]
  /\ conn \in [Conn -> {None} \cup [bind : Bind, strong : BOOLEAN, asked : BOOLEAN]]
  /\ gateway = "waiting" => \A b \in Bind : bind[b] = "none" /\ ~force[b]
  /\ \A b \in Bind : force[b] => ~Alive(b)
  /\ GracefulUntilDeadline

Conns == [bind : Bind, strong : BOOLEAN, asked : BOOLEAN]

(* Initially nothing is forced. *)
LEMMA DrainInitially == Init => DrainInv
  BY DEF Init, DrainInv, Phases, GracefulUntilDeadline

(* Strong depends on the connections alone. *)
LEMMA StrongShrinks ==
  ASSUME \A c \in Conn : \/ conn'[c] = None
                         \/ /\ conn[c] # None
                            /\ conn'[c].bind = conn[c].bind /\ conn'[c].strong = conn[c].strong
  PROVE  \A b \in Bind : Strong(b)' \subseteq Strong(b)
  BY DEF Strong

(* Connections close, are asked to close, or come to a bind that accepts. *)
LEMMA ConnSteps ==
  ASSUME DrainInv, NEW c \in Conn, AskToClose(c) \/ Complete(c) \/ Terminate(c)
  PROVE  /\ UNCHANGED <<process, binds>>
         /\ conn' \in [Conn -> {None} \cup Conns]
         /\ \A b \in Bind : Strong(b)' \subseteq Strong(b)
  <1>1. UNCHANGED <<process, binds>> /\ conn' \in [Conn -> {None} \cup Conns]
    BY ZenonT(30) DEF AskToClose, Complete, Terminate, DrainInv, Conns
  <1>2. \A d \in Conn : \/ conn'[d] = None
                        \/ /\ conn[d] # None
                           /\ conn'[d].bind = conn[d].bind /\ conn'[d].strong = conn[d].strong
    BY DEF AskToClose, Complete, Terminate, DrainInv
  <1> QED
    BY <1>1, <1>2, StrongShrinks

(* An accepted connection is strong only at a bind that accepts, and not after
   its accept loop has noticed the drain. *)
LEMMA AcceptStep ==
  ASSUME DrainInv, NEW c \in Conn, NEW a \in Bind, Accept(c, a)
  PROVE  /\ UNCHANGED <<process, binds>> /\ Alive(a)
         /\ conn' \in [Conn -> {None} \cup Conns]
         /\ \A b \in Bind : b # a \/ bind[b] = "drain" => Strong(b)' \subseteq Strong(b)
  <1>1. /\ UNCHANGED <<process, binds>> /\ Alive(a)
        /\ conn' = [conn EXCEPT ![c] = [bind |-> a, strong |-> Upgrade(a), asked |-> FALSE]]
    BY DEF Accept
  <1>2. Upgrade(a) \in BOOLEAN
    BY DEF Upgrade
  <1>3. conn' \in [Conn -> {None} \cup Conns]
    BY <1>1, <1>2 DEF DrainInv, Conns
  <1>4. \A d \in Conn : d # c => conn'[d] = conn[d]
    BY <1>1 DEF DrainInv
  <1>5. conn'[c].bind = a /\ conn'[c].strong = Upgrade(a)
    BY <1>1 DEF DrainInv
  <1>6. \A b \in Bind : b # a \/ bind[b] = "drain" => Strong(b)' \subseteq Strong(b)
    BY Zenon, <1>4, <1>5 DEF Strong, Upgrade
  <1> QED
    BY <1>1, <1>3, <1>6

(* Every step of the process, the gateway, the binds and the connections keeps
   the invariant. *)
LEMMA DrainPreserved == DrainInv /\ [Next]_vars => DrainInv'
  <1> SUFFICES ASSUME DrainInv, [Next]_vars PROVE DrainInv'
    OBVIOUS
  <1>1. ASSUME UNCHANGED <<gateway, binds, conn>> PROVE DrainInv'
    BY <1>1 DEF binds, DrainInv, GracefulUntilDeadline, Strong, Alive
  <1>2. CASE StartGateway
    BY <1>2 DEF StartGateway, DrainInv, Phases, GracefulUntilDeadline
  <1>3. CASE StopBinds \/ BindsDrained
    BY <1>3 DEF StopBinds, BindsDrained, binds, DrainInv, GracefulUntilDeadline, Strong, Alive
  <1>4. ASSUME NEW b \in Bind, RemoveBind(b) PROVE DrainInv'
    BY <1>4
    DEF RemoveBind, process, DrainInv, Phases, GracefulUntilDeadline, Strong, Alive
  <1>5. ASSUME NEW b \in Bind, SignalBind(b) \/ StopUpgrading(b) PROVE DrainInv'
    BY <1>5 DEF SignalBind, StopUpgrading, process, DrainInv, Phases,
                GracefulUntilDeadline, Strong, Alive
  <1>6. ASSUME NEW b \in Bind, MaxDeadline(b) PROVE DrainInv'
    BY <1>6 DEF MaxDeadline, process, DrainInv, GracefulUntilDeadline, Strong, Alive
  <1>7. ASSUME NEW b \in Bind, ForceShutdown(b) PROVE DrainInv'
    BY <1>7 DEF ForceShutdown, DrainOver, process, DrainInv, Phases,
                GracefulUntilDeadline, Strong, Alive
  <1>8. ASSUME NEW c \in Conn, AskToClose(c) \/ Complete(c) \/ Terminate(c) PROVE DrainInv'
    BY <1>8, ConnSteps DEF process, binds, DrainInv, Conns, GracefulUntilDeadline, Alive
  <1>9. ASSUME NEW c \in Conn, NEW b \in Bind, Accept(c, b) PROVE DrainInv'
    BY <1>9, AcceptStep DEF process, binds, DrainInv, Conns, GracefulUntilDeadline, Alive
  <1>10. CASE StartDrain \/ Exit \/ StopServers
    BY <1>1, <1>10 DEF StartDrain, Exit, StopServers, process
  <1>11. ASSUME NEW c \in Conn, ToggleSession(c) PROVE DrainInv'
    BY <1>1, <1>11 DEF ToggleSession, process
  <1>12. ASSUME NEW c \in Admin, AdminAccept(c) \/ AdminComplete(c) PROVE DrainInv'
    BY <1>1, <1>12 DEF AdminAccept, AdminComplete, process
  <1>13. CASE UNCHANGED vars
    BY <1>1, <1>13 DEF vars, process
  <1> QED
    BY <1>2, <1>3, <1>4, <1>5, <1>6, <1>7, <1>8, <1>9, <1>10, <1>11, <1>12, <1>13
    DEF Next, BindStep

(* run_with_drain forces a connection to close only after max_deadline or when
   the bind is removed, for any number of binds and connections. *)
THEOREM GracefulCorrect == Spec => []GracefulUntilDeadline
  <1>1. Spec => []DrainInv
    BY DrainInitially, DrainPreserved, PTL DEF Spec
  <1>2. DrainInv => GracefulUntilDeadline
    BY Zenon DEF DrainInv
  <1> QED
    BY <1>1, <1>2, PTL

(* No step adds to what the drain of a bind in its second loop waits for. *)
LEMMA DrainStep ==
  DrainInv /\ [Next]_vars =>
    [\A b \in Bind : bind[b] = "drain" => Strong(b)' \subseteq Strong(b)]_vars
  <1> SUFFICES ASSUME DrainInv, Next, NEW b \in Bind, bind[b] = "drain"
               PROVE  Strong(b)' \subseteq Strong(b)
    OBVIOUS
  <1>1. CASE UNCHANGED conn
    BY <1>1 DEF Strong
  <1>2. ASSUME NEW c \in Conn, AskToClose(c) \/ Complete(c) \/ Terminate(c)
        PROVE  Strong(b)' \subseteq Strong(b)
    BY <1>2, ConnSteps
  <1>3. ASSUME NEW c \in Conn, NEW a \in Bind, Accept(c, a)
        PROVE  Strong(b)' \subseteq Strong(b)
    BY <1>3, AcceptStep
  <1> QED
    BY <1>1, <1>2, <1>3
    DEF Next, BindStep, StartDrain, Exit, StartGateway, StopBinds, BindsDrained, RemoveBind,
        SignalBind, StopUpgrading, MaxDeadline, ForceShutdown, ToggleSession, StopServers,
        AdminAccept, AdminComplete

(* The second accept loop never adds a connection the bind's drain waits for
   (DrainUpgrader::disable), for any number of binds and connections. *)
THEOREM LateConnectionsCorrect == Spec => LateConnectionsDoNotBlock
  <1>1. Spec => []DrainInv
    BY DrainInitially, DrainPreserved, PTL DEF Spec
  <1>2. Spec => [][Next]_vars
    BY PTL DEF Spec
  <1> QED
    BY <1>1, <1>2, DrainStep, PTL DEF LateConnectionsDoNotBlock

-----------------------------------------------------------------------------
(***************************************************************************)
(* Startup announces readiness only when it is true, for any number of     *)
(* requests and signals.  That both readiness tasks are gone says nothing  *)
(* by itself; the invariant ties each task to what it stands for, and the  *)
(* sender of awaiting_ready to the sources that are loaded.                *)
(***************************************************************************)

(* The points of run in which the state manager has been made. *)
Managed == {"admin", "gateway", "metrics"} \cup Started

(* What the two readiness tasks stand for.  Before the state manager is made
   nothing has been dropped; afterwards the local source is loaded, the sender
   is held only for xDS, the state task is dropped only after the sender, and
   the proxy task only when the gateway has been handed over. *)
StartInv ==
  /\ scfg \in [{"xds", "local"} -> BOOLEAN]
  /\ spos \in StartSteps \cup Started \cup Over \cup {"failed"}
  /\ sloaded \subseteq Sources
  /\ spos = "state" => StateTask \in spending
  /\ spos \in Managed =>
       /\ scfg["local"] => "local" \in sloaded
       /\ sheld => scfg["xds"]
       /\ ~sheld /\ scfg["xds"] => "xds" \in sloaded
       /\ StateTask \notin spending => ~sheld
       /\ ProxyTask \notin spending => sproxy # "none"
  /\ spos \in {"state", "admin"} => ProxyTask \in spending

USE DEF StateTask, ProxyTask

(* The invariant holds before run has done anything. *)
LEMMA StartInitially == StartupInit => StartInv
  BY DEF StartupInit, StartInv, StartSteps, Started, Over, Managed

(* Every step of run, of the tasks it spawns and of the outside keeps it. *)
LEMMA StartPreserved == StartInv /\ [StartupNext]_svars => StartInv'
  <1> SUFFICES ASSUME StartInv, [StartupNext]_svars PROVE StartInv'
    OBVIOUS
  <1> USE DEF StartInv, Managed, StartSteps, Started, Over, Sources
  <1>0. ASSUME UNCHANGED progress PROVE StartInv'
    BY Zenon, <1>0 DEF progress
  <1>1. CASE StartReadiness
    BY Zenon, <1>1 DEF StartReadiness, RegisteredTasks
  <1>2. CASE StartStateManager
    BY Zenon, <1>2 DEF StartStateManager
  <1>3. CASE StartAdmin
    BY Zenon, <1>3 DEF StartAdmin
  <1>4. CASE StartProxy
    BY Zenon, <1>4 DEF StartProxy, DropTask
  <1>5. CASE StartMetrics
    BY Zenon, <1>5 DEF StartMetrics
  <1>6. CASE FailedExits
    BY <1>6 DEF FailedExits
  <1>7. CASE ReportConfigured
    BY Zenon, <1>7 DEF ReportConfigured, StateManagerRuns, DropTask
  <1>8. CASE RunProxy
    BY Zenon, <1>8 DEF RunProxy
  <1>9. CASE WatchSignals
    BY Zenon, <1>9 DEF WatchSignals
  <1>10. CASE WaitReturns
    BY Zenon, <1>10 DEF WaitReturns
  <1>11. CASE WatchSecond
    BY Zenon, <1>0, <1>11 DEF WatchSecond
  <1>12. CASE StartFails
    BY Zenon, <1>12 DEF StartFails
  <1>13. CASE XdsLoaded
    BY Zenon, <1>13 DEF XdsLoaded, StateManagerRuns
  <1>14. CASE HandleReady
    BY Zenon, <1>0, <1>14 DEF HandleReady
  <1>15. CASE DrainCompletes
    BY Zenon, <1>15 DEF DrainCompletes
  <1>16. ASSUME NEW r \in QuitReq,
                HandleServerShutdown(r) \/ ShutdownNow(r) \/ QuitTimesOut(r)
         PROVE  StartInv'
    BY Zenon, <1>0, <1>16 DEF HandleServerShutdown, ShutdownNow, QuitTimesOut
  <1>17. ASSUME NEW k \in {"int", "term"}, Signal(k)
         PROVE  StartInv'
    BY Zenon, <1>17 DEF Signal
  <1>18. CASE UNCHANGED svars
    BY Zenon, <1>0, <1>18 DEF svars
  <1> QED
    BY Zenon, <1>1, <1>2, <1>3, <1>4, <1>5, <1>6, <1>7, <1>8, <1>9, <1>10, <1>11, <1>12,
       <1>13, <1>14, <1>15, <1>16, <1>17, <1>18 DEF StartupNext, Run

(* Only HandleReady changes the answer of the readiness server, and with the
   invariant an answer "ready" is true. *)
LEMMA ReadyStep ==
  StartInv /\ [StartupNext]_svars =>
    [sprobe' = "ready" /\ sprobe # "ready" /\ spos # "failed"
       => sloaded = Sources /\ sproxy # "none"]_svars
  <1> SUFFICES ASSUME StartInv, StartupNext,
                      sprobe' = "ready", sprobe # "ready", spos # "failed"
               PROVE  sloaded = Sources /\ sproxy # "none"
    OBVIOUS
  <1>1. HandleReady
    BY Zenon DEF StartupNext, Run, StartReadiness, StartStateManager, StartAdmin, StartProxy,
           StartMetrics, FailedExits, ReportConfigured, RunProxy, WatchSignals,
           WaitReturns, WatchSecond, StartFails, XdsLoaded, DrainCompletes,
           HandleServerShutdown, ShutdownNow, QuitTimesOut, Signal
  <1>2. spending = {} /\ spos \in Managed
    BY Zenon, <1>1 DEF HandleReady, StartInv, StartSteps, Started, Over, Managed
  <1> QED
    BY Zenon, <1>2 DEF StartInv, Sources

(* app::run registers its readiness tasks and drops them so that, unless run
   has failed, "ready" is answered only when every configured source is loaded
   and the gateway has been handed to the data plane. *)
THEOREM ReadyCorrect == StartupSpec => ReadyMeansConfigured
  <1>1. StartupSpec => []StartInv
    BY StartInitially, StartPreserved, PTL DEF StartupSpec
  <1>2. StartupSpec => [][StartupNext]_svars
    BY PTL DEF StartupSpec
  <1> QED
    BY <1>1, <1>2, ReadyStep, PTL DEF ReadyMeansConfigured

-----------------------------------------------------------------------------
(***************************************************************************)
(* The log.  Output, batch and channel together are one sequence in the order *)
(* of logging, and the request to stop divides it: what was promised lies  *)
(* before it.                                                              *)
(***************************************************************************)

LogTypes ==
  /\ logged \in [Logger -> Nat] /\ lblocked \subseteq Logger
  /\ lqueue \in Seq(Line \cup {Ask}) /\ lbatch \in Seq(Line) /\ lout \in Seq(Line)
  /\ lstop \in BOOLEAN
  /\ lphase \in {"recv", "drain", "write", "parked", "gone"}
  /\ lguard \in {"held", "asking", "waiting", "dropped", "given up"}

Earlier(x, y) == x # Ask /\ y # Ask /\ x[1] = y[1] => x[2] < y[2]

Sorted(s) == \A i, j \in 1..Len(s) : i < j => Earlier(s[i], s[j])
Before(s, u) == \A i \in 1..Len(s), j \in 1..Len(u) : Earlier(s[i], u[j])

(* A line that was sent is not newer than its thread's last one, and older if
   the last one still waits for room. *)
Numbered(x) == x # Ask => x[2] <= logged[x[1]] /\ (x[1] \in lblocked => x[2] < logged[x[1]])
AllNumbered(s) == \A i \in 1..Len(s) : Numbered(s[i])

(* Output, batch and channel together are in the order of logging. *)
LogOrder ==
  /\ Sorted(lout) /\ Sorted(lbatch) /\ Sorted(lqueue)
  /\ Before(lout, lbatch) /\ Before(lout, lqueue) /\ Before(lbatch, lqueue)
  /\ AllNumbered(lout) /\ AllNumbered(lbatch) /\ AllNumbered(lqueue)

(* The message of the guard is sent once and ends the worker. *)
NoAsk == \A i \in 1..Len(lqueue) : lqueue[i] # Ask
AskOnce ==
  /\ \A i, j \in 1..Len(lqueue) : lqueue[i] = Ask /\ lqueue[j] = Ask => i = j
  /\ lguard \in {"held", "asking"} => NoAsk /\ ~lstop /\ lphase \notin {"parked", "gone"} /\ lpromised = {}
  /\ lstop \/ lphase \in {"parked", "gone"} => NoAsk
  /\ lguard = "dropped" => lphase = "gone"
  /\ lphase \in {"recv", "parked", "gone"} => lbatch = <<>>

(* What was promised is out, lost with a failed write, in the batch, or in the
   channel before the message of the guard. *)
Ahead == {lqueue[i] : i \in {k \in 1..Len(lqueue) : \E j \in 1..Len(lqueue) : k < j /\ lqueue[j] = Ask}}
PromiseKept == lpromised \subseteq LinesOf(lout) \cup llost \cup LinesOf(lbatch) \cup Ahead

LogInv == LogTypes /\ LogOrder /\ AskOnce /\ PromiseKept

-----------------------------------------------------------------------------
(* The lines of a sequence are its elements but for the request to stop. *)
LEMMA LinesOfSeq ==
  ASSUME NEW S, NEW s \in Seq(S)
  PROVE  LinesOf(s) = {s[i] : i \in 1..Len(s)} \ {Ask}
  BY DEF LinesOf

(* A line leaves the channel. *)
LEMMA TakeHead ==
  ASSUME LogTypes, lqueue # <<>>, lqueue' = Tail(lqueue)
  PROVE  /\ lqueue' \in Seq(Line \cup {Ask}) /\ Head(lqueue) \in Line \cup {Ask}
         /\ Len(lqueue) \in Nat /\ Len(lqueue) >= 1 /\ Len(lqueue') = Len(lqueue) - 1
         /\ Head(lqueue) = lqueue[1]
         /\ \A i \in 1..Len(lqueue') : i + 1 \in 1..Len(lqueue) /\ lqueue'[i] = lqueue[i + 1]
         /\ \A i \in 2..Len(lqueue) : i - 1 \in 1..Len(lqueue') /\ lqueue'[i - 1] = lqueue[i]
  <1>1. lqueue \in Seq(Line \cup {Ask})
    BY Zenon DEF LogTypes
  <1>2. /\ lqueue' \in Seq(Line \cup {Ask}) /\ Head(lqueue) \in Line \cup {Ask}
        /\ Len(lqueue) \in Nat /\ Len(lqueue) >= 1 /\ Len(lqueue') = Len(lqueue) - 1
        /\ Head(lqueue) = lqueue[1]
        /\ \A i \in 1..Len(lqueue') : lqueue'[i] = lqueue[i + 1]
    BY <1>1
  <1>3. ASSUME NEW i \in 2..Len(lqueue)
        PROVE  i - 1 \in 1..Len(lqueue') /\ lqueue'[i - 1] = lqueue[i]
    <2>1. i - 1 \in 1..Len(lqueue') /\ (i - 1) + 1 = i
      BY <1>2
    <2> QED
      BY <1>2, <2>1
  <1> QED
    BY <1>2, <1>3

(* Taking the head does not disturb the order, and what was ahead of the
   guard's message still is, but for the head. *)
LEMMA TakeHeadOrder ==
  ASSUME LogTypes, LogOrder, lqueue # <<>>, lqueue' = Tail(lqueue)
  PROVE  /\ Sorted(lqueue') /\ Before(lout, lqueue') /\ Before(lbatch, lqueue')
         /\ \A i \in 1..Len(lqueue') : Earlier(Head(lqueue), lqueue'[i])
         /\ \A i \in 1..Len(lqueue') : Numbered(lqueue'[i])
         /\ Numbered(Head(lqueue))
         /\ \A i \in 1..Len(lout) : Earlier(lout[i], Head(lqueue))
         /\ \A i \in 1..Len(lbatch) : Earlier(lbatch[i], Head(lqueue))
  <1>1. /\ Len(lqueue) \in Nat /\ Len(lqueue) >= 1 /\ Len(lqueue') = Len(lqueue) - 1
        /\ Head(lqueue) = lqueue[1] /\ 1 \in 1..Len(lqueue)
        /\ \A i \in 1..Len(lqueue') : i + 1 \in 1..Len(lqueue) /\ lqueue'[i] = lqueue[i + 1]
    BY TakeHead
  <1>2. \A i \in 1..Len(lqueue') : i + 1 > 1
    BY <1>1
  <1>3. Sorted(lqueue')
    <2> SUFFICES ASSUME NEW i \in 1..Len(lqueue'), NEW j \in 1..Len(lqueue'), i < j
                 PROVE  Earlier(lqueue'[i], lqueue'[j])
      BY DEF Sorted
    <2>1. i + 1 < j + 1
      BY <1>1
    <2> QED
      BY <1>1, <2>1 DEF LogOrder, Sorted
  <1> QED
    BY <1>1, <1>2, <1>3 DEF LogOrder, Sorted, Before, AllNumbered

(* ... and the request to stop, which is sent once, comes nearer. *)
LEMMA TakeHeadAsk ==
  ASSUME LogTypes, AskOnce, lqueue # <<>>, lqueue' = Tail(lqueue)
  PROVE  /\ \A i, j \in 1..Len(lqueue') : lqueue'[i] = Ask /\ lqueue'[j] = Ask => i = j
         /\ Head(lqueue) = Ask => NoAsk' /\ Ahead = {}
         /\ NoAsk => NoAsk'
         /\ Ahead \subseteq Ahead' \cup {Head(lqueue)}
  <1>1. /\ Len(lqueue) \in Nat /\ Len(lqueue) >= 1 /\ Len(lqueue') = Len(lqueue) - 1
        /\ Head(lqueue) = lqueue[1] /\ 1 \in 1..Len(lqueue)
        /\ \A i \in 1..Len(lqueue') : i + 1 \in 1..Len(lqueue) /\ lqueue'[i] = lqueue[i + 1]
        /\ \A i \in 2..Len(lqueue) : i - 1 \in 1..Len(lqueue') /\ lqueue'[i - 1] = lqueue[i]
    BY TakeHead
  <1>2. ASSUME NEW i \in 1..Len(lqueue'), NEW j \in 1..Len(lqueue'), lqueue'[i] = Ask, lqueue'[j] = Ask
        PROVE  i = j
    <2>1. i + 1 = j + 1
      BY <1>1, <1>2 DEF AskOnce
    <2> QED
      BY <2>1
  <1>3. ASSUME Head(lqueue) = Ask PROVE NoAsk' /\ Ahead = {}
    <2>1. \A j \in 1..Len(lqueue) : lqueue[j] = Ask => j = 1
      BY <1>1, <1>3 DEF AskOnce
    <2>2. NoAsk'
      <3> SUFFICES ASSUME NEW i \in 1..Len(lqueue'), lqueue'[i] = Ask PROVE FALSE
        BY DEF NoAsk
      <3>1. i + 1 = 1
        BY <1>1, <2>1
      <3> QED
        BY <3>1, <1>1
    <2>3. Ahead = {}
      BY <1>1, <2>1 DEF Ahead
    <2> QED
      BY <2>2, <2>3
  <1>4. NoAsk => NoAsk'
    BY <1>1 DEF NoAsk
  <1>5. ASSUME NEW x \in Ahead PROVE x \in Ahead' \cup {Head(lqueue)}
    <2>1. PICK k \in 1..Len(lqueue), j \in 1..Len(lqueue) : x = lqueue[k] /\ k < j /\ lqueue[j] = Ask
      BY DEF Ahead
    <2>2. CASE k = 1
      BY <1>1, <2>1, <2>2
    <2>3. CASE k # 1
      <3>1. k \in 2..Len(lqueue) /\ j \in 2..Len(lqueue) /\ k - 1 < j - 1
        BY <1>1, <2>1, <2>3
      <3>2. /\ k - 1 \in 1..Len(lqueue') /\ lqueue'[k - 1] = x
            /\ j - 1 \in 1..Len(lqueue') /\ lqueue'[j - 1] = Ask
        BY <1>1, <2>1, <3>1
      <3> QED
        BY Zenon, <3>1, <3>2 DEF Ahead
    <2> QED
      BY <2>2, <2>3
  <1> QED
    BY <1>2, <1>3, <1>4, <1>5

(* Something is put at the end of the channel. *)
LEMMA PutLast ==
  ASSUME LogTypes, LogOrder, NEW x \in Line \cup {Ask}, lqueue' = Append(lqueue, x),
         \A i \in 1..Len(lqueue) : Earlier(lqueue[i], x),
         \A i \in 1..Len(lout) : Earlier(lout[i], x),
         \A i \in 1..Len(lbatch) : Earlier(lbatch[i], x)
  PROVE  /\ lqueue' \in Seq(Line \cup {Ask})
         /\ Len(lqueue) \in Nat /\ Len(lqueue') = Len(lqueue) + 1
         /\ \A i \in 1..Len(lqueue) : lqueue'[i] = lqueue[i]
         /\ lqueue'[Len(lqueue) + 1] = x
         /\ Sorted(lqueue') /\ Before(lout, lqueue') /\ Before(lbatch, lqueue')
  <1>1. lqueue \in Seq(Line \cup {Ask})
    BY Zenon DEF LogTypes
  <1>2. /\ lqueue' \in Seq(Line \cup {Ask})
        /\ Len(lqueue) \in Nat /\ Len(lqueue') = Len(lqueue) + 1
        /\ \A i \in 1..Len(lqueue) : lqueue'[i] = lqueue[i]
        /\ lqueue'[Len(lqueue) + 1] = x
    BY <1>1
  <1>3. \A i \in 1..Len(lqueue') : i \in 1..Len(lqueue) \/ i = Len(lqueue) + 1
    BY <1>2
  <1>4. \A i \in 1..Len(lqueue') : ~(Len(lqueue) + 1 < i)
    BY <1>2
  <1>5. Sorted(lqueue')
    BY <1>2, <1>3, <1>4 DEF Sorted, LogOrder
  <1> QED
    BY <1>2, <1>3, <1>5 DEF Before, LogOrder

(* Lines keep their numbers when a thread logs another one or gets through. *)
LEMMA NumbersKept ==
  ASSUME LogTypes, NEW t \in Logger, NEW x \in Line \cup {Ask}, Numbered(x),
         \/ logged' = logged /\ lblocked' \subseteq lblocked
         \/ t \notin lblocked /\ logged' = [logged EXCEPT ![t] = @ + 1] /\ lblocked' = lblocked \cup {t}
  PROVE  Numbered(x)'
  <1>1. logged \in [Logger -> Nat]
    BY Zenon DEF LogTypes
  <1>2. CASE x = Ask
    BY <1>2 DEF Numbered
  <1>3. CASE x # Ask
    <2>1. x[1] \in Logger /\ x[2] \in Nat
      BY Zenon, <1>3 DEF Line
    <2> QED
      BY <1>1, <1>3, <2>1 DEF Numbered
  <1> QED
    BY <1>2, <1>3

(* A thread hands over a line and waits for room. *)
LEMMA WriteVecKeeps == ASSUME LogInv, NEW t \in Logger, WriteVec(t) PROVE LogInv'
  <1>1. LogTypes /\ LogOrder /\ AskOnce /\ PromiseKept
    BY DEF LogInv
  <1>2. /\ t \notin lblocked /\ logged' = [logged EXCEPT ![t] = @ + 1] /\ lblocked' = lblocked \cup {t}
        /\ UNCHANGED <<lqueue, lbatch, lstop, lphase, lout, llost, lguard, lpromised>>
    BY DEF WriteVec, worker, guard
  <1>3. LogTypes'
    <2>a. logged \in [Logger -> Nat]
      BY Zenon, <1>1 DEF LogTypes
    <2>1. logged' \in [Logger -> Nat]
      BY <1>2, <2>a
    <2> QED
      BY Zenon, <1>1, <1>2, <2>1 DEF LogTypes
  <1>4. AllNumbered(lout)' /\ AllNumbered(lbatch)' /\ AllNumbered(lqueue)'
    <2>1. \A s \in {lout, lbatch, lqueue} : \A i \in 1..Len(s) : s[i] \in Line \cup {Ask}
      <3>1. lout \in Seq(Line) /\ lbatch \in Seq(Line) /\ lqueue \in Seq(Line \cup {Ask})
        BY Zenon, <1>1 DEF LogTypes
      <3>2. /\ \A i \in 1..Len(lout) : lout[i] \in Line
            /\ \A i \in 1..Len(lbatch) : lbatch[i] \in Line
            /\ \A i \in 1..Len(lqueue) : lqueue[i] \in Line \cup {Ask}
        BY <3>1
      <3> QED
        BY Zenon, <3>2
    <2>2. \A s \in {lout, lbatch, lqueue} : \A i \in 1..Len(s) : Numbered(s[i])
      BY <1>1 DEF LogOrder, AllNumbered
    <2>3. \A x \in Line \cup {Ask} : Numbered(x) => Numbered(x)'
      BY Zenon, <1>1, <1>2, NumbersKept
    <2> QED
      BY <1>2, <2>1, <2>2, <2>3 DEF AllNumbered
  <1>5. LogOrder'
    BY <1>1, <1>2, <1>4 DEF LogOrder, Sorted, Before
  <1> QED
    BY <1>1, <1>2, <1>3, <1>5 DEF LogInv, AskOnce, NoAsk, PromiseKept, Ahead, LinesOf

(* The line enters the channel. *)
LEMMA SentKeeps == ASSUME LogInv, NEW t \in Logger, Sent(t) PROVE LogInv'
  <1>1. LogTypes /\ LogOrder /\ AskOnce /\ PromiseKept
    BY DEF LogInv
  <1>2. /\ t \in lblocked /\ logged' = logged /\ lblocked' = lblocked \ {t}
        /\ UNCHANGED <<lbatch, lstop, lphase, lout, llost, lguard, lpromised>>
    BY Zenon DEF Sent, worker, guard
  <1>3. AllNumbered(lout)' /\ AllNumbered(lbatch)' /\ \A y : Numbered(y) => Numbered(y)'
    <2>1. \A y : Numbered(y) => Numbered(y)'
      BY <1>2 DEF Numbered
    <2>2. AllNumbered(lout) /\ AllNumbered(lbatch) /\ lout' = lout /\ lbatch' = lbatch
      BY Zenon, <1>1, <1>2 DEF LogOrder
    <2> QED
      BY <2>1, <2>2 DEF AllNumbered, Numbered
  <1>4. CASE lqueue' = lqueue
    <2>1. LogTypes' /\ LogOrder'
      BY Zenon, <1>1, <1>2, <1>3, <1>4 DEF LogTypes, LogOrder, Sorted, Before, AllNumbered, Numbered
    <2> QED
      BY <1>1, <1>2, <1>4, <2>1 DEF LogInv, AskOnce, NoAsk, PromiseKept, Ahead, LinesOf
  <1>5. CASE lphase # "gone" /\ lqueue' = Append(lqueue, <<t, logged[t]>>)
    <2> DEFINE x == <<t, logged[t]>>
    <2>1. x \in Line /\ x # Ask /\ x[1] = t /\ x[2] = logged[t]
      <3>1. logged[t] \in Nat
        BY Zenon, <1>1 DEF LogTypes
      <3>2. x \in Line
        BY <3>1 DEF Line
      <3> QED
        BY <3>2, LogAssumption
    <2> HIDE DEF x
    <2>2. \A y : Numbered(y) => Earlier(y, x)
      BY Zenon, <1>2, <2>1 DEF Numbered, Earlier
    <2>3. /\ lqueue' \in Seq(Line \cup {Ask})
          /\ Len(lqueue) \in Nat /\ Len(lqueue') = Len(lqueue) + 1
          /\ \A i \in 1..Len(lqueue) : lqueue'[i] = lqueue[i]
          /\ lqueue'[Len(lqueue) + 1] = x
          /\ Sorted(lqueue') /\ Before(lout, lqueue') /\ Before(lbatch, lqueue')
      <3>1. /\ \A i \in 1..Len(lqueue) : Earlier(lqueue[i], x)
            /\ \A i \in 1..Len(lout) : Earlier(lout[i], x)
            /\ \A i \in 1..Len(lbatch) : Earlier(lbatch[i], x)
        BY <1>1, <2>2 DEF LogOrder, AllNumbered
      <3>2. x \in Line \cup {Ask} /\ lqueue' = Append(lqueue, x)
        BY <1>5, <2>1 DEF x
      <3> QED
        BY <1>1, <3>1, <3>2, PutLast
    <2>4. \A i \in 1..Len(lqueue') : i \in 1..Len(lqueue) \/ i = Len(lqueue) + 1
      BY <2>3
    <2>5. logged[t] \in Nat
      BY Zenon, <1>1 DEF LogTypes
    <2>6. Numbered(x)'
      <3>1. x' = x
        BY Zenon, <1>2 DEF x
      <3> QED
        BY <1>2, <2>1, <2>5, <3>1 DEF Numbered
    <2>7. AllNumbered(lqueue)'
      <3>1. x' = x
        BY <1>2 DEF x
      <3> QED
        BY Zenon, <1>1, <1>2, <1>3, <2>3, <2>4, <2>6, <3>1 DEF LogOrder, AllNumbered, Numbered
    <2>8. LogOrder'
      BY <1>1, <1>2, <1>3, <2>3, <2>7 DEF LogOrder, Sorted, Before
    <2>9. LogTypes'
      BY Zenon, <1>1, <1>2, <2>3 DEF LogTypes
    <2>10. AskOnce'
      BY Zenon, <1>1, <1>2, <2>1, <2>3, <2>4 DEF AskOnce, NoAsk
    <2>11. \A i \in 1..Len(lqueue) : i \in 1..Len(lqueue')
      BY <2>3
    <2>12. Ahead \subseteq Ahead'
      BY <2>3, <2>11 DEF Ahead
    <2> QED
      BY <1>1, <1>2, <2>8, <2>9, <2>10, <2>12 DEF LogInv, PromiseKept, LinesOf
  <1> QED
    BY <1>4, <1>5 DEF Sent

(* The worker waits for the first message of a batch. *)
LEMMA RecvKeeps == ASSUME LogInv, Recv PROVE LogInv'
  <1>1. LogTypes /\ LogOrder /\ AskOnce /\ PromiseKept
    BY DEF LogInv
  <1>2. /\ lphase = "recv" /\ lqueue # <<>> /\ lqueue' = Tail(lqueue) /\ lbatch = <<>>
        /\ UNCHANGED <<logged, lblocked, lstop, lout, llost, lguard, lpromised>>
    BY <1>1 DEF Recv, guard, AskOnce
  <1>3. PICK x : x = Head(lqueue)
    OBVIOUS
  <1>4. lqueue' \in Seq(Line \cup {Ask}) /\ x \in Line \cup {Ask}
    BY <1>1, <1>2, <1>3, TakeHead
  <1>5. /\ Sorted(lqueue') /\ Before(lout, lqueue')
        /\ \A i \in 1..Len(lqueue') : Earlier(x, lqueue'[i])
        /\ \A i \in 1..Len(lqueue') : Numbered(lqueue'[i])
        /\ Numbered(x)
        /\ \A i \in 1..Len(lout) : Earlier(lout[i], x)
    BY <1>1, <1>2, <1>3, TakeHeadOrder
  <1>6. /\ \A i, j \in 1..Len(lqueue') : lqueue'[i] = Ask /\ lqueue'[j] = Ask => i = j
        /\ x = Ask => NoAsk' /\ Ahead = {}
        /\ NoAsk => NoAsk'
        /\ Ahead \subseteq Ahead' \cup {x}
    BY Zenon, <1>1, <1>2, <1>3, TakeHeadAsk
  <1>7. AllNumbered(lout)' /\ AllNumbered(lqueue)' /\ Sorted(lout)'
    BY Zenon, <1>1, <1>2, <1>5 DEF LogOrder, AllNumbered, Numbered, Sorted
  <1>8. CASE x = Ask /\ lphase' = "parked" /\ lbatch' = lbatch
    <2>1. LogTypes'
      BY Zenon, <1>1, <1>2, <1>4, <1>8 DEF LogTypes
    <2>2. Len(<<>>) = 0
      OBVIOUS
    <2>3. LogOrder'
      <3>1. Sorted(lbatch') /\ Before(lout, lbatch') /\ Before(lbatch', lqueue')
        BY <1>2, <1>8, <2>2 DEF Sorted, Before
      <3>2. AllNumbered(lbatch)'
        BY <1>2, <1>8, <2>2 DEF AllNumbered
      <3> QED
        BY Zenon, <1>2, <1>5, <1>7, <3>1, <3>2 DEF LogOrder
    <2>4. lguard \notin {"held", "asking"}
      <3>1. 1 \in 1..Len(lqueue) /\ lqueue[1] = Ask
        BY <1>1, <1>2, <1>3, <1>8, TakeHead
      <3> QED
        BY <1>1, <3>1 DEF AskOnce, NoAsk
    <2>5. AskOnce'
      BY <1>1, <1>2, <1>6, <1>8, <2>4 DEF AskOnce
    <2> QED
      BY <1>1, <1>2, <1>6, <1>8, <2>1, <2>3, <2>5 DEF LogInv, PromiseKept, LinesOf
  <1>9. CASE x # Ask /\ lphase' = "drain" /\ lbatch' = <<x>>
    <2>1. x \in Line /\ lbatch' \in Seq(Line) /\ Len(lbatch') = 1 /\ lbatch'[1] = x
      BY <1>4, <1>9
    <2>2. LogTypes'
      BY Zenon, <1>1, <1>2, <1>4, <1>9, <2>1 DEF LogTypes
    <2>3. \A i \in 1..Len(lbatch') : i = 1
      BY SMTT(30), <2>1
    <2>4. LogOrder'
      <3>1. Sorted(lbatch')
        BY <2>3 DEF Sorted
      <3>2. Before(lout, lbatch') /\ Before(lbatch', lqueue')
        BY Zenon, <1>5, <2>1, <2>3 DEF Before
      <3>3. AllNumbered(lbatch)'
        BY Zenon, <1>2, <1>5, <2>1, <2>3 DEF AllNumbered, Numbered
      <3> QED
        BY Zenon, <1>2, <1>5, <1>7, <3>1, <3>2, <3>3 DEF LogOrder
    <2>5. AskOnce'
      BY <1>1, <1>2, <1>6, <1>9 DEF AskOnce, NoAsk
    <2>6. LinesOf(lbatch') = {x}
      <3>1. LinesOf(lbatch') = {lbatch'[i] : i \in 1..Len(lbatch')} \ {Ask}
        BY <2>1, LinesOfSeq
      <3>2. 1 \in 1..Len(lbatch')
        BY <2>1
      <3> QED
        BY <1>9, <2>1, <2>3, <3>1, <3>2
    <2>7. LinesOf(lbatch) = {}
      BY <1>2 DEF LinesOf
    <2> QED
      BY <1>1, <1>2, <1>6, <2>2, <2>4, <2>5, <2>6, <2>7 DEF LogInv, PromiseKept
  <1> QED
    BY <1>3, <1>8, <1>9 DEF Recv

(* The worker takes what else is there. *)
LEMMA TryRecvKeeps == ASSUME LogInv, TryRecv PROVE LogInv'
  <1>1. LogTypes /\ LogOrder /\ AskOnce /\ PromiseKept
    BY DEF LogInv
  <1>2. /\ lphase = "drain" /\ lqueue # <<>> /\ lqueue' = Tail(lqueue)
        /\ UNCHANGED <<logged, lblocked, lphase, lout, llost, lguard, lpromised>>
    BY DEF TryRecv, guard
  <1>3. PICK x : x = Head(lqueue)
    OBVIOUS
  <1>4. lqueue' \in Seq(Line \cup {Ask}) /\ x \in Line \cup {Ask}
    BY Zenon, <1>1, <1>2, <1>3, TakeHead
  <1>5. /\ Sorted(lqueue') /\ Before(lout, lqueue') /\ Before(lbatch, lqueue')
        /\ \A i \in 1..Len(lqueue') : Earlier(x, lqueue'[i])
        /\ \A i \in 1..Len(lqueue') : Numbered(lqueue'[i])
        /\ Numbered(x)
        /\ \A i \in 1..Len(lout) : Earlier(lout[i], x)
        /\ \A i \in 1..Len(lbatch) : Earlier(lbatch[i], x)
    BY <1>1, <1>2, <1>3, TakeHeadOrder
  <1>6. /\ \A i, j \in 1..Len(lqueue') : lqueue'[i] = Ask /\ lqueue'[j] = Ask => i = j
        /\ x = Ask => NoAsk' /\ Ahead = {}
        /\ NoAsk => NoAsk'
        /\ Ahead \subseteq Ahead' \cup {x}
    BY Zenon, <1>1, <1>2, <1>3, TakeHeadAsk
  <1>7. AllNumbered(lout)' /\ AllNumbered(lqueue)' /\ Sorted(lout)'
    BY <1>1, <1>2, <1>5 DEF LogOrder, AllNumbered, Numbered, Sorted
  <1>8. CASE x = Ask /\ lstop' = TRUE /\ lbatch' = lbatch
    <2>1. LogTypes'
      BY Zenon, <1>1, <1>2, <1>4, <1>8 DEF LogTypes
    <2>2. LogOrder'
      BY Zenon, <1>1, <1>2, <1>5, <1>7, <1>8 DEF LogOrder, Sorted, Before, AllNumbered, Numbered
    <2>3. lguard \notin {"held", "asking"}
      <3>1. 1 \in 1..Len(lqueue) /\ lqueue[1] = Ask
        BY <1>1, <1>2, <1>3, <1>8, TakeHead
      <3> QED
        BY <1>1, <3>1 DEF AskOnce, NoAsk
    <2>4. AskOnce'
      BY <1>1, <1>2, <1>6, <1>8, <2>3 DEF AskOnce
    <2> QED
      <3>1. PromiseKept'
        BY <1>1, <1>2, <1>6, <1>8 DEF PromiseKept, LinesOf
      <3> QED
        BY Zenon, <2>1, <2>2, <2>4, <3>1 DEF LogInv
  <1>9. CASE x # Ask /\ lstop' = lstop /\ lbatch' = Append(lbatch, x)
    <2>1. x \in Line /\ lbatch \in Seq(Line)
      BY Zenon, <1>1, <1>4, <1>9 DEF LogTypes
    <2>2. /\ lbatch' \in Seq(Line) /\ Len(lbatch) \in Nat /\ Len(lbatch') = Len(lbatch) + 1
          /\ \A i \in 1..Len(lbatch) : lbatch'[i] = lbatch[i]
          /\ lbatch'[Len(lbatch) + 1] = x
      BY <1>9, <2>1
    <2>3. /\ \A i \in 1..Len(lbatch') : i \in 1..Len(lbatch) \/ i = Len(lbatch) + 1
          /\ \A i \in 1..Len(lbatch') : ~(Len(lbatch) + 1 < i)
          /\ \A i \in 1..Len(lbatch) : i \in 1..Len(lbatch')
          /\ Len(lbatch) + 1 \in 1..Len(lbatch')
      BY <2>2
    <2>4. LogTypes'
      BY Zenon, <1>1, <1>2, <1>4, <1>9, <2>2 DEF LogTypes
    <2>5. Sorted(lbatch') /\ Before(lout, lbatch') /\ Before(lbatch', lqueue')
      BY Zenon, <1>1, <1>5, <2>2, <2>3 DEF LogOrder, Sorted, Before
    <2>6. AllNumbered(lbatch)'
      BY Zenon, <1>1, <1>2, <1>5, <2>2, <2>3 DEF LogOrder, AllNumbered, Numbered
    <2>7. LogOrder'
      BY Zenon, <1>2, <1>5, <1>7, <2>5, <2>6 DEF LogOrder, Before, Sorted
    <2>8. AskOnce'
      BY Zenon, <1>1, <1>2, <1>6, <1>9 DEF AskOnce, NoAsk
    <2>9. x \in LinesOf(lbatch') /\ LinesOf(lbatch) \subseteq LinesOf(lbatch')
      <3>1. LinesOf(lbatch') = {lbatch'[i] : i \in 1..Len(lbatch')} \ {Ask}
        BY <2>2, LinesOfSeq
      <3>2. LinesOf(lbatch) = {lbatch[i] : i \in 1..Len(lbatch)} \ {Ask}
        BY <2>1, LinesOfSeq
      <3> QED
        BY <1>9, <2>2, <2>3, <3>1, <3>2
    <2> QED
      BY <1>1, <1>2, <1>6, <2>4, <2>7, <2>8, <2>9 DEF LogInv, PromiseKept
  <1> QED
    BY Zenon, <1>3, <1>8, <1>9 DEF TryRecv

(* A vectored write moves the front of the batch to the end of the output. *)
LEMMA WriteVectoredKeeps ==
  ASSUME LogInv, NEW n \in 1..GroupSize, WriteVectored(n)
  PROVE  LogInv'
  <1>1. LogTypes /\ LogOrder /\ AskOnce /\ PromiseKept
    BY DEF LogInv
  <1>2. /\ lphase = "write" /\ n \in 1..Len(lbatch)
        /\ lout' = lout \o SubSeq(lbatch, 1, n) /\ lbatch' = SubSeq(lbatch, n + 1, Len(lbatch))
        /\ UNCHANGED <<logged, lblocked, lqueue, lstop, lphase, llost, lguard, lpromised>>
    BY DEF WriteVectored, Unwritten, guard
  <1>3. /\ lout \in Seq(Line) /\ lbatch \in Seq(Line) /\ Len(lout) \in Nat /\ Len(lbatch) \in Nat
        /\ n \in Nat /\ 1 <= n /\ n <= Len(lbatch)
    <2>1. lout \in Seq(Line) /\ lbatch \in Seq(Line)
      BY Zenon, <1>1 DEF LogTypes
    <2>2. Len(lout) \in Nat /\ Len(lbatch) \in Nat
      BY <2>1
    <2> QED
      BY <1>2, <2>1, <2>2
  <1>4. PICK front : front = SubSeq(lbatch, 1, n)
    BY Zenon
  <1>5. front \in Seq(Line) /\ Len(front) = n /\ \A i \in 1..n : front[i] = lbatch[i]
    <2>1. \A i \in 1..n : lbatch[i] \in Line
      BY <1>3
    <2> QED
      BY <1>3, <1>4, <2>1
  <1>6. /\ lbatch' \in Seq(Line) /\ Len(lbatch') = Len(lbatch) - n
        /\ \A i \in 1..Len(lbatch') : i + n \in 1..Len(lbatch) /\ lbatch'[i] = lbatch[i + n]
    <2>1. \A i \in 1..Len(lbatch) : lbatch[i] \in Line
      BY <1>3
    <2> QED
      BY SMTT(30), <1>2, <1>3, <2>1
  <1>7. /\ lout' \in Seq(Line) /\ Len(lout') = Len(lout) + n
        /\ \A i \in 1..Len(lout) : lout'[i] = lout[i]
        /\ \A i \in 1..n : lout'[Len(lout) + i] = lbatch[i]
    BY <1>2, <1>3, <1>4, <1>5
  <1>8. \A i \in 1..Len(lout') :
          \/ i \in 1..Len(lout) /\ lout'[i] = lout[i]
          \/ i > Len(lout) /\ i - Len(lout) \in 1..n /\ lout'[i] = lbatch[i - Len(lout)]
    <2> SUFFICES ASSUME NEW i \in 1..Len(lout'), i \notin 1..Len(lout)
                 PROVE  i > Len(lout) /\ i - Len(lout) \in 1..n /\ lout'[i] = lbatch[i - Len(lout)]
      BY <1>7
    <2>1. i > Len(lout) /\ i - Len(lout) \in 1..n /\ Len(lout) + (i - Len(lout)) = i
      BY <1>3, <1>7
    <2> QED
      BY <1>7, <2>1
  <1>9. 1..n \subseteq 1..Len(lbatch)
    BY <1>3
  <1>10. Sorted(lout')
    <2> SUFFICES ASSUME NEW i \in 1..Len(lout'), NEW j \in 1..Len(lout'), i < j
                 PROVE  Earlier(lout'[i], lout'[j])
      BY Zenon DEF Sorted
    <2>1. CASE j \in 1..Len(lout)
      <3>1. i \in 1..Len(lout)
        BY <1>3, <1>7, <2>1
      <3> QED
        BY Zenon, <1>1, <1>7, <2>1, <3>1 DEF LogOrder, Sorted
    <2>2. CASE i \in 1..Len(lout) /\ j \notin 1..Len(lout)
      BY Zenon, <1>1, <1>7, <1>8, <1>9, <2>2 DEF LogOrder, Before
    <2>3. CASE i \notin 1..Len(lout) /\ j \notin 1..Len(lout)
      <3>1. i - Len(lout) < j - Len(lout)
        BY <1>3, <1>7
      <3> QED
        BY Zenon, <1>1, <1>8, <1>9, <2>3, <3>1 DEF LogOrder, Sorted
    <2> QED
      BY <2>1, <2>2, <2>3
  <1>11. Sorted(lbatch')
    <2> SUFFICES ASSUME NEW i \in 1..Len(lbatch'), NEW j \in 1..Len(lbatch'), i < j
                 PROVE  Earlier(lbatch'[i], lbatch'[j])
      BY DEF Sorted
    <2>1. i + n < j + n
      BY <1>3, <1>6
    <2> QED
      BY Zenon, <1>1, <1>6, <2>1 DEF LogOrder, Sorted
  <1>12. Before(lout', lbatch')
    <2> SUFFICES ASSUME NEW i \in 1..Len(lout'), NEW j \in 1..Len(lbatch')
                 PROVE  Earlier(lout'[i], lbatch'[j])
      BY DEF Before
    <2>1. CASE i \in 1..Len(lout)
      BY Zenon, <1>1, <1>6, <1>7, <2>1 DEF LogOrder, Before
    <2>2. CASE i \notin 1..Len(lout)
      <3>1. i - Len(lout) < j + n
        BY <1>3, <1>6, <1>8, <2>2
      <3> QED
        BY Zenon, <1>1, <1>6, <1>8, <1>9, <2>2, <3>1 DEF LogOrder, Sorted
    <2> QED
      BY <2>1, <2>2
  <1>13. Before(lout', lqueue) /\ Before(lbatch', lqueue)
    BY Zenon, <1>1, <1>6, <1>8, <1>9 DEF LogOrder, Before
  <1>14. AllNumbered(lout)' /\ AllNumbered(lbatch)' /\ AllNumbered(lqueue)'
    <2>1. AllNumbered(lqueue)'
      BY <1>1, <1>2 DEF LogOrder, AllNumbered, Numbered
    <2>2. AllNumbered(lbatch)'
      BY Zenon, <1>1, <1>2, <1>6 DEF LogOrder, AllNumbered, Numbered
    <2>3. AllNumbered(lout)'
      BY ZenonT(30), <1>1, <1>2, <1>8, <1>9 DEF LogOrder, AllNumbered, Numbered
    <2> QED
      BY Zenon, <2>1, <2>2, <2>3
  <1>15. LogOrder'
    BY Zenon, <1>1, <1>2, <1>10, <1>11, <1>12, <1>13, <1>14 DEF LogOrder, Sorted, Before
  <1>16. LogTypes'
    BY Zenon, <1>1, <1>2, <1>6, <1>7 DEF LogTypes
  <1>17. AskOnce'
    BY <1>1, <1>2 DEF AskOnce, NoAsk
  <1>18. LinesOf(lout) \cup LinesOf(lbatch) \subseteq LinesOf(lout') \cup LinesOf(lbatch')
    <2>1. /\ LinesOf(lout) = {lout[i] : i \in 1..Len(lout)} \ {Ask}
          /\ LinesOf(lbatch) = {lbatch[i] : i \in 1..Len(lbatch)} \ {Ask}
      BY <1>3, LinesOfSeq
    <2>2. /\ LinesOf(lout') = {lout'[i] : i \in 1..Len(lout')} \ {Ask}
          /\ LinesOf(lbatch') = {lbatch'[i] : i \in 1..Len(lbatch')} \ {Ask}
      BY Zenon, <1>6, <1>7, LinesOfSeq
    <2>3. \A i \in 1..Len(lout) : i \in 1..Len(lout') /\ lout'[i] = lout[i]
      BY <1>3, <1>7
    <2>4. \A i \in 1..n : Len(lout) + i \in 1..Len(lout') /\ lout'[Len(lout) + i] = lbatch[i]
      BY <1>3, <1>7
    <2>5. ASSUME NEW i \in 1..Len(lbatch), i \notin 1..n
          PROVE  i - n \in 1..Len(lbatch') /\ lbatch'[i - n] = lbatch[i]
      <3>1. i - n \in 1..Len(lbatch') /\ (i - n) + n = i
        BY <1>3, <1>6, <2>5
      <3> QED
        BY Zenon, <1>6, <3>1
    <2> QED
      BY Zenon, <2>1, <2>2, <2>3, <2>4, <2>5
  <1> QED
    BY ZenonT(30), <1>1, <1>2, <1>15, <1>16, <1>17, <1>18 DEF LogInv, PromiseKept, Ahead

(* The guard puts its request to stop behind the lines that are queued. *)
LEMMA AskedKeeps == ASSUME LogInv, Asked PROVE LogInv'
  <1>1. LogTypes /\ LogOrder /\ AskOnce /\ PromiseKept
    BY DEF LogInv
  <1>2. /\ lguard = "asking" /\ lguard' = "waiting" /\ lqueue' = Append(lqueue, Ask)
        /\ lpromised' = LinesOf(lqueue) \cup LinesOf(lbatch)
        /\ UNCHANGED <<logged, lblocked, lbatch, lstop, lphase, lout, llost>>
    BY Zenon DEF Asked, worker
  <1>3. /\ lqueue' \in Seq(Line \cup {Ask})
        /\ Len(lqueue) \in Nat /\ Len(lqueue') = Len(lqueue) + 1
        /\ \A i \in 1..Len(lqueue) : lqueue'[i] = lqueue[i]
        /\ lqueue'[Len(lqueue) + 1] = Ask
        /\ Sorted(lqueue') /\ Before(lout, lqueue') /\ Before(lbatch, lqueue')
    <2>1. \A y : Earlier(y, Ask)
      BY DEF Earlier
    <2>2. Ask \in Line \cup {Ask}
      OBVIOUS
    <2> QED
      BY <1>1, <1>2, <2>1, <2>2, PutLast
  <1>4. /\ \A i \in 1..Len(lqueue') : i \in 1..Len(lqueue) \/ i = Len(lqueue) + 1
        /\ \A i \in 1..Len(lqueue) : i \in 1..Len(lqueue') /\ i < Len(lqueue) + 1
        /\ Len(lqueue) + 1 \in 1..Len(lqueue')
    BY <1>3
  <1>5. AllNumbered(lout)' /\ AllNumbered(lbatch)' /\ AllNumbered(lqueue)'
    BY Zenon, <1>1, <1>2, <1>3, <1>4 DEF LogOrder, AllNumbered, Numbered
  <1>6. LogOrder'
    BY Zenon, <1>1, <1>2, <1>3, <1>5 DEF LogOrder, Sorted, Before
  <1>7. LogTypes'
    BY Zenon, <1>1, <1>2, <1>3 DEF LogTypes
  <1>8. AskOnce'
    BY Zenon, <1>1, <1>2, <1>3, <1>4 DEF AskOnce, NoAsk
  <1>9. LinesOf(lqueue) \subseteq Ahead'
    <2>1. LinesOf(lqueue) = {lqueue[i] : i \in 1..Len(lqueue)} \ {Ask}
      BY Zenon, <1>1, LinesOfSeq DEF LogTypes
    <2> QED
      BY <1>3, <1>4, <2>1 DEF Ahead
  <1> QED
    BY <1>2, <1>6, <1>7, <1>8, <1>9 DEF LogInv, PromiseKept

(* Every step of the threads, the worker and the guard keeps the invariant. *)
LEMMA LogInvStep == LogInv /\ [LogNext]_lvars => LogInv'
  <1> SUFFICES ASSUME LogInv, [LogNext]_lvars PROVE LogInv'
    OBVIOUS
  <1>1. LogTypes /\ LogOrder /\ AskOnce /\ PromiseKept
    BY Zenon DEF LogInv
  <1>2. CASE EndBatch \/ Flushed \/ DropGuard \/ Meet \/ GiveUpAsking \/ UNCHANGED lvars
    <2>1. UNCHANGED <<logged, lblocked, lqueue, lbatch, lout, llost, lpromised>>
      BY Zenon, <1>2 DEF EndBatch, Flushed, DropGuard, Meet, GiveUpAsking, lvars, worker, guard
    <2>2. LogTypes'
      BY ZenonT(30), <1>1, <1>2, <2>1
         DEF LogTypes, EndBatch, Flushed, DropGuard, Meet, GiveUpAsking, lvars, worker, guard
    <2>3. LogOrder'
      BY <1>1, <2>1 DEF LogOrder, Sorted, Before, AllNumbered, Numbered
    <2>4. NoAsk' <=> NoAsk
      BY <2>1 DEF NoAsk
    <2>5. AskOnce'
      <3>1. \A i, j \in 1..Len(lqueue') : lqueue'[i] = Ask /\ lqueue'[j] = Ask => i = j
        BY Zenon, <1>1, <2>1 DEF AskOnce
      <3>2. CASE EndBatch \/ Flushed
        BY <1>1, <2>1, <2>4, <3>1, <3>2 DEF AskOnce, EndBatch, Flushed, guard
      <3>3. CASE DropGuard \/ GiveUpAsking
        <4>1. /\ UNCHANGED <<lstop, lphase, lbatch>>
              /\ lguard' \in {"held", "asking"} => lguard \in {"held", "asking"}
              /\ lguard' # "dropped"
          BY Zenon, <3>3 DEF DropGuard, GiveUpAsking, worker
        <4>2. lpromised' = lpromised
          BY <2>1
        <4> QED
          BY <1>1, <4>1, <4>2, <2>4, <3>1 DEF AskOnce
      <3>4. CASE Meet
        BY Zenon, <1>1, <2>1, <2>4, <3>1, <3>4 DEF AskOnce, Meet
      <3>5. CASE UNCHANGED lvars
        BY ZenonT(30), <1>1, <2>1, <2>4, <3>1, <3>5 DEF AskOnce, lvars, worker, guard
      <3> QED
        BY <1>2, <3>2, <3>3, <3>4, <3>5
    <2> QED
      BY <1>1, <2>1, <2>2, <2>3, <2>5 DEF LogInv, PromiseKept, Ahead
  <1>3. CASE WriteFails
    <2>1. /\ llost' = llost \cup LinesOf(lbatch) /\ lbatch' = <<>> /\ lstop' = FALSE /\ lphase' = "recv"
          /\ lphase = "write"
          /\ UNCHANGED <<logged, lblocked, lqueue, lout, lguard, lpromised>>
      BY <1>3 DEF WriteFails, guard
    <2>2. LogTypes'
      <3>1. <<>> \in Seq(Line)
        OBVIOUS
      <3> QED
        BY Zenon, <1>1, <2>1, <3>1 DEF LogTypes
    <2>3. LogOrder'
      <3>1. Len(<<>>) = 0
        OBVIOUS
      <3>2. Sorted(lbatch') /\ Before(lout, lbatch') /\ Before(lbatch', lqueue)
        BY <2>1, <3>1 DEF Sorted, Before
      <3>3. AllNumbered(lbatch)'
        BY <2>1, <3>1 DEF AllNumbered
      <3>4. AllNumbered(lout)' /\ AllNumbered(lqueue)'
        BY Zenon, <1>1, <2>1 DEF LogOrder, AllNumbered, Numbered
      <3> QED
        BY Zenon, <1>1, <2>1, <3>2, <3>3, <3>4 DEF LogOrder
    <2>4. AskOnce'
      BY <1>1, <2>1 DEF AskOnce, NoAsk
    <2> QED
      BY ZenonT(30), <1>1, <2>1, <2>2, <2>3, <2>4 DEF LogInv, PromiseKept, Ahead
  <1> QED
    BY <1>2, <1>3, WriteVecKeeps, SentKeeps, RecvKeeps, TryRecvKeeps, WriteVectoredKeeps, AskedKeeps DEF LogNext

(* The lines of every thread are written in the order they were logged, and
   when the guard has been answered all lines sent before its request are
   written or were given up by a failed write, for any number of threads and
   lines and any capacity (Worker::work, NonBlocking, WorkerGuard::drop). *)
THEOREM LinesCorrect == LogSpec => []LinesFlushedInOrder
  <1>1. LogInit => LogInv
    <2> SUFFICES ASSUME LogInit PROVE LogInv
      OBVIOUS
    <2>1. LogTypes
      <3>1. <<>> \in Seq(Line) /\ <<>> \in Seq(Line \cup {Ask})
        OBVIOUS
      <3>2. [t \in Logger |-> 0] \in [Logger -> Nat]
        OBVIOUS
      <3> QED
        BY Zenon, <3>1, <3>2 DEF LogInit, LogTypes
    <2>2. LogOrder
      BY DEF LogInit, LogOrder, Sorted, Before, AllNumbered
    <2>3. AskOnce /\ PromiseKept
      BY DEF LogInit, AskOnce, NoAsk, PromiseKept
    <2> QED
      BY <2>1, <2>2, <2>3 DEF LogInv
  <1>2. LogInv => LinesFlushedInOrder
    <2> SUFFICES ASSUME LogInv PROVE LinesFlushedInOrder
      OBVIOUS
    <2>1. lout \in Seq(Line) /\ Sorted(lout)
      BY Zenon DEF LogInv, LogTypes, LogOrder
    <2>2. DOMAIN lout = 1..Len(lout) /\ \A i \in 1..Len(lout) : lout[i] # Ask
      BY <2>1, LogAssumption
    <2>3. ASSUME lguard = "dropped" PROVE lpromised \subseteq LinesOf(lout) \cup llost
      <3>1. NoAsk /\ lbatch = <<>>
        BY <2>3 DEF LogInv, AskOnce
      <3>2. Ahead = {} /\ LinesOf(lbatch) = {}
        BY <3>1 DEF NoAsk, Ahead, LinesOf
      <3> QED
        BY <3>2 DEF LogInv, PromiseKept
    <2> QED
      BY <2>1, <2>2, <2>3 DEF LinesFlushedInOrder, Sorted, Earlier
  <1> QED
    BY <1>1, <1>2, LogInvStep, PTL DEF LogSpec
=============================================================================
