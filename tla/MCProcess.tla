----------------------------- MODULE MCProcess -----------------------------
(***************************************************************************)
(* The life of the process, side by side: its start, its drain, the local  *)
(* configuration file, the workload certificate and the writer of the log. *)
(* In a behaviour one of the five runs.  Meanwhile no signal has come for  *)
(* the drain, no file is configured and nobody needs a certificate, so     *)
(* that fairness asks nothing of them; the start and the log, of which     *)
(* only safety is asked, stay in an initial state.                         *)
(***************************************************************************)
EXTENDS Shutdown, Startup, LogWriter, MCLocalConfig, CaClient

VARIABLE part

MCAsk == <<"Shutdown", 0>>
Me == [td |-> "cluster", sa |-> "gw"]
Other == [td |-> "cluster", sa |-> "app"]
Foreign == [td |-> "else", sa |-> "app"]
MCPeers == {[trusted |-> TRUE, ids |-> {Other}], [trusted |-> TRUE, ids |-> {Foreign}],
            [trusted |-> FALSE, ids |-> {Other}]}
MCWanted == {Other}

NoFileConfigured ==
    /\ lhist = <<"empty">> /\ ltask = [at |-> "exited", got |-> 0]
    /\ NothingLoaded

NobodyNeedsCertificate ==
    /\ caFails = FALSE
    /\ NothingFetched
    /\ fetcher = [at |-> "sleeping", since |-> Skew, tick |-> Skew + Period]
    /\ user = [u \in User |-> [NewUser EXCEPT !.at = "done"]]

ProcessInit ==
    /\ part \in {"drain", "start", "log", "file", "certificate"}
    /\ Init
    /\ part # "start" => scfg = [xds |-> FALSE, local |-> FALSE]
    /\ StartupInit
    /\ LogInit
    /\ IF part = "file" THEN LocalInit ELSE NoFileConfigured
    /\ IF part = "certificate" THEN CaInit ELSE NobodyNeedsCertificate

ProcessNext ==
    /\ UNCHANGED part
    /\ \/ part = "drain" /\ Next /\ UNCHANGED <<svars, lvars, localVars, caVars>>
       \/ part = "start" /\ StartupNext /\ UNCHANGED <<vars, lvars, localVars, caVars>>
       \/ part = "log" /\ LogNext /\ UNCHANGED <<vars, svars, localVars, caVars>>
       \/ part = "file" /\ LocalNext /\ UNCHANGED <<vars, svars, lvars, caVars>>
       \/ part = "certificate" /\ CaNext /\ UNCHANGED <<vars, svars, lvars, localVars>>

ProcessSpec ==
    /\ ProcessInit /\ [][ProcessNext]_<<vars, svars, lvars, localVars, caVars, part>>
    /\ Fairness /\ LocalFairness /\ CaFairness
=============================================================================
