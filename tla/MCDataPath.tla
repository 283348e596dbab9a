----------------------------- MODULE MCDataPath -----------------------------
(***************************************************************************)
(* Requests and connections on their way through the proxy, side by side:  *)
(* an HTTP request with its retries, the pool of upstream connections, a   *)
(* connection carried as bytes and an MCP session.  In a behaviour one of  *)
(* the four runs; of the others the request is answered, the connection is *)
(* closed, the pool is empty and the session is not open, so that fairness *)
(* asks nothing of them.                                                   *)
(***************************************************************************)
EXTENDS HttpRequest, HyperPool, MCTcpTunnel, McpRelay

(* The backends of the MCP session, its rules and names nobody has. *)
ToolName == <<"r", "_", "x">>
One == [name |-> <<"a">>, kind |-> "mcp", tools |-> {ToolName, <<"x">>}, prompts |-> {<<"p">>}]
Two == [name |-> <<"a", "r">>, kind |-> "openapi", tools |-> {<<"x">>}, prompts |-> {<<"q">>}]
MCBackends == {<<One, Two>>, <<One>>}
MCRules == {{}, {{{<<"tool", <<"a">>, <<"x">>>>}}}, {{{<<"tool", <<"a", "r">>, <<"x">>>>}, {}}}}
MCOther == {<<"x">>, <<"b", "_", "x">>}

VARIABLE part

PathInit ==
    /\ part \in {"http", "pool", "tunnel", "mcp"}
    /\ IF part = "http" THEN HttpInit
       ELSE cfg = (CHOOSE c \in Config : ~c.timeout) /\ pc = "done" /\ Untouched
    /\ IF part = "pool" THEN PoolInit
       ELSE version = "Auto" /\ alpn = "h1" /\ rq = Requests("done") /\ Unused
    /\ IF part = "tunnel" THEN TunnelInit
       ELSE tconn = Connection("gone", "closed") /\ NothingCopied
    /\ part # "mcp" => backend = <<One>> /\ policies = {}
    /\ McpInit

PathNext ==
    /\ UNCHANGED part
    /\ \/ part = "http" /\ HttpNext /\ UNCHANGED <<poolVars, tunnelVars, mcpVars>>
       \/ part = "pool" /\ PoolNext /\ UNCHANGED <<httpVars, tunnelVars, mcpVars>>
       \/ part = "tunnel" /\ TunnelNext /\ UNCHANGED <<httpVars, poolVars, mcpVars>>
       \/ part = "mcp" /\ McpNext /\ UNCHANGED <<httpVars, poolVars, tunnelVars>>

PathSpec ==
    /\ PathInit /\ [][PathNext]_<<httpVars, poolVars, tunnelVars, mcpVars, part>>
    /\ HttpFairness /\ PoolFairness /\ TunnelFairness /\ McpFairness
=============================================================================
