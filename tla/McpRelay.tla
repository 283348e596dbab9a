------------------------------ MODULE McpRelay ------------------------------
(***************************************************************************)
(* One MCP session over SSE.  A GET opens the session (sse_get_handler),   *)
(* POSTs put the client's messages into its channel (sse_post_handler),    *)
(* the session task runs the handshake and then serves the Relay, which    *)
(* fans out to the targets of the backend through a ConnectionPool behind  *)
(* one write lock.  A target may ask the client something while a call of  *)
(* the client is in progress (PeerClientHandler).                          *)
(*                                                                         *)
(* Sessions share no state, so one is modelled.  Names are sequences of    *)
(* characters because routing splits them.                                 *)
(***************************************************************************)
EXTENDS Naturals, Sequences, FiniteSets

CONSTANTS
    McpReq,          \* the requests the client may send after the handshake
    Backends,     \* the backends: sequences of [name, kind, tools, prompts]
    RuleChoices,  \* the authorization policies: sets of rule sets
    OtherNames,   \* names a client may use without having listed them
    ChanCap,      \* capacity of the channel from the client (64 in the code)
    PeerNests     \* the client answers a target only after its other calls

Delimiter == "_"
Hello == "hello"      \* the initialize request of the handshake
Nobody == "nobody"

ASSUME McpAssumption ==
    /\ Hello \notin McpReq /\ Nobody \notin McpReq
    /\ ChanCap \in Nat \ {0} /\ PeerNests \in BOOLEAN

VARIABLES
    backend, policies,  \* what the session's Relay was created with
    client,      \* "new", "connected" or "gone": the receiver of the events
    registered,  \* the session is in sse_txs
    inbox,       \* from_client: messages accepted and not yet read
    serve,       \* the session task
    byName,      \* by_name: the connected targets
    pool,        \* who holds the write lock of the pool
    calls,          \* the client's requests
    listed       \* what the client learned from lists, with its true owner

mcpVars == <<backend, policies, client, registered, inbox, serve, byName,
             pool, calls, listed>>

Everyone == McpReq \cup {Hello}
TargetAt == {backend[i] : i \in DOMAIN backend}
NoOwner == [target |-> <<>>, item |-> <<>>]
NoRequest == [at |-> "idle", op |-> "none", kind |-> "none", name |-> <<>>,
              own |-> NoOwner, target |-> <<>>, item |-> <<>>, res |-> "none"]

(* Relay::new: one target only, then names carry no prefix.                *)
HasDefault == Len(backend) = 1

\* A variant of SplitOnce: split at the last delimiter
SplitAtLast(name) ==
    LET at == {i \in DOMAIN name : name[i] = Delimiter}
    IN  IF at = {} THEN <<>>
        ELSE LET i == CHOOSE i \in at : \A j \in at : j <= i
             IN  <<SubSeq(name, 1, i - 1), SubSeq(name, i + 1, Len(name))>>

(* str::split_once(DELIMITER): the first delimiter, or nothing.            *)
SplitOnce(name) ==
    LET at == {i \in DOMAIN name : name[i] = Delimiter}
    IN  IF at = {} THEN <<>>
        ELSE LET i == CHOOSE i \in at : \A j \in at : i <= j
             IN  <<SubSeq(name, 1, i - 1), SubSeq(name, i + 1, Len(name))>>

ParseResourceName(name) ==
    IF HasDefault THEN <<backend[1].name, name>> ELSE SplitOnce(name)

ResourceName(target, name) ==
    IF HasDefault THEN name ELSE target \o <<Delimiter>> \o name

(* RuleSets::validate: a rule is the set of resources it evaluates to true *)
(* for; a rule that fails to evaluate is false.                            *)
Validate(kind, target, item) ==
    \/ policies = {}
    \/ \E rules \in policies :
          \/ rules = {}
          \/ \E rule \in rules : <<kind, target, item>> \in rule

McpInit ==
    /\ backend \in Backends
    /\ policies \in RuleChoices
    /\ client = "new"
    /\ registered = FALSE
    /\ inbox = <<>>
    /\ serve = "none"
    /\ byName = {}
    /\ pool = Nobody
    /\ calls = [r \in Everyone |-> NoRequest]
    /\ listed = {}

-----------------------------------------------------------------------------
(* The HTTP handlers.                                                      *)

(* sse_get_handler: register the session and spawn its task.               *)
SseGet ==
    /\ client = "new"
    /\ client' = "connected"
    /\ registered' = TRUE
    /\ serve' = "handshake"
    /\ UNCHANGED <<backend, policies, inbox, byName, pool, calls, listed>>

(* The client goes away: the stream of events, and its receiver, drop.     *)
ClientLeaves ==
    /\ client = "connected"
    /\ client' = "gone"
    /\ UNCHANGED <<backend, policies, registered, inbox, serve, byName, pool,
                   calls, listed>>

Message(r) ==
    IF r = Hello
    THEN {[NoRequest EXCEPT !.op = "initialize"]}
    ELSE {[NoRequest EXCEPT !.op = o, !.kind = k] : o \in {"list"},
             k \in {"tool", "prompt", "resource"}}
         \cup {[NoRequest EXCEPT !.op = "initialize"]}
         \cup {[NoRequest EXCEPT !.op = "get", !.kind = k, !.name = n] :
                  k \in {"tool", "resource"}, n \in OtherNames}
         \cup {[NoRequest EXCEPT !.op = "get", !.kind = e.kind,
                  !.name = e.name, !.own = e.own] : e \in listed}

(* sse_post_handler, up to the lookup of the session's sender.  The client *)
(* sends its handshake first.                                              *)
PostLookup(r) ==
    /\ client # "new"
    /\ calls[r].at = "idle"
    /\ r \in McpReq => calls[Hello].at \in {"done", "refused"}
    /\ \E m \in Message(r) :
          calls' = [calls EXCEPT ![r] =
                   [m EXCEPT !.at = IF registered THEN "found" ELSE "refused"]]
    /\ UNCHANGED <<backend, policies, client, registered, inbox, serve, byName,
                   pool, listed>>

(* tx.send(message).await: waits for room; fails when the session task has *)
(* dropped the receiver in the meantime.                                   *)
PostSend(r) ==
    /\ calls[r].at = "found"
    /\ IF serve = "ended"
       THEN calls' = [calls EXCEPT ![r].at = "refused"] /\ UNCHANGED inbox
       ELSE /\ Len(inbox) < ChanCap
            /\ calls' = [calls EXCEPT ![r].at = "posted"]
            /\ inbox' = Append(inbox, [kind |-> "request", of |-> r])
    /\ UNCHANGED <<backend, policies, client, registered, serve, byName, pool,
                   listed>>

(* The client's answer to a question of a target, by the same handler.     *)
PostAnswer(r) ==
    /\ calls[r].at = "asking" /\ client = "connected" /\ registered
    /\ PeerNests => \A q \in McpReq \ {r} : calls[q].at \in {"idle", "done", "refused"}
    /\ Len(inbox) < ChanCap
    /\ inbox' = Append(inbox, [kind |-> "answer", of |-> r])
    /\ calls' = [calls EXCEPT ![r].at = "answering"]
    /\ UNCHANGED <<backend, policies, client, registered, serve, byName, pool,
                   listed>>

-----------------------------------------------------------------------------
(* The session task.                                                       *)

(* What the end of the session task drops: the channel, the Relay with its *)
(* upstream connections, and the requests in progress.                     *)
EndSession ==
    /\ registered' = FALSE
    /\ serve' = "ended"
    /\ inbox' = <<>>
    /\ byName' = {}
    /\ pool' = Nobody
    /\ calls' = [r \in Everyone |->
                IF calls[r].at \in {"idle", "found", "done", "refused"} THEN calls[r]
                ELSE [calls[r] EXCEPT !.at = "done", !.res = "session ended"]]

(* serve_server_with_ct reads the first message: the handshake takes the   *)
(* lock of the pool and starts to connect.                                 *)
StartHandshake ==
    /\ serve = "handshake" /\ inbox # <<>>
    /\ inbox' = Tail(inbox)
    /\ serve' = "connecting"
    /\ pool' = Hello
    /\ calls' = [calls EXCEPT ![Hello].at = "upstream"]
    /\ UNCHANGED <<backend, policies, client, registered, byName, listed>>

\* A variant of ConnectNext: a target that cannot be connected is skipped
ConnectSkipsFailed ==
    /\ serve = "connecting"
    /\ \E i \in DOMAIN backend :
          /\ backend[i].name \notin byName
          /\ byName' \in {byName, byName \cup {backend[i].name}}
          /\ IF i = Len(backend)
             THEN /\ serve' = "running" /\ pool' = Nobody
                  /\ calls' = [calls EXCEPT ![Hello].at = "done", ![Hello].res = "ok"]
             ELSE UNCHANGED <<serve, pool, calls>>
    /\ UNCHANGED <<backend, policies, client, registered, inbox, listed>>

(* ConnectionPool::initialize: the targets in order; the first that fails, *)
(* or has the name of an earlier one, ends the handshake, and with it the  *)
(* session.  The reply to a client that has left fails in the same way.    *)
ConnectNext ==
    LET i == Cardinality(byName) + 1 IN
    /\ serve = "connecting"
    /\ \/ /\ i <= Len(backend) /\ backend[i].name \notin byName
          /\ byName' = byName \cup {backend[i].name}
          /\ UNCHANGED <<registered, inbox, serve, pool, calls>>
       \/ i <= Len(backend) /\ EndSession
       \/ i > Len(backend) /\ client = "gone" /\ EndSession
       \/ /\ i > Len(backend) /\ client = "connected"
          /\ serve' = "running"
          /\ pool' = Nobody
          /\ calls' = [calls EXCEPT ![Hello].at = "done", ![Hello].res = "ok"]
          /\ UNCHANGED <<registered, inbox, byName>>
    /\ UNCHANGED <<backend, policies, client, listed>>

\* A variant of SessionCloses: the session stays in sse_txs
SessionForgotten ==
    /\ serve = "running" /\ client = "gone"
    /\ serve' = "ended" /\ byName' = {} /\ pool' = Nobody
    /\ UNCHANGED <<backend, policies, client, registered, inbox, calls, listed>>

(* to_client_tx.closed(): the session is removed and the task ends.        *)
SessionCloses ==
    /\ serve = "running" /\ client = "gone"
    /\ EndSession
    /\ UNCHANGED <<backend, policies, client, listed>>

(* A refusal before the pool is locked: no target in the name, or a rule.  *)
Refusal(m) ==
    LET t == ParseResourceName(m.name)
    IN  IF m.op # "get" THEN "none"
        ELSE IF t = <<>> THEN "invalid name"
        ELSE IF ~Validate(m.kind, t[1], t[2]) THEN "not allowed"
        ELSE "none"

\* A variant of Dispatch: the service loop runs the requests itself, one after the other
DispatchSerially ==
    /\ serve = "running" /\ inbox # <<>>
    /\ \A q \in McpReq : calls[q].at \notin {"waiting", "upstream", "asking", "answering"}
    /\ inbox' = Tail(inbox)
    /\ LET r == Head(inbox).of
       IN  calls' = IF Refusal(calls[r]) # "none"
                 THEN [calls EXCEPT ![r].at = "done", ![r].res = Refusal(calls[r])]
                 ELSE [calls EXCEPT ![r].at = "waiting"]
    /\ UNCHANGED <<backend, policies, client, registered, serve, byName, pool,
                   listed>>

(* The service loop starts a task for a request, or hands an answer to the *)
(* task that waits for it.                                                 *)
Dispatch ==
    /\ serve = "running" /\ inbox # <<>>
    /\ inbox' = Tail(inbox)
    /\ LET r == Head(inbox).of
           m == calls[r]
       IN  calls' = IF Head(inbox).kind = "answer"
                 THEN [calls EXCEPT ![r].at = "upstream"]
                 ELSE IF Refusal(m) # "none"
                 THEN [calls EXCEPT ![r].at = "done", ![r].res = Refusal(m)]
                 ELSE [calls EXCEPT ![r].at = "waiting"]
    /\ UNCHANGED <<backend, policies, client, registered, serve, byName, pool,
                   listed>>

Finish(r, res) == calls' = [calls EXCEPT ![r].at = "done", ![r].res = res]

(* pool.write().await, and what the handler does before it calls upstream: *)
(* ConnectionPool::get, list, or a second initialize.                      *)
Lock(r) ==
    /\ serve = "running" /\ calls[r].at = "waiting" /\ pool = Nobody
    /\ LET t == ParseResourceName(calls[r].name) IN
       CASE calls[r].op = "initialize" ->
              /\ Finish(r, IF backend = <<>> THEN "ok" ELSE "already initialized")
              /\ UNCHANGED pool
         [] calls[r].op = "get" /\ t[1] \notin byName ->
              Finish(r, "not found") /\ UNCHANGED pool
         [] OTHER ->
              /\ calls' = [calls EXCEPT ![r].at = "upstream",
                          ![r].target = IF calls[r].op = "get" THEN t[1] ELSE <<>>,
                          ![r].item = IF calls[r].op = "get" THEN t[2] ELSE <<>>]
              /\ pool' = r
    /\ UNCHANGED <<backend, policies, client, registered, inbox, serve, byName,
                   listed>>

(* A target asks the client (create_message, list_roots): the question is  *)
(* forwarded and the target's own answer waits for it.                     *)
TargetAsks(r) ==
    /\ pool = r /\ r \in McpReq /\ calls[r].at = "upstream" /\ calls[r].res = "none"
    /\ \E t \in TargetAt : t.kind # "openapi" /\ calls[r].target \in {<<>>, t.name}
    /\ calls' = [calls EXCEPT ![r].at = "asking", ![r].res = "asked"]
    /\ UNCHANGED <<backend, policies, client, registered, inbox, serve, byName,
                   pool, listed>>

Items(t, kind) ==
    CASE kind = "tool" -> t.tools
      [] t.kind = "openapi" -> {}
      [] kind = "prompt" -> t.prompts
      [] kind = "resource" -> {}

(* What a list says of one target: tools are filtered by the rules and     *)
(* prefixed, prompts are prefixed, resources are neither.                  *)
Listed(t, kind) ==
    {[kind |-> kind,
      name |-> IF kind = "resource" THEN n ELSE ResourceName(t.name, n),
      own |-> [target |-> t.name, item |-> n]] :
        n \in {n \in Items(t, kind) :
                  kind = "tool" => Validate("tool", t.name, n)}}

(* The targets have answered; the lock is dropped with the reply.  A list  *)
(* leaves out the targets that failed (partition_result).                  *)
UpstreamAnswers(r) ==
    /\ pool = r /\ r \in McpReq /\ calls[r].at = "upstream"
    /\ pool' = Nobody
    /\ IF calls[r].op = "list"
       THEN \E answering \in SUBSET {t \in TargetAt : t.name \in byName} :
               /\ listed' = listed \cup
                     UNION {Listed(t, calls[r].kind) : t \in answering}
               /\ Finish(r, "ok")
       ELSE /\ \E res \in {"ok", "error"} : Finish(r, res)
            /\ UNCHANGED listed
    /\ UNCHANGED <<backend, policies, client, registered, inbox, serve, byName>>

McpNext ==
    \/ SseGet \/ ClientLeaves
    \/ \E r \in Everyone : PostLookup(r) \/ PostSend(r)
    \/ \E r \in McpReq : PostAnswer(r)
    \/ StartHandshake \/ ConnectNext \/ SessionCloses \/ Dispatch
    \/ \E r \in McpReq : Lock(r) \/ TargetAsks(r) \/ UpstreamAnswers(r)

(* The gateway's tasks run; targets and the client answer what they are    *)
(* asked.  Nothing makes the client connect, leave or send a request.      *)
McpFairness ==
    /\ \A r \in Everyone : WF_mcpVars(PostSend(r))
    /\ WF_mcpVars(StartHandshake) /\ WF_mcpVars(ConnectNext)
    /\ WF_mcpVars(SessionCloses) /\ WF_mcpVars(Dispatch)
    /\ \A r \in McpReq : /\ WF_mcpVars(PostAnswer(r)) /\ WF_mcpVars(Lock(r))
                         /\ WF_mcpVars(UpstreamAnswers(r))

McpSpec == McpInit /\ [][McpNext]_mcpVars /\ McpFairness

-----------------------------------------------------------------------------
(* A tool or prompt the client learned from a list goes to the target that *)
(* offered it, under the name it has there, and a tool that was listed is  *)
(* never refused: resource_name and parse_resource_name are inverse for    *)
(* target names without a delimiter, and list_tools and call_tool ask the  *)
(* rules about the same resource.                                          *)
ListedReachesOwner ==
    \A r \in McpReq :
        (calls[r].own # NoOwner /\ calls[r].kind \in {"tool", "prompt"}) =>
            /\ pool = r => /\ calls[r].target = calls[r].own.target
                           /\ calls[r].item = calls[r].own.item
            /\ calls[r].res \notin {"invalid name", "not found"}
            /\ calls[r].kind = "tool" => calls[r].res # "not allowed"

(* A session that serves requests has a connection to every target of its  *)
(* backend, and a request in progress is one of a served session: a        *)
(* handshake that fails halfway leaves neither behind.                     *)
AllTargetsOrNone ==
    /\ serve = "running" => byName = {t.name : t \in TargetAt}
    /\ serve = "ended" => byName = {}
    /\ serve # "running" => \A r \in McpReq :
          calls[r].at \notin {"posted", "waiting", "upstream", "asking", "answering"}

(* Every request accepted with 202 is answered or ends with its session,   *)
(* though all the requests of the session wait for one write lock that is  *)
(* held while a target is called.                                          *)
CallsAnswered ==
    \A r \in McpReq : (calls[r].at = "posted") ~> (calls[r].at = "done")

(* A session past its handshake leaves sse_txs once its client has left.   *)
ServedSessionsEnd ==
    (client = "gone" /\ serve # "handshake") ~> ~registered

(* Both at once. *)
SessionsProgress == CallsAnswered /\ ServedSessionsEnd
=============================================================================
