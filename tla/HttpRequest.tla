---------------------------- MODULE HttpRequest ----------------------------
(***************************************************************************)
(* The life of one HTTP request: HTTPProxy::proxy_internal with its retry  *)
(* loop, attempt_upstream, make_backend_call and the ReplayBody that lets  *)
(* a request body be sent more than once.                                  *)
(*                                                                         *)
(* A body is `len' chunks, numbered from 1, and perhaps trailers; a chunk  *)
(* is one unit of every size limit.  Attempt i sends clone i of the        *)
(* ReplayBody.  All clones share one BodyState; `owner' says which         *)
(* clone holds it, or Shared when it lies in SharedState.  The body of an  *)
(* attempt whose call has ended may live on in the task of the upstream    *)
(* connection ("lingers") and be read or dropped there at any time.        *)
(* A request that is never retried sends its body unwrapped: clone 0 with  *)
(* no other clones behaves the same, and is_capped is not consulted.       *)
(***************************************************************************)
EXTENDS Integers, Sequences

CONSTANTS
    MaxChunks,     \* longest request body of the instance
    MaxRetries,    \* largest retry.attempts of the instance
    MaxBuffered,   \* MAX_BUFFERED_BYTES of the retry loop
    BodyLimit,     \* limit of inspect_body and of the LLM request buffer
    Shared, None

ASSUME SizesAssumption ==
    /\ MaxChunks \in Nat /\ MaxRetries \in Nat
    /\ MaxBuffered \in Nat /\ BodyLimit \in Nat

Clone == 0 .. MaxRetries

ASSUME OwnersAssumption == Shared \notin Clone /\ None \notin Clone

VARIABLES
    cfg,       \* the request and its route, fixed once it has arrived
    pc,        \* where proxy_internal is
    src,       \* the client's body (BodyState.rest)
    shared,    \* the rest of BodyState
    owner,     \* the clone whose `state' is Some, or Shared
    clone,     \* per attempt: its ReplayBody
    seen,      \* per attempt: what the reader of its body was given
    attempts,  \* total attempts; 1 when retries are off
    current,   \* the current attempt
    lastRes,   \* last_res
    latest,    \* what the latest attempt returned
    result,    \* what proxy_internal returned
    late,      \* the deadline log.start + timeout has passed
    panicked   \* an expect() failed

httpVars == <<cfg, pc, src, shared, owner, clone, seen, attempts, current, lastRes,
          latest, result, late, panicked>>
bodyVars == <<src, shared, owner, clone, seen>>
loopVars == <<attempts, current, lastRes, latest, result>>

Config ==
    [len : 0 .. MaxChunks, trailers : BOOLEAN,
     sized : BOOLEAN,                      \* the length is declared
     inspect : BOOLEAN,                    \* a CEL expression needs the body
     retries : 0 .. MaxRetries, timeout : BOOLEAN,
     backend : {"http", "a2a", "llm"}]     \* a2a: a JSON POST to such a backend

Retryable == {"failed", "timeout", "retryCode"}
Final     == {"ok", "error", "direct"}
Outcome   == Retryable \cup Final

ASSUME NoneAssumption == None \notin Outcome

NewState == [replay |-> <<>>, idx |-> 0, trailers |-> FALSE,
             completed |-> FALSE, budget |-> MaxBuffered + 1]
NoClone  == [phase |-> "none", body |-> FALSE, trailers |-> FALSE]
Unread   == [data |-> <<>>, end |-> "open"]

Untouched ==
    /\ src = [len |-> cfg.len, trailers |-> cfg.trailers, read |-> 0,
              failed |-> FALSE]
    /\ shared = NewState /\ owner = Shared
    /\ clone = [i \in Clone |-> NoClone]
    /\ seen = [i \in Clone |-> Unread]
    /\ attempts = 1 /\ current = 0 /\ lastRes = None /\ latest = None
    /\ result = None /\ late = FALSE /\ panicked = FALSE

HttpInit == cfg \in Config /\ pc = "start" /\ Untouched

-----------------------------------------------------------------------------
(* The client and the clock.                                               *)

\* The client goes away, or breaks its stream, before its body is complete.
ClientFails ==
    /\ ~src.failed /\ src.read < src.len /\ pc # "done"
    /\ src' = [src EXCEPT !.failed = TRUE]
    /\ UNCHANGED <<cfg, pc, shared, owner, clone, seen, loopVars, late, panicked>>

Deadline ==
    /\ cfg.timeout /\ ~late /\ pc # "done"
    /\ late' = TRUE
    /\ UNCHANGED <<cfg, pc, bodyVars, loopVars, panicked>>

-----------------------------------------------------------------------------
(* ReplayBody                                                              *)

\* The largest value size_hint().lower() is known to have.
SizeHint == IF cfg.sized \/ cfg.inspect THEN src.len ELSE 0

IsCapped(s) == s.budget = 0

CloneIsCappedOrBusy(i) == IF owner \in {i, Shared} THEN {IsCapped(shared)} ELSE {FALSE}

\* Some(b) is {b}; None, another clone holds the state, is {}.
CloneIsCapped(i) == IF owner \in {i, Shared} THEN {IsCapped(shared)} ELSE {}

RecordBytes(s, chunk) ==
    LET left == IF s.budget > 0 THEN s.budget - 1 ELSE 0
    IN  [s EXCEPT !.budget = left,
                  !.replay = IF left = 0 THEN <<>> ELSE Append(s.replay, chunk)]

Give(i, chunk) == [seen EXCEPT ![i].data = Append(@, chunk)]
End(i, how)    == [seen EXCEPT ![i].end = how]

\* poll_frame on clone i by a reader that has not yet seen its end.  A poll
\* that finds nothing buffered clears replay_body and goes on.
PollFrame(i) ==
    LET c == clone[i] IN
    /\ seen[i].end = "open"
    /\ IF owner \notin {i, Shared}
       THEN panicked' = TRUE /\ UNCHANGED bodyVars
       ELSE
       /\ owner' = i
       /\ UNCHANGED panicked
       /\ \/ /\ c.body /\ shared.idx < Len(shared.replay)
             /\ shared' = [shared EXCEPT !.idx = @ + 1]
             /\ seen' = Give(i, shared.replay[shared.idx + 1])
             /\ UNCHANGED <<src, clone>>
          \/ /\ c.body /\ shared.idx >= Len(shared.replay) /\ IsCapped(shared)
             /\ clone' = [clone EXCEPT ![i].body = FALSE]
             /\ seen' = End(i, "capped")
             /\ UNCHANGED <<src, shared>>
          \/ /\ c.body => shared.idx >= Len(shared.replay) /\ ~IsCapped(shared)
             /\ clone' = [clone EXCEPT ![i].body = FALSE, ![i].trailers = FALSE]
             /\ \/ /\ c.trailers /\ shared.trailers
                   /\ seen' = End(i, "trailers") /\ UNCHANGED <<src, shared>>
                \/ /\ ~(c.trailers /\ shared.trailers) /\ shared.completed
                   /\ seen' = End(i, "done") /\ UNCHANGED <<src, shared>>
                \/ /\ ~shared.completed /\ src.failed
                   /\ seen' = End(i, "error") /\ UNCHANGED <<src, shared>>
                \/ /\ ~shared.completed /\ ~src.failed /\ src.read < src.len
                   /\ src' = [src EXCEPT !.read = @ + 1]
                   /\ shared' = RecordBytes(shared, src.read + 1)
                   /\ seen' = Give(i, src.read + 1)
                \/ /\ ~shared.completed /\ ~src.failed /\ src.read = src.len
                   /\ shared' = [shared EXCEPT !.completed = TRUE,
                                       !.trailers = src.trailers]
                   /\ seen' = End(i, IF src.trailers THEN "trailers" ELSE "done")
                   /\ UNCHANGED src

GiveBackAsIs(gone) ==
    IF owner \in gone THEN owner' = Shared /\ UNCHANGED shared ELSE UNCHANGED <<owner, shared>>

\* Dropping clones: the one that holds the state puts it back.
GiveBack(gone) ==
    IF owner \in gone
    THEN owner' = Shared /\ shared' = [shared EXCEPT !.idx = 0]
    ELSE UNCHANGED <<owner, shared>>

Dropped(c, gone) ==
    [i \in Clone |-> IF i \in gone THEN [c[i] EXCEPT !.phase = "dropped"] ELSE c[i]]

-----------------------------------------------------------------------------
(* proxy_internal, up to the first attempt                                 *)

\* Return before any attempt was made.
ReturnEarly(res) == pc' = "done" /\ result' = res

\* One stage of proxy_internal: go on, or return early with one of `stops'.
Stage(from, to, stops) ==
    /\ pc = from
    /\ \/ pc' = to /\ UNCHANGED result
       \/ \E res \in stops : ReturnEarly(res)
    /\ UNCHANGED <<cfg, bodyVars, attempts, current, lastRes, latest, late, panicked>>

\* The bind, the URI, the host, the listener and the route are found.
FindRoute == Stage("start", "inspect", {"error"})

\* A CEL expression of the log, the tracer (asked before the route is chosen)
\* or a policy (asked after it) needs the body: it is
\* read into memory, which drops the trailers.  When that fails the request
\* goes on with the empty body inspect_body left behind.
InspectBody ==
    /\ pc = "inspect" /\ pc' = "policies"
    /\ IF ~cfg.inspect
       THEN UNCHANGED src
       ELSE LET fails == src.failed \/ src.len > BodyLimit
            IN  src' = [len |-> IF fails THEN 0 ELSE src.len, trailers |-> FALSE,
                        read |-> 0, failed |-> FALSE]
    /\ UNCHANGED <<cfg, shared, owner, clone, seen, loopVars, late, panicked>>

\* jwt, ext_authz, local rate limits, remote rate limit, transformation.
ApplyRequestPolicies == Stage("policies", "filters", {"error", "direct"})

\* Filters of the route, choice of the backend, filters of the backend; then
\* the mirrors are sent, without the body.
ApplyRequestFilters == Stage("filters", "wrap", {"error", "direct"})

WrapBody ==
    /\ pc = "wrap"
    /\ owner' = 0
    /\ IF cfg.retries > 0 /\ SizeHint <= MaxBuffered
       THEN /\ attempts' = cfg.retries + 1
            /\ clone' = [clone EXCEPT ![0].phase = "next"]
            /\ pc' = "loop"
       ELSE /\ clone' = [clone EXCEPT ![0].phase = "sent"]
            /\ pc' = "prepare"
            /\ UNCHANGED attempts
    /\ UNCHANGED <<cfg, src, shared, seen, current, lastRes, latest, result, late, panicked>>

-----------------------------------------------------------------------------
(* The retry loop and one attempt                                          *)

LastAttempt == current = attempts - 1

GiveUpError == result' = "error" /\ UNCHANGED panicked

\* last_res.expect(...)
GiveUp == result' = lastRes /\ panicked' = (lastRes = None)

\* The top of the loop, up to the call of attempt_upstream.
StartAttempt ==
    /\ pc = "loop"
    /\ IF CloneIsCapped(current) \in {{}, {TRUE}}
       THEN /\ pc' = "done" /\ GiveUp
            /\ clone' = Dropped(clone, {current}) /\ GiveBack({current})
            /\ UNCHANGED lastRes
       ELSE /\ pc' = "prepare"
            /\ lastRes' = None
            /\ clone' = [i \in Clone |->
                 CASE i = current -> [clone[i] EXCEPT !.phase = "sent"]
                   [] i = current + 1 /\ ~LastAttempt ->
                        [phase |-> "next", body |-> TRUE, trailers |-> TRUE]
                   [] OTHER -> clone[i]]
            /\ UNCHANGED <<owner, shared, result, panicked>>
    /\ UNCHANGED <<cfg, src, seen, attempts, current, latest, late>>

\* attempt_upstream returned `res'.  When it is final the function returns
\* and drops `next'; the body of the attempt is dropped or, if the upstream
\* connection has begun to read it, may linger there.
EndAttempt(res) ==
    \E lingers \in BOOLEAN :
      LET over == LastAttempt \/ res \notin Retryable
          gone == (IF lingers THEN {} ELSE {current})
                     \cup {i \in Clone : over /\ clone[i].phase = "next"}
          left == Dropped(clone, gone)
      IN
      /\ lingers => pc = "call" /\ owner = current /\ clone[current].phase = "sent"
      /\ clone' = IF lingers THEN [left EXCEPT ![current].phase = "lingers"] ELSE left
      /\ GiveBack(gone)
      /\ latest' = res
      /\ IF over
         THEN pc' = "done" /\ result' = res /\ UNCHANGED <<current, lastRes>>
         ELSE pc' = "loop" /\ lastRes' = res /\ current' = current + 1 /\ UNCHANGED result
      /\ UNCHANGED <<cfg, src, seen, attempts, late, panicked>>

\* The endpoint picker, the choice of the endpoint, backend authentication
\* and the transport: any of them may fail, and none is retried.
PrepareFails == pc = "prepare" /\ EndAttempt("error")

Prepare ==
    /\ pc = "prepare"
    /\ pc' = IF cfg.backend \in {"a2a", "llm"} THEN "buffer" ELSE "call"
    /\ UNCHANGED <<cfg, bodyVars, loopVars, late, panicked>>

\* json::inspect_body and AIProvider::process_request read the whole body,
\* outside the timeout.
BufferBody ==
    /\ pc = "buffer" /\ Len(seen[current].data) <= BodyLimit
    /\ PollFrame(current)
    /\ UNCHANGED <<cfg, pc, loopVars, late>>

BufferFailed == Len(seen[current].data) > BodyLimit \/ seen[current].end \in {"error", "capped"}

BufferedAll == Len(seen[current].data) <= BodyLimit /\ seen[current].end \in {"done", "trailers"}

\* The call goes out with another body than the clone, which is dropped.
CallWith(body) ==
    /\ pc' = "call"
    /\ clone' = [clone EXCEPT ![current].phase = body] /\ GiveBack({current})
    /\ UNCHANGED <<cfg, src, seen, loopVars, late, panicked>>

\* a2a::classify_request: a body it could not read is left empty.
InspectA2aRequest ==
    /\ pc = "buffer" /\ cfg.backend = "a2a"
    /\ \/ BufferedAll /\ CallWith("copied")
       \/ BufferFailed /\ CallWith("emptied")

LlmRequestFails == pc = "buffer" /\ cfg.backend = "llm" /\ BufferFailed /\ EndAttempt("error")

\* The body is complete: it is parsed and guarded, the token limits are
\* charged, and a new request is built from it.
ProcessLlmRequest ==
    /\ pc = "buffer" /\ cfg.backend = "llm" /\ BufferedAll
    /\ \/ EndAttempt("error")      \* unparsable, or a token limit is exceeded
       \/ \E res \in {"ok", "retryCode", "error"} :
            EndAttempt(res)        \* the response of the prompt guard
       \/ CallWith("copied")

\* The upstream connection reads the body of a running or a finished call.
UpstreamReads(i) ==
    /\ \/ pc = "call" /\ i = current /\ clone[i].phase = "sent"
       \/ clone[i].phase = "lingers"
    /\ PollFrame(i)
    /\ UNCHANGED <<cfg, pc, loopVars, late>>

UpstreamDrops(i) ==
    /\ clone[i].phase = "lingers"
    /\ clone' = Dropped(clone, {i}) /\ GiveBack({i})
    /\ UNCHANGED <<cfg, pc, src, seen, loopVars, late, panicked>>

\* The call ends: DNS or the connection fails; or a response arrives, and
\* the filters and policies of the response pass or fail.
CallReturns == pc = "call" /\ \E res \in {"failed", "retryCode", "ok", "error"} : EndAttempt(res)

CallNeverTimesOut == FALSE

CallTimesOut == pc = "call" /\ cfg.timeout /\ late /\ EndAttempt("timeout")

-----------------------------------------------------------------------------
Proxy ==
    \/ FindRoute \/ InspectBody \/ ApplyRequestPolicies \/ ApplyRequestFilters
    \/ WrapBody \/ StartAttempt \/ Prepare \/ PrepareFails \/ BufferBody
    \/ InspectA2aRequest \/ LlmRequestFails \/ ProcessLlmRequest \/ CallTimesOut

HttpNext ==
    \/ ClientFails \/ Deadline \/ CallReturns
    \/ Proxy
    \/ \E i \in Clone : UpstreamReads(i) \/ UpstreamDrops(i)

HttpSpec == HttpInit /\ [][HttpNext]_httpVars

\* The proxy takes its steps and the deadline comes.
HttpFairness == WF_httpVars(Proxy) /\ WF_httpVars(Deadline)

HttpFairSpec == HttpSpec /\ HttpFairness

-----------------------------------------------------------------------------
(* Properties                                                              *)

\* Every variable has its type, and the body state that all attempts share is
\* never lost: it lies in SharedState or with a ReplayBody that still exists
\* (ReplayBody::drop puts it back), so a later attempt can find it.
HttpTypeOK ==
    /\ cfg \in Config /\ late \in BOOLEAN
    /\ src.len \in 0 .. MaxChunks /\ src.read \in 0 .. src.len
    /\ shared.idx \in 0 .. MaxBuffered /\ shared.budget \in 0 .. MaxBuffered + 1
    /\ current \in 0 .. attempts - 1 /\ attempts \in 1 .. MaxRetries + 1
    /\ {lastRes, latest, result} \subseteq Outcome \cup {None}
    /\ owner \in Clone => clone[owner].phase \in {"next", "sent", "lingers"}

\* However many attempts there are and wherever each one stopped reading,
\* the upstream of every attempt is given the chunks of the body in order,
\* without a gap or a repetition, and an attempt whose body ends regularly was
\* given all of it with its trailers (ReplayBody::poll_frame).  The body is the
\* client's, or what inspect_body left in its place.
BodyIntact ==
    \A i \in Clone :
      /\ Len(seen[i].data) <= src.len
      /\ \A k \in DOMAIN seen[i].data : seen[i].data[k] = k
      /\ seen[i].end \in {"done", "trailers"} =>
           Len(seen[i].data) = src.len /\ (seen[i].end = "trailers" <=> src.trailers)

\* None of the expect()s of the retry loop and of acquire_state can fail, and
\* no attempt is started with a body that cannot be replayed: the is_capped
\* test at the top of the loop is enough.
AttemptsCanReplay ==
    ~panicked /\ \A i \in Clone : seen[i].end # "capped"

\* The client is answered with what the latest attempt returned, also when
\* the loop gives up because the body can no longer be replayed; and every
\* attempt before the latest one returned something that may be retried.
LatestIsReturned ==
    /\ pc = "done" /\ latest # None => result = latest
    /\ pc = "loop" /\ current > 0 => latest \in Retryable /\ lastRes = latest

\* The three, and the types, at once.
AttemptsSound == HttpTypeOK /\ BodyIntact /\ AttemptsCanReplay /\ LatestIsReturned

\* json::inspect_body: "Regardless of an error or not, we should reset the body
\* back".  No call goes out with the empty body that inspect_body puts in the
\* place of the one it reads.
BodyReset == \A i \in Clone : clone[i].phase # "emptied"

\* A request with a timeout is answered although its upstream may never
\* answer, as long as its client sends or breaks off its body.
Answered == cfg.timeout ~> pc = "done"

=============================================================================
