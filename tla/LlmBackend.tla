----------------------------- MODULE LlmBackend -----------------------------
(***************************************************************************)
(* Calls to an AI backend: AIProvider::process_request with the prompt     *)
(* guard, the token limit of the route (RateLimit), and process_response,  *)
(* plain or streamed, which charges the limit with the real usage.         *)
(*                                                                         *)
(* A message has a role, and of its text it is known which of the guard's  *)
(* regex rules match it.                                                   *)
(* Token counts are small numbers.  An attempt of a retried request is a   *)
(* call of its own here, as it is in make_backend_call.                    *)
(***************************************************************************)
EXTENDS RateLimit, Sequences

CONSTANTS
    Provider,      \* providers of the instance
    Rules,         \* the regex rules of the prompt guard, in order
    Webhook,       \* the prompt guard has a webhook
    Action,        \* RegexRules.action: "mask" or "reject"
    Prompt,        \* the conversations of the instance
    Estimate,      \* what num_tokens_from_messages may return
    Usage,         \* what a provider may report: [in, out]
    MaxReports     \* usage reports in one stream

DefaultProvider == {"openai", "gemini", "vertex"}

ASSUME LlmAssumption ==
    /\ Provider \subseteq DefaultProvider \cup {"anthropic", "bedrock"}
    /\ Webhook \in BOOLEAN /\ Action \in {"mask", "reject"}
    /\ Estimate \subseteq Nat /\ \A u \in Usage : u.in \in Nat /\ u.out \in Nat
    /\ MaxReports \in Nat
    /\ \A msgs \in Prompt : \A i \in DOMAIN msgs : DOMAIN msgs[i] = {"role", "text"}

VARIABLES
    call,          \* per caller: its LLM call
    amended        \* tokens all amendments have removed from the bucket

llmVars == <<bucketVars, call, amended>>

NoUsage == [in |-> 0, out |-> 0]

NoCall == [at |-> "new", provider |-> "none", streaming |-> FALSE, messages |-> <<>>,
           est |-> 0, charged |-> 0, floored |-> FALSE, reports |-> 0, usage |-> NoUsage]

LlmInit ==
    /\ BucketInit
    /\ call = [c \in Caller |-> NoCall]
    /\ amended = 0

Goes(c, to) == call' = [call EXCEPT ![c].at = to]

-----------------------------------------------------------------------------
(* The request                                                             *)

\* The body is buffered and parsed: too large, not a chat completion, or
\* with content other than text ends the call.
ReceiveRequest(c) ==
    /\ call[c].at = "new"
    /\ \/ Goes(c, "failed")
       \/ \E p \in Provider, s \in BOOLEAN, msgs \in Prompt :
            call' = [call EXCEPT ![c] = [NoCall EXCEPT
                       !.at = IF Webhook THEN "webhook" ELSE "regex",
                       !.provider = p, !.streaming = s, !.messages = msgs]]
    /\ UNCHANGED <<bucketVars, amended>>

\* webhook::send_request and the action in its answer: fail, reject, pass, or
\* mask, which replaces the messages.
CallWebhook(c) ==
    /\ call[c].at = "webhook"
    /\ \/ Goes(c, "failed") \/ Goes(c, "rejected") \/ Goes(c, "regex")
       \/ \E msgs \in Prompt :
            call' = [call EXCEPT ![c].at = "regex", ![c].messages = msgs]
    /\ UNCHANGED <<bucketVars, amended>>

Matching(msg) == {i \in DOMAIN Rules : Rules[i] \in msg.text}

Highest(S) == CHOOSE i \in S : \A j \in S : j <= i

\* Every rule masks the text as it was before the first rule: the last one
\* that matches wins.
Masked(msg) ==
    IF Matching(msg) = {} THEN msg
    ELSE [msg EXCEPT !.text = @ \ {Rules[Highest(Matching(msg))]}]

RegexRejectsFirst(msgs) == Action = "reject" /\ msgs # <<>> /\ Matching(msgs[1]) # {}

RegexRejects(msgs) == Action = "reject" /\ \E i \in DOMAIN msgs : Matching(msgs[i]) # {}

ApplyRegex(c) ==
    LET msgs == call[c].messages IN
    /\ call[c].at = "regex"
    /\ IF RegexRejects(msgs)
       THEN Goes(c, "rejected")
       ELSE call' = [call EXCEPT ![c].at = "count",
                       ![c].messages = [i \in DOMAIN msgs |-> Masked(msgs[i])]]
    /\ UNCHANGED <<bucketVars, amended>>

\* Only an assistant speaks as one; the other roles become user.
As(role) == IF role \in {"system", "assistant"} THEN role ELSE "user"

\* translate_request of Anthropic and Bedrock: the system prompts are joined in
\* a field of their own (they keep their role here), and the others keep their
\* order, which is that of their indices.
TranslateRequest(msgs) == [i \in DOMAIN msgs |-> [msgs[i] EXCEPT !.role = As(@)]]

\* to_llm_request counts the tokens; the provider translates the request; then
\* apply_llm_request_policies asks the limit for that many tokens.
CountTokens(c) ==
    /\ call[c].at = "count"
    /\ \/ Goes(c, "failed") /\ UNCHANGED bucketVars     \* unsupported model
       \/ \E est \in Estimate :
            /\ call' = [call EXCEPT ![c].at = "limit", ![c].est = est,
                 ![c].messages = IF call[c].provider \in DefaultProvider THEN @
                                 ELSE TranslateRequest(@)]
            /\ TryWait(c, est)
    /\ UNCHANGED amended

WaitForTokens(c) ==
    /\ call[c].at = "limit" /\ WaitStep(c)
    /\ UNCHANGED <<call, amended>>

LimitAnswers(c) ==
    /\ call[c].at = "limit" /\ ~Waits(c)
    /\ IF waiter[c].at = "granted"
       THEN call' = [call EXCEPT ![c].at = "upstream", ![c].charged = call[c].est]
       ELSE Goes(c, "failed")
    /\ waiter' = [waiter EXCEPT ![c] = Idle]
    /\ UNCHANGED <<bucketTime, available, refillAt, granted, refills, amended>>

-----------------------------------------------------------------------------
(* The response                                                            *)

AmendRealOnly(k, u) == u.in + u.out

\* amend_tokens: the difference to what the request was charged up front.
TokensToRemove(k, u) == u.in - k.est + u.out

\* The limit is charged with the usage u, and the call goes on at `to'.
Amend(c, u, to) ==
    LET remove == TokensToRemove(call[c], u) IN
    /\ available' = Amended(available, remove)
    /\ amended' = amended + remove
    /\ call' = [call EXCEPT ![c].at = to, ![c].charged = @ + remove,
                  ![c].floored = @ \/ available' # available - remove,
                  ![c].reports = @ + 1, ![c].usage = u]
    /\ UNCHANGED <<bucketTime, refillAt, waiter, granted, refills>>

\* The upstream call fails, or is given up; what was charged stays charged.
UpstreamFails(c) ==
    /\ call[c].at = "upstream"
    /\ Goes(c, "failed")
    /\ UNCHANGED <<bucketVars, amended>>

\* translate_response: Bedrock may leave the usage out, which counts as none.
UsageIn(provider) == IF provider = "bedrock" THEN Usage \cup {NoUsage} ELSE Usage

\* process_response: a body that is too large is an error; an error answer,
\* or one that cannot be parsed, amends by nothing.
ProcessResponse(c) ==
    /\ call[c].at = "upstream" /\ ~call[c].streaming
    /\ \/ \E to \in {"failed", "done"} : Goes(c, to) /\ UNCHANGED <<bucketVars, amended>>
       \/ \E u \in UsageIn(call[c].provider) : Amend(c, u, "done")

\* process_streaming: not for Bedrock.
StartStream(c) ==
    /\ call[c].at = "upstream" /\ call[c].streaming
    /\ Goes(c, IF call[c].provider = "bedrock" THEN "failed" ELSE "stream")
    /\ UNCHANGED <<bucketVars, amended>>

\* An event of the stream reports the usage.  default_process_streaming
\* amends the limit, the Anthropic translation only logs the usage.
StreamUsage(c) ==
    /\ call[c].at = "stream" /\ call[c].reports < MaxReports
    /\ \E u \in Usage :
         IF call[c].provider \in DefaultProvider
         THEN Amend(c, u, "stream")
         ELSE /\ call' = [call EXCEPT ![c].reports = @ + 1, ![c].usage = u]
              /\ UNCHANGED <<bucketVars, amended>>

\* [DONE], the end of the body, or a client that went away.
EndStream(c) ==
    /\ call[c].at = "stream"
    /\ Goes(c, "done")
    /\ UNCHANGED <<bucketVars, amended>>

-----------------------------------------------------------------------------
LlmStep(c) ==
    \/ ReceiveRequest(c) \/ CallWebhook(c) \/ ApplyRegex(c) \/ CountTokens(c)
    \/ WaitForTokens(c) \/ LimitAnswers(c) \/ UpstreamFails(c)
    \/ ProcessResponse(c) \/ StartStream(c) \/ StreamUsage(c) \/ EndStream(c)

LlmNext == (Tick /\ UNCHANGED <<call, amended>>) \/ \E c \in Caller : LlmStep(c)

LlmSpec == LlmInit /\ [][LlmNext]_llmVars

-----------------------------------------------------------------------------
(* Properties                                                              *)

\* No refill has found more than the capacity in the bucket: what it adds,
\* capacity - available, would have wrapped to nearly TokenSpan.
NoneWrapped == refills < TokenSpan \div 2

\* However the callers interleave in Ratelimiter::refill and try_wait_n, no
\* more tokens are granted than the full bucket and one refill_amount for
\* every interval that has passed, as long as no provider has reported less
\* than the estimate and no refill has found an overfull bucket.
RateBound ==
    (\A c \in Caller : call[c].reports > 0 => call[c].charged >= call[c].est) /\ NoneWrapped
      => RequestRate

\* No token is lost or made up between the callers: what is left, what was
\* granted and what was amended is what the bucket held and was given, in the
\* arithmetic of the counters, unless an amendment stopped at the floor
\* (fetch_add, compare_exchange, fetch_update).
TokensConserved ==
    (\A c \in Caller : ~call[c].floored) =>
       (available + granted + amended - Capacity - refills) % TokenSpan = 0

\* A call that was answered in one piece, or whose stream reported its usage
\* once, has been charged exactly the usage the provider reported, except for
\* streams of Anthropic, which keep the estimate (amend_tokens).
ChargedRealUsage ==
    \A c \in Caller :
      call[c].at = "done" /\ call[c].reports = 1 =>
        call[c].charged = IF call[c].streaming /\ call[c].provider = "anthropic"
                          THEN call[c].est ELSE call[c].usage.in + call[c].usage.out

\* Both at once: the bucket and the calls agree on what was used.
TokensAccounted == TokensConserved /\ ChargedRealUsage

\* With action `reject' no text that one of the rules matches is counted, charged
\* or sent to a provider, also when the webhook has rewritten the messages
\* (Policy::apply).
GuardRejects ==
    Action = "reject" =>
      \A c \in Caller : call[c].at \in {"count", "limit", "upstream", "stream", "done"} =>
        \A i \in DOMAIN call[c].messages : Matching(call[c].messages[i]) = {}
=============================================================================
