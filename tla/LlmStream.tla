----------------------------- MODULE LlmStream ------------------------------
(***************************************************************************)
(* The streamed answer of an AI provider: a body of server-sent events     *)
(* that PassthroughBody watches (OpenAI, Gemini, Vertex) or                *)
(* TransformedBody rewrites (Anthropic), one poll_frame at a time, while   *)
(* frames cut the events anywhere.                                         *)
(*                                                                         *)
(* An event is EventSize bytes long, so the bytes that have arrived are a  *)
(* number and the decode buffer is what is not decoded yet.                *)
(***************************************************************************)
EXTENDS Integers, Sequences, SequencesExt

CONSTANTS
    DefaultStreams,   \* answers in the OpenAI form: sequences of events
    AnthropicStreams, \* answers in the Anthropic form
    EventSize         \* bytes of an event

ASSUME StreamAssumption == EventSize \in Nat \ {0}

VARIABLES
    form,       \* "default" or "anthropic": who handles the answer
    events,     \* what the provider streams
    arrived,    \* bytes taken from the upstream body
    decoded,    \* events given to the handler
    finished, trailers,  \* fields of the bodies
    handler,    \* what the closure of the provider has captured
    llmLog,     \* LLMResponse in the request's AsyncLog
    out         \* what the client received: [bytes, chunks, trailers, end]

streamVars == <<form, events, arrived, decoded, finished, trailers, handler,
                llmLog, out>>

None == -1

NoLog == [in |-> None, out |-> None, total |-> None, completion |-> <<"unset">>]

StreamInit ==
    /\ \/ form = "default" /\ events \in DefaultStreams
       \/ form = "anthropic" /\ events \in AnthropicStreams
    /\ arrived = 0 /\ decoded = 0 /\ finished = FALSE /\ trailers = FALSE
    /\ handler \in {[in |-> 0, completion |-> c] : c \in {<<>>, <<"unset">>}}
    /\ llmLog = NoLog
    /\ out = [bytes |-> 0, chunks |-> <<>>, trailers |-> FALSE, end |-> "no"]

-----------------------------------------------------------------------------
(* The handlers of one event                                               *)

\* completion.take(): stored once, if it is collected at all.
TakeCompletion(h, l) ==
    IF h.completion = <<"unset">> THEN l ELSE [l EXCEPT !.completion = h.completion]

\* default_process_streaming: the state of the closure and the log after e.
DefaultEvent(hl, e) ==
    LET h == [hl.h EXCEPT !.completion = IF @ = <<"unset">> THEN @ ELSE @ \o e.text]
        l == hl.l
    IN  CASE e.kind = "bad" -> hl
          [] e.kind = "done" ->
               [h |-> [hl.h EXCEPT !.completion = <<"unset">>], l |-> TakeCompletion(hl.h, l)]
          [] e.kind = "chunk" /\ e.usage = <<>> -> [h |-> h, l |-> l]
          [] e.kind = "chunk" /\ e.usage # <<>> ->
               [h |-> [h EXCEPT !.completion = <<"unset">>],
                l |-> [TakeCompletion(h, l) EXCEPT !.in = e.usage[1], !.out = e.usage[2],
                         !.total = e.usage[1] + e.usage[2]]]

\* The closure of anthropic::process_streaming.
AnthropicEvent(hl, e) ==
    LET h == hl.h
        l == hl.l
    IN  CASE e.kind = "message_start" ->
               [h |-> [h EXCEPT !.in = e.usage[1]],
                l |-> [l EXCEPT !.in = e.usage[1], !.out = e.usage[2]]]
          [] e.kind = "message_delta" ->
               [h |-> h,
                l |-> [l EXCEPT !.out = e.usage[1],
                         !.total = IF l.in = None THEN @ ELSE l.in + e.usage[1]]]
          [] OTHER -> hl

\* What the closure returns for an event, to be encoded for the client.  The
\* two counters of the usage change places.
AnthropicChunk(hl, e) ==
    CASE e.kind = "content_block_delta" -> <<[text |-> e.text, usage |-> <<>>]>>
      [] e.kind = "message_delta" ->
           <<[text |-> <<>>, usage |-> <<e.usage[1], hl.h.in>>]>>
      [] e.kind = "done" -> <<[text |-> <<"[DONE]">>, usage |-> <<>>]>>
      [] OTHER -> <<>>

\* try_decode on n bytes: the handler sees every whole event of the buffer.  A
\* frame the decoder refuses ends the loop with an error.
Ready(n) ==
    LET to == n \div EventSize
        garbled == {i \in decoded + 1 .. to : events[i].kind = "garbled"}
    IN  [upto |-> IF garbled = {} THEN to
                  ELSE (CHOOSE i \in garbled : \A j \in garbled : i <= j) - 1,
         fails |-> garbled # {}]

Handled(n) ==
    FoldLeft(LAMBDA hl, e : IF form = "default" THEN DefaultEvent(hl, e) ELSE AnthropicEvent(hl, e),
             [h |-> handler, l |-> llmLog], SubSeq(events, decoded + 1, Ready(n).upto))

RECURSIVE Encoded(_, _, _)
Encoded(hl, i, upto) ==
    IF i > upto THEN <<>>
    ELSE AnthropicChunk(AnthropicEvent(hl, events[i]), events[i])
         \o Encoded(AnthropicEvent(hl, events[i]), i + 1, upto)

-----------------------------------------------------------------------------
(* poll_frame.  The upstream body yields data, trailers, an error or its   *)
(* end; nothing follows the trailers or the end.                           *)

Total == EventSize * Len(events)
Upstream == (arrived + 1) .. Total

Ends(how) == out' = [out EXCEPT !.end = how]

Decode(n) ==
    /\ decoded' = Ready(n).upto
    /\ handler' = Handled(n).h
    /\ llmLog' = Handled(n).l

PassthroughDropsCutFrames ==
    /\ form = "default" /\ out.end = "no" /\ ~finished
    /\ \E n \in Upstream :
         /\ arrived' = n /\ Decode(n)
         /\ out' = IF Ready(n).fails THEN [out EXCEPT !.end = "error"]
                   ELSE IF n % EventSize = 0 THEN [out EXCEPT !.bytes = n] ELSE out
    /\ UNCHANGED <<finished, trailers>>

\* PassthroughBody with data: the decoder looks at it, then it is passed on; a
\* frame that cannot be decoded is replaced by the error.
PassthroughData ==
    /\ form = "default" /\ out.end = "no" /\ ~finished
    /\ \E n \in Upstream :
         /\ arrived' = n /\ Decode(n)
         /\ out' = IF Ready(n).fails THEN [out EXCEPT !.end = "error"]
                   ELSE [out EXCEPT !.bytes = n]
    /\ UNCHANGED <<finished, trailers>>

\* PassthroughBody at the end of the upstream body, whose last event may be cut
\* short: decode_eof complains about it or drops it.
PassthroughEnd ==
    /\ form = "default" /\ out.end = "no" /\ ~finished
    /\ finished' = TRUE
    /\ \/ Ends("end")
       \/ arrived % EventSize # 0 /\ Ends("error")
    /\ UNCHANGED <<arrived, decoded, trailers, handler, llmLog>>

TransformSkipsEncoded ==
    /\ form = "anthropic" /\ out.end = "no" /\ ~finished
    /\ Ready(arrived).upto > decoded \/ Ready(arrived).fails
    /\ Decode(arrived)
    /\ IF Ready(arrived).fails THEN Ends("error") ELSE UNCHANGED out
    /\ UNCHANGED <<arrived, finished, trailers>>

\* TransformedBody first decodes what it has; what the handler returned is the
\* frame of this poll.  With an error, what was encoded before it is dropped.
TransformBuffered ==
    /\ form = "anthropic" /\ out.end = "no" /\ ~finished
    /\ Ready(arrived).upto > decoded \/ Ready(arrived).fails
    /\ Decode(arrived)
    /\ out' = IF Ready(arrived).fails THEN [out EXCEPT !.end = "error"]
              ELSE [out EXCEPT !.chunks = @ \o
                      Encoded([h |-> handler, l |-> llmLog], decoded + 1, Ready(arrived).upto)]
    /\ UNCHANGED <<arrived, finished, trailers>>

\* With nothing to send it takes the next frame, and polls again.
TransformFrame ==
    /\ form = "anthropic" /\ out.end = "no" /\ ~finished
    /\ Ready(arrived).upto = decoded /\ ~Ready(arrived).fails
    /\ \/ ~trailers /\ arrived' \in Upstream /\ UNCHANGED trailers
       \/ trailers' = TRUE /\ UNCHANGED arrived
    /\ UNCHANGED <<decoded, finished, handler, llmLog, out>>

\* The end of the upstream body: decode_eof may complain; then the trailers.
TransformEnd ==
    /\ form = "anthropic" /\ out.end = "no" /\ ~finished
    /\ Ready(arrived).upto = decoded /\ ~Ready(arrived).fails
    /\ finished' = TRUE
    /\ \/ arrived % EventSize # 0 /\ Ends("error") /\ UNCHANGED trailers
       \/ /\ trailers' = FALSE
          /\ out' = [out EXCEPT !.trailers = trailers, !.end = "end"]
    /\ UNCHANGED <<arrived, decoded, handler, llmLog>>

\* The upstream body fails, or the client stops polling.
Breaks ==
    /\ out.end = "no" /\ \E how \in {"error", "left"} : Ends(how)
    /\ UNCHANGED <<arrived, decoded, finished, trailers, handler, llmLog>>

StreamNext ==
    /\ \/ PassthroughData \/ PassthroughEnd
       \/ TransformBuffered \/ TransformFrame \/ TransformEnd \/ Breaks
    /\ UNCHANGED <<form, events>>

-----------------------------------------------------------------------------
(* Properties                                                              *)

Texts(s) == [i \in DOMAIN s |-> s[i].text]

\* The text the client reads, and the usage the log holds, do not depend on how
\* the frames cut the events: a body that was watched is passed on unchanged, and
\* one that was rewritten holds the text of every event up to its end
\* (PassthroughBody and TransformedBody).
FramesDoNotMatter ==
    out.end = "end" =>
      LET seen == SubSeq(events, 1, arrived \div EventSize)
          deltas == SelectSeq(seen, LAMBDA e : e.kind = "content_block_delta")
          usages == SelectSeq(seen, LAMBDA e : e.kind \in {"chunk", "message_delta"} /\ e.usage # <<>>)
      IN  /\ decoded = Len(seen)
          /\ form = "default" => out.bytes = arrived
          /\ form = "anthropic" =>
               FlattenSeq(Texts(SelectSeq(out.chunks, LAMBDA c : c.text # <<"[DONE]">>)))
                 = FlattenSeq(Texts(deltas))
          /\ llmLog.out # None /\ usages # <<>> =>
               llmLog.out = LET u == Last(usages).usage IN u[Len(u)]
          /\ usages = <<>> => llmLog.total = None
=============================================================================
