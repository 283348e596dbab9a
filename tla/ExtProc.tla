------------------------------- MODULE ExtProc -------------------------------
(***************************************************************************)
(* The external processor (endpoint picker) of an inference pool: one      *)
(* stream of messages per request, used by mutate_request before the       *)
(* upstream call and by mutate_response after it.  Both send the headers,  *)
(* spawn a task that pipes the body to the processor, and loop over the    *)
(* processor's answers, whose body chunks go into a channel that nobody    *)
(* reads until the mutation has returned.                                  *)
(*                                                                         *)
(* A body is a sequence of frames.  The processor is external: it collects *)
(* a whole body and sends it back in a number of chunks, as the endpoint   *)
(* picker does.                                                            *)
(***************************************************************************)
EXTENDS Naturals, SequencesExt

CONSTANTS
    MaxFrames,   \* frames of a body
    Splits,      \* in how many chunks the processor may send a body back
    QueueCap,    \* capacity of tx_req and tx_resp (10 in the code)
    ChunkCap     \* capacity of the channel of body chunks (1 in the code)

ASSUME ExtProcAssumption ==
    /\ MaxFrames \in Nat /\ Splits \subseteq Nat \ {0}
    /\ QueueCap \in Nat \ {0} /\ ChunkCap \in Nat \ {0}

Side == {"request", "response"}

VARIABLES
    side,      \* the mutation in progress
    main,      \* the caller: "send", "loop", "chunk", "idle" or "failed"
    bodies,      \* the frames of the two bodies
    pipe,      \* per side, the task that pipes the body: frames still to send
    broken,    \* a body could not be read to its end
    toProc, fromProc,  \* tx_req and tx_resp
    stream,    \* the stream to the processor: "opening", "open" or "closed"
    proc,      \* the processor: what it got of the current body, and owes
    passing,     \* the chunk the caller is about to pass on
    chunks,    \* the channel of chunks
    passed     \* the body that came out, per side

epVars == <<side, main, bodies, pipe, broken, toProc, fromProc, stream, proc,
            passing, chunks, passed>>

NotStarted == [at |-> "none", left |-> <<>>]
Quiet == [got |-> <<>>, owes |-> <<>>]
NoChunk == [data |-> <<>>, eos |-> FALSE]
Bodies == {[i \in 1..n |-> i] : n \in 0..MaxFrames}

EpInit ==
    /\ side = "request" /\ main = "send"
    /\ bodies \in [Side -> Bodies]
    /\ pipe = [s \in Side |-> NotStarted]
    /\ broken = [s \in Side |-> FALSE]
    /\ toProc = <<>> /\ fromProc = <<>>
    /\ stream = "opening"
    /\ proc = Quiet
    /\ passing = NoChunk /\ chunks = <<>>
    /\ passed = [s \in Side |-> <<>>]

-----------------------------------------------------------------------------
(* The caller.                                                             *)

\* Send the headers, spawn the task that pipes the body.
SendHeaders ==
    /\ main = "send"
    /\ IF stream = "closed"
       THEN main' = "failed" /\ UNCHANGED <<pipe, toProc>>
       ELSE /\ Len(toProc) < QueueCap
            /\ toProc' = Append(toProc, [kind |-> "headers", side |-> side, frame |-> 0])
            /\ pipe' = [pipe EXCEPT ![side] = [at |-> "body", left |-> bodies[side]]]
            /\ main' = "loop"
    /\ UNCHANGED <<side, bodies, broken, fromProc, stream, proc, passing, chunks, passed>>

\* recv, and the part of handle_response_for_*_mutation before the chunk is
\* passed on.  Answers for the other side, and answers without a chunk, change
\* headers only.
Receive ==
    /\ main = "loop"
    /\ IF fromProc = <<>>
       THEN stream = "closed" /\ main' = "failed" /\ UNCHANGED <<fromProc, passing>>
       ELSE LET m == Head(fromProc) IN
            /\ fromProc' = Tail(fromProc)
            /\ IF m.kind = "chunk" /\ m.side = side
               THEN main' = "chunk" /\ passing' = [data |-> m.data, eos |-> m.eos]
               ELSE UNCHANGED <<main, passing>>
    /\ UNCHANGED <<side, bodies, pipe, broken, toProc, stream, proc, chunks, passed>>

\* A header mutation that is not a valid header, or an endpoint that is not an
\* address, fails the request.
BadMutation ==
    /\ main = "loop" /\ fromProc # <<>> /\ Head(fromProc).side = side
    /\ main' = "failed"
    /\ fromProc' = Tail(fromProc)
    /\ UNCHANGED <<side, bodies, pipe, broken, toProc, stream, proc, passing, chunks, passed>>

\* body_tx.send(..).await, and the return when the chunk ends the body.
PassChunk ==
    /\ main = "chunk" /\ Len(chunks) < ChunkCap
    /\ chunks' = Append(chunks, passing.data)
    /\ main' = IF passing.eos THEN "idle" ELSE "loop"
    /\ passing' = NoChunk
    /\ UNCHANGED <<side, bodies, pipe, broken, toProc, fromProc, stream, proc, passed>>

\* The mutated message goes on: upstream, or to the client, reads its body.
ReadChunk ==
    /\ main = "idle" /\ chunks # <<>>
    /\ passed' = [passed EXCEPT ![side] = @ \o Head(chunks)]
    /\ chunks' = Tail(chunks)
    /\ UNCHANGED <<side, main, bodies, pipe, broken, toProc, fromProc, stream, proc, passing>>

\* The upstream has answered.
UpstreamAnswered ==
    /\ main = "idle" /\ side = "request" /\ chunks = <<>>
    /\ side' = "response" /\ main' = "send"
    /\ UNCHANGED <<bodies, pipe, broken, toProc, fromProc, stream, proc, passing, chunks, passed>>

-----------------------------------------------------------------------------
(* The task that pipes a body.                                             *)

PipeDrops(s) ==
    /\ pipe[s].at = "body" /\ pipe[s].left # <<>>
    /\ pipe' = [pipe EXCEPT ![s].left = Tail(@)]
    /\ toProc' = IF Len(toProc) < QueueCap
                 THEN Append(toProc, [kind |-> "data", side |-> s, frame |-> Head(pipe[s].left)])
                 ELSE toProc
    /\ UNCHANGED <<side, main, bodies, broken, fromProc, stream, proc, passing, chunks, passed>>

PipeFrame(s) ==
    /\ pipe[s].at = "body" /\ pipe[s].left # <<>>
    /\ IF stream = "closed"
       THEN pipe' = [pipe EXCEPT ![s].at = "done"] /\ UNCHANGED toProc
       ELSE /\ Len(toProc) < QueueCap
            /\ toProc' = Append(toProc,
                           [kind |-> "data", side |-> s, frame |-> Head(pipe[s].left)])
            /\ pipe' = [pipe EXCEPT ![s].left = Tail(@)]
    /\ UNCHANGED <<side, main, bodies, broken, fromProc, stream, proc, passing, chunks, passed>>

\* Reading the body fails: the loop ends as it does at the end of the body.
PipeBreaks(s) ==
    /\ pipe[s].at = "body" /\ pipe[s].left # <<>>
    /\ pipe' = [pipe EXCEPT ![s].left = <<>>]
    /\ broken' = [broken EXCEPT ![s] = TRUE]
    /\ UNCHANGED <<side, main, bodies, toProc, fromProc, stream, proc, passing, chunks, passed>>

PipeEnd(s) ==
    /\ pipe[s].at = "body" /\ pipe[s].left = <<>>
    /\ pipe' = [pipe EXCEPT ![s].at = "done"]
    /\ IF stream = "closed" THEN UNCHANGED toProc
       ELSE /\ Len(toProc) < QueueCap
            /\ toProc' = Append(toProc, [kind |-> "eos", side |-> s, frame |-> 0])
    /\ UNCHANGED <<side, main, bodies, broken, fromProc, stream, proc, passing, chunks, passed>>

-----------------------------------------------------------------------------
(* The stream and the processor.                                           *)

\* c.process(..) returns, or fails; an open stream may end at any time.  The
\* task then drops both channels: what the processor has already sent is still
\* received, what it has not read is lost.
StreamChanges ==
    /\ \/ stream = "opening" /\ stream' \in {"open", "closed"}
       \/ stream = "open" /\ stream' = "closed"
    /\ toProc' = IF stream' = "closed" THEN <<>> ELSE toProc
    /\ UNCHANGED <<side, main, bodies, pipe, broken, fromProc, proc, passing, chunks, passed>>

\* The k chunks in which the processor sends back what it got.
InChunks(got, s, k) ==
    [i \in 1..k |-> [kind |-> "chunk", side |-> s, eos |-> i = k,
                     data |-> IF i < k THEN SubSeq(got, i, i)
                              ELSE SubSeq(got, k, Len(got))]]

ProcReads ==
    /\ stream = "open" /\ toProc # <<>> /\ proc.owes = <<>>
    /\ toProc' = Tail(toProc)
    /\ LET m == Head(toProc) IN
       \/ m.kind = "headers" /\ proc' = [got |-> <<>>, owes |->
             <<[kind |-> "headers", side |-> m.side, eos |-> FALSE, data |-> <<>>]>>]
       \/ m.kind = "data" /\ proc' = [proc EXCEPT !.got = Append(@, m.frame)]
       \/ m.kind = "eos" /\ \E k \in Splits :
             (k = 1 \/ k <= Len(proc.got)) /\ proc' = [got |-> <<>>, owes |-> InChunks(proc.got, m.side, k)]
    /\ UNCHANGED <<side, main, bodies, pipe, broken, fromProc, stream, passing, chunks, passed>>

\* responses.message() and tx_resp.send(item).
ProcAnswers ==
    /\ stream = "open" /\ proc.owes # <<>> /\ Len(fromProc) < QueueCap
    /\ fromProc' = Append(fromProc, Head(proc.owes))
    /\ proc' = [proc EXCEPT !.owes = Tail(@)]
    /\ UNCHANGED <<side, main, bodies, pipe, broken, toProc, stream, passing, chunks, passed>>

EpNext ==
    \/ SendHeaders \/ Receive \/ BadMutation \/ PassChunk \/ ReadChunk \/ UpstreamAnswered
    \/ \E s \in Side : PipeFrame(s) \/ PipeBreaks(s) \/ PipeEnd(s)
    \/ StreamChanges \/ ProcReads \/ ProcAnswers

\* The gateway's tasks run, the stream is opened or refused, the processor
\* answers, and the upstream reads the body it is given.
EpFairness ==
    /\ WF_epVars(SendHeaders) /\ WF_epVars(Receive) /\ WF_epVars(PassChunk)
    /\ WF_epVars(ReadChunk)
    /\ \A s \in Side : WF_epVars(PipeFrame(s)) /\ WF_epVars(PipeEnd(s))
    /\ WF_epVars(stream = "opening" /\ StreamChanges)
    /\ WF_epVars(ProcReads) /\ WF_epVars(ProcAnswers)

EpSpec == EpInit /\ [][EpNext]_epVars /\ EpFairness

-----------------------------------------------------------------------------
\* mutate_request and mutate_response return: with the mutated message, or with
\* an error when the stream ends.
MutationEnds == (main = "loop") ~> (main \in {"idle", "failed"})

\* A body goes through the processor whole and in order: what upstream, or the
\* client, has read of it once the channel is empty is what was sent, unless
\* reading the original failed.
BodyThroughProcessor ==
    \A s \in Side :
        /\ IsPrefix(passed[s], bodies[s])
        /\ (main = "idle" /\ side = s /\ chunks = <<>> /\ ~broken[s]) =>
              passed[s] = bodies[s]
=============================================================================
