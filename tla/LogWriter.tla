----------------------------- MODULE LogWriter -----------------------------
(***************************************************************************)
(* The logging thread of core/src/telemetry: NonBlocking puts lines into a *)
(* bounded channel, one worker takes them out in batches and writes each   *)
(* batch with vectored writes, and WorkerGuard, which main holds, asks the *)
(* worker to finish when main returns.                                     *)
(*                                                                         *)
(* setup_logging builds the writer with lossy(false): a full channel makes *)
(* the thread that logs wait.  NON_BLOCKING keeps a sender for ever, so    *)
(* the channel is never disconnected.  The second send of the guard is a   *)
(* rendezvous on a channel of capacity zero.                               *)
(***************************************************************************)
EXTENDS Naturals, Sequences

CONSTANTS
  Logger,      \* threads that log
  LineLimit,   \* buffered_lines_limit
  GroupSize,   \* GROUP_SIZE, the lines of a batch
  MaxLines,    \* lines each thread logs
  Ask          \* the message Msg::Shutdown

Line == Logger \X Nat

ASSUME LogAssumption == LineLimit \in Nat \ {0} /\ GroupSize \in Nat \ {0} /\ Ask \notin Line

VARIABLES
  logged,    \* of each thread: how many lines it has passed to write_vec
  lblocked,  \* the threads inside channel.send
  lqueue,    \* the channel: lines <<thread, number>> and Ask
  lbatch,    \* bytes_buffer
  lstop,     \* res of work() is Err(Shutdown)
  lphase,    \* the worker: "recv", "drain", "write", "parked" or "gone"
  lout,      \* the lines standard output has got
  llost,     \* lines of a batch whose write failed
  lguard,    \* the guard: "held", "asking", "waiting", "dropped" or "given up"
  lpromised  \* the lines that were in the channel before the guard's message

worker == <<lbatch, lstop, lphase, lout, llost>>
guard == <<lguard, lpromised>>
lvars == <<logged, lblocked, lqueue, worker, guard>>

LogInit ==
  /\ logged = [t \in Logger |-> 0] /\ lblocked = {} /\ lqueue = <<>>
  /\ lbatch = <<>> /\ lstop = FALSE /\ lphase = "recv" /\ lout = <<>> /\ llost = {}
  /\ lguard = "held" /\ lpromised = {}

LinesOf(s) == {s[i] : i \in DOMAIN s} \ {Ask}

-----------------------------------------------------------------------------
(* NonBlocking::write_vec *)

(* The line waits for room in the channel. *)
WriteVec(t) ==
  /\ t \notin lblocked /\ logged[t] < MaxLines
  /\ logged' = [logged EXCEPT ![t] = @ + 1]
  /\ lblocked' = lblocked \cup {t}
  /\ UNCHANGED <<lqueue, worker, guard>>

(* channel.send returns: the line is in, or the worker is gone. *)
Sent(t) ==
  /\ t \in lblocked
  /\ \/ /\ lphase # "gone" /\ Len(lqueue) < LineLimit
        /\ lqueue' = Append(lqueue, <<t, logged[t]>>)
     \/ lphase = "gone" /\ UNCHANGED lqueue
  /\ lblocked' = lblocked \ {t}
  /\ UNCHANGED <<logged, worker, guard>>

-----------------------------------------------------------------------------
(* Worker::work *)

(* The first recv of a batch blocks; an Ask ends the loop at once. *)
Recv ==
  /\ lphase = "recv" /\ lqueue # <<>>
  /\ lqueue' = Tail(lqueue)
  /\ \/ /\ Head(lqueue) = Ask
        /\ lphase' = "parked" /\ UNCHANGED lbatch
     \/ /\ Head(lqueue) # Ask
        /\ lbatch' = <<Head(lqueue)>>
        /\ lphase' = "drain"
  /\ UNCHANGED <<logged, lblocked, lstop, lout, llost, guard>>

(* A variant of TryRecv: an Ask in the middle of a batch returns at once. *)
TryRecvReturns ==
  /\ lphase = "drain" /\ Len(lbatch) < GroupSize /\ lqueue # <<>>
  /\ lqueue' = Tail(lqueue)
  /\ IF Head(lqueue) = Ask THEN lbatch' = <<>> /\ lphase' = "parked"
     ELSE lbatch' = Append(lbatch, Head(lqueue)) /\ lphase' = lphase
  /\ UNCHANGED <<logged, lblocked, lstop, lout, llost, guard>>

(* try_recv has a message.  An Ask is remembered and the batch goes on. *)
TryRecv ==
  /\ lphase = "drain" /\ Len(lbatch) < GroupSize /\ lqueue # <<>>
  /\ lqueue' = Tail(lqueue)
  /\ IF Head(lqueue) = Ask THEN lstop' = TRUE /\ UNCHANGED lbatch
     ELSE lbatch' = Append(lbatch, Head(lqueue)) /\ UNCHANGED lstop
  /\ UNCHANGED <<logged, lblocked, lphase, lout, llost, guard>>

(* can_push is false or the channel is empty: the batch is written. *)
EndBatch ==
  /\ lphase = "drain" /\ (Len(lbatch) = GroupSize \/ lqueue = <<>>)
  /\ lphase' = "write"
  /\ UNCHANGED <<logged, lblocked, lqueue, lbatch, lstop, lout, llost, guard>>

(* A variant of Unwritten: advance_slices is left out of the loop. *)
UnwrittenAll(s, n) == IF n = Len(s) THEN <<>> ELSE s

(* What is left after advance_slices. *)
Unwritten(s, n) == SubSeq(s, n + 1, Len(s))

(* write_all_vectored: a write takes some of the lines. *)
WriteVectored(n) ==
  /\ lphase = "write" /\ n \in 1..Len(lbatch)
  /\ lout' = lout \o SubSeq(lbatch, 1, n)
  /\ lbatch' = Unwritten(lbatch, n)
  /\ UNCHANGED <<logged, lblocked, lqueue, lstop, lphase, llost, guard>>

(* flush returns and work() its result. *)
Flushed ==
  /\ lphase = "write" /\ lbatch = <<>>
  /\ lphase' = IF lstop THEN "parked" ELSE "recv"
  /\ lstop' = FALSE
  /\ UNCHANGED <<logged, lblocked, lqueue, lbatch, lout, llost, guard>>

(* A write or the flush fails: Err(Error) replaces the result of the batch, an
   Ask that was in it is forgotten, and the loop goes on. *)
WriteFails ==
  /\ lphase = "write"
  /\ llost' = llost \cup LinesOf(lbatch)
  /\ lbatch' = <<>> /\ lstop' = FALSE /\ lphase' = "recv"
  /\ UNCHANGED <<logged, lblocked, lqueue, lout, guard>>

-----------------------------------------------------------------------------
(* WorkerGuard::drop *)

(* main returns.  Ask is sent with a timeout of 100 ms, *)
DropGuard ==
  /\ lguard = "held"
  /\ lguard' = "asking"
  /\ UNCHANGED <<logged, lblocked, lqueue, worker, lpromised>>

Asked ==
  /\ lguard = "asking" /\ Len(lqueue) < LineLimit
  /\ lqueue' = Append(lqueue, Ask)
  /\ lpromised' = LinesOf(lqueue) \cup LinesOf(lbatch)
  /\ lguard' = "waiting"
  /\ UNCHANGED <<logged, lblocked, worker>>

(* then the guard and the worker meet in shutdown.send_timeout and
   shutdown.recv; the worker flushes the writer and ends.  It also ends when
   the guard has gone with its sender. *)
Meet ==
  /\ lguard \in {"waiting", "given up"} /\ lphase = "parked"
  /\ lguard' = IF lguard = "waiting" THEN "dropped" ELSE lguard
  /\ lphase' = "gone"
  /\ UNCHANGED <<logged, lblocked, lqueue, lbatch, lstop, lout, llost, lpromised>>

(* Either timeout passes: main returns without waiting any longer. *)
GiveUpAsking ==
  /\ lguard \in {"asking", "waiting"}
  /\ lguard' = "given up"
  /\ UNCHANGED <<logged, lblocked, lqueue, worker, lpromised>>

-----------------------------------------------------------------------------
LogNext ==
  \/ \E t \in Logger : WriteVec(t) \/ Sent(t)
  \/ Recv \/ TryRecv \/ EndBatch \/ Flushed \/ WriteFails
  \/ \E n \in 1..GroupSize : WriteVectored(n)
  \/ DropGuard \/ Asked \/ Meet \/ GiveUpAsking

LogSpec == LogInit /\ [][LogNext]_lvars

(* A line reaches standard output at most once, the lines of a thread in the
   order it logged them; a guard that met the worker leaves no line behind
   that was in the channel before it asked, unless its write failed.  ("Attempt
   to wait for `Worker` to flush all messages before dropping.") *)
LinesFlushedInOrder ==
  /\ \A i, j \in DOMAIN lout : i < j /\ lout[i][1] = lout[j][1] => lout[i][2] < lout[j][2]
  /\ lguard = "dropped" => lpromised \subseteq LinesOf(lout) \cup llost
=============================================================================
