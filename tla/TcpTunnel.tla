---------------------------- MODULE TcpTunnel ----------------------------
(***************************************************************************)
(* One downstream connection that is carried as a byte stream: the steps   *)
(* of proxy/gateway.rs and proxy/tcpproxy.rs that pick what to do with it  *)
(* (each of them reads the store again), and then core/src/copy.rs, which  *)
(* moves the bytes both ways until both directions have ended.  The same   *)
(* copy carries an upgraded HTTP connection (httpproxy.rs handle_upgrade). *)
(*                                                                         *)
(* A direction is named after the side its bytes come from.  A peer ends   *)
(* its side cleanly ("fin": FIN, close_notify, END_STREAM), breaks off in  *)
(* a way the code ignores ("cut": reset, broken pipe, unexpected EOF), or  *)
(* fails in another way ("odd").                                           *)
(***************************************************************************)
EXTENDS Integers, Sequences, FiniteSets, SequencesExt

CONSTANTS TListenerSets,  \* the sets of listeners the bind may have
          TSni,           \* server names of client hellos
          MaxBytes,       \* bound, per side: bytes the peer sends
          TSizes,         \* <<initial, large, jumbo>> buffer sizes
          TThresholds     \* <<large, jumbo>>: bytes copied before a resize

VARIABLES tconn,  \* [at, lis, sni, https, outcome]
          tpeer,  \* per side: "open", "fin", "cut" or "odd"
          tsent,  \* per side: number of bytes the peer sent
          tin,    \* per side: bytes in the socket, not read yet
          tdir,   \* per direction: [at, buf, err] of its copy
          tgot,   \* per direction: bytes the other peer was given
          ttold   \* per direction: the other peer was told the end

tunnelVars == <<tconn, tpeer, tsent, tin, tdir, tgot, ttold>>

TSides == {"down", "up"}
TOther(d) == CHOOSE e \in TSides : e # d
NoLis == [protocol |-> "none", host |-> "none", route |-> "none"]
TBroken(p) == tpeer[p] \in {"cut", "odd"}

Here(stage) == tconn.at = stage /\ tconn.outcome = "pending"
TGoto(stage) == tconn' = [tconn EXCEPT !.at = stage]
TEnd(outcome) == tconn' = [tconn EXCEPT !.at = "gone", !.outcome = outcome]
CopyIdle == UNCHANGED <<tpeer, tsent, tin, tdir, tgot, ttold>>

-----------------------------------------------------------------------------
(* Setting the tunnel up                                                    *)

(* What a read of the bind's listeners finds: the store may have changed   *)
(* since the step before.  <<>>: the bind is gone.                         *)
Stored == {<<>>} \cup {<<s>> : s \in TListenerSets}

(* bind_protocol: one protocol for the whole bind, the first of this list  *)
(* that some listener has.                                                 *)
BindProtocol(ls) ==
    LET some(p) == \E l \in ls : l.protocol = p IN
    CASE some("HBONE") -> "hbone" [] some("HTTPS") -> "https"
      [] some("TLS") -> "tls" [] some("TCP") -> "tcp" [] OTHER -> "http"

(* proxy_bind; the bind may be gone from the store: unwrap.                *)
ProxyBind ==
    /\ Here("accepted")
    /\ \E st \in Stored :
          IF st = <<>> THEN TEnd("panic")
          ELSE LET p == BindProtocol(st[1]) IN
            CASE p \in {"tls", "https"} ->
                     \E n \in TSni :
                        tconn' = [tconn EXCEPT !.at = "tls", !.sni = n, !.https = (p = "https")]
              [] p = "tcp" -> TGoto("tcp")
              [] p = "hbone" -> TGoto("hbone")
              [] OTHER -> TEnd("http")
    /\ CopyIdle

(* ListenerSet::best_match: the exact name, a wildcard, no name.           *)
BestMatch(ls, name) ==
    LET with(h) == {l \in ls : l.host = h} IN
    CASE with(name) # {} -> with(name)
      [] with("*") # {} -> with("*")
      [] OTHER -> with("")

(* terminate_tls reads the listeners a second time; the one it finds must  *)
(* have a TLS configuration (unwrap).  HTTPS goes on to the HTTP proxy.    *)
TerminateTls ==
    /\ Here("tls")
    /\ \/ TEnd("closed")                      \* the handshake fails
       \/ \E st \in Stored :
          IF st = <<>> THEN TEnd("panic")
          ELSE LET ms == BestMatch(st[1], tconn.sni) IN
            \/ ms = {} /\ TEnd("closed")
            \/ \E l \in ms :
                  CASE l.protocol \notin {"TLS", "HTTPS"} -> TEnd("panic")
                    [] tconn.https -> TEnd("http")
                    [] OTHER -> tconn' = [tconn EXCEPT !.at = "route", !.lis = l]
    /\ CopyIdle

(* terminate_hbone: without a CA, an identity or a handshake the connection *)
(* is dropped; otherwise every CONNECT is served as HTTP.                   *)
TerminateHbone ==
    /\ Here("hbone")
    /\ \E o \in {"closed", "http"} : TEnd(o)
    /\ CopyIdle

(* proxy_tcp: exactly one listener, or the connection is dropped.          *)
ProxyTcp ==
    /\ Here("tcp")
    /\ \E st \in Stored :
          CASE st = <<>> -> TEnd("panic")
            [] st # <<>> /\ Cardinality(st[1]) = 1 ->
                   \E l \in st[1] : tconn' = [tconn EXCEPT !.at = "route", !.lis = l]
            [] OTHER -> TEnd("closed")
    /\ CopyIdle

(* proxy_internal up to the dial: the selected listener's route and its    *)
(* backend; only an opaque backend with an address can be dialled.         *)
SelectTarget ==
    /\ Here("route")
    /\ CASE tconn.lis.route = "address" -> TGoto("dial")
         [] tconn.lis.route = "hostname" -> TEnd("panic")
         [] OTHER -> TEnd("error")    \* no route, no backend, service, invalid
    /\ CopyIdle

(* Socket::dial, then the split of both sockets into a copy per direction. *)
Dial ==
    /\ Here("dial")
    /\ TEnd("error") \/ tconn' = [tconn EXCEPT !.at = "copy", !.lis = NoLis, !.sni = ""]
    /\ CopyIdle

(* handle_upgrade: the types must agree; a task of its own does the copy.  *)
HandleUpgrade ==
    /\ Here("upgrade")
    /\ TEnd("error") \/ TGoto("copy")
    /\ CopyIdle

-----------------------------------------------------------------------------
(* The peers; what the client sends before the copy waits in its socket.    *)

PeerSends(p) ==
    /\ tconn.at = "copy" /\ tpeer[p] = "open" /\ tsent[p] < MaxBytes[p]
    /\ tsent' = [tsent EXCEPT ![p] = @ + 1]
    /\ tin' = [tin EXCEPT ![p] = Append(@, tsent[p] + 1)]
    /\ UNCHANGED <<tconn, tpeer, tdir, tgot, ttold>>

PeerFins(p) ==
    /\ tconn.at = "copy" /\ tpeer[p] = "open"
    /\ tpeer' = [tpeer EXCEPT ![p] = "fin"]
    /\ UNCHANGED <<tconn, tsent, tin, tdir, tgot, ttold>>

(* What was not read yet may be lost with the connection.                  *)
PeerBreaks(p) ==
    /\ tconn.at = "copy" /\ ~TBroken(p)
    /\ \E how \in {"cut", "odd"} : tpeer' = [tpeer EXCEPT ![p] = how]
    /\ \E n \in 0..Len(tin[p]) : tin' = [tin EXCEPT ![p] = SubSeq(@, 1, n)]
    /\ UNCHANGED <<tconn, tsent, tdir, tgot, ttold>>

-----------------------------------------------------------------------------
(* copy_bidirectional                                                       *)

Copying(d, stage) == Here("copy") /\ tdir[d].at = stage
Advance(d, stage, err) == tdir' = [tdir EXCEPT ![d].at = stage, ![d].err = @ \/ err]

(* The buffer grows once when a threshold of copied bytes is crossed.      *)
BufferSize(d) ==
    TSizes[1 + Cardinality({i \in 1..2 : TThresholds[i] <= Len(tgot[d])})]

(* BufReader::poll_bytes: only when nothing is left of the last buffer.    *)
ReadBytes(d) ==
    /\ Copying(d, "copy") /\ tdir[d].buf = <<>> /\ tin[d] # <<>>
    /\ \E n \in 1..Len(tin[d]) :
         /\ n <= BufferSize(d)
         /\ tdir' = [tdir EXCEPT ![d].buf = SubSeq(tin[d], 1, n)]
         /\ tin' = [tin EXCEPT ![d] = SubSeq(@, n + 1, Len(@))]
    /\ UNCHANGED <<tconn, tpeer, tsent, tgot, ttold>>

(* The end of the source, or an error of it (ignore_io_errors).            *)
ReadEnds(d) ==
    /\ Copying(d, "copy") /\ tdir[d].buf = <<>> /\ tin[d] = <<>> /\ tpeer[d] # "open"
    /\ Advance(d, IF tpeer[d] = "fin" THEN "flush" ELSE "shut", tpeer[d] = "odd")
    /\ UNCHANGED <<tconn, tpeer, tsent, tin, tgot, ttold>>

(* poll_write_buf may take only a part: the rest is kept for the next poll. *)
WrittenDropsRest(d, n) == tdir' = [tdir EXCEPT ![d].buf = <<>>]
Written(d, n) == tdir' = [tdir EXCEPT ![d].buf = SubSeq(@, n + 1, Len(@))]

WriteBytes(d) ==
    /\ Copying(d, "copy") /\ tdir[d].buf # <<>> /\ ~TBroken(TOther(d))
    /\ \E n \in 1..Len(tdir[d].buf) :
         /\ tgot' = [tgot EXCEPT ![d] = @ \o SubSeq(tdir[d].buf, 1, n)]
         /\ Written(d, n)
    /\ UNCHANGED <<tconn, tpeer, tsent, tin, ttold>>

(* A write, or the flush, to a broken peer: ignored for a cut connection,  *)
(* except that a write of nothing (WriteZero) is an error.                 *)
WriteFails(d) ==
    /\ Copying(d, "copy") /\ tdir[d].buf # <<>> /\ TBroken(TOther(d))
    /\ \E zero \in BOOLEAN : Advance(d, "shut", zero \/ tpeer[TOther(d)] = "odd")
    /\ UNCHANGED <<tconn, tpeer, tsent, tin, tgot, ttold>>

FlushWriter(d) ==
    /\ Copying(d, "flush")
    /\ Advance(d, "shut", tpeer[TOther(d)] = "odd")
    /\ UNCHANGED <<tconn, tpeer, tsent, tin, tgot, ttold>>

(* shutdown of the writer: as soon as this direction's copy has ended.     *)
MayShutdownLast(d) == Copying(d, "shut") /\ tdir[TOther(d)].at # "copy"
MayShutdown(d) == Copying(d, "shut")

ShutdownWriter(d) ==
    /\ MayShutdown(d)
    /\ \E e \in IF TBroken(TOther(d)) THEN BOOLEAN ELSE {FALSE} : Advance(d, "done", e)
    /\ ttold' = [ttold EXCEPT ![d] = ~TBroken(TOther(d))]
    /\ UNCHANGED <<tconn, tpeer, tsent, tin, tgot>>

(* join!, not try_join!: both directions run to their end.                 *)
Joined == \A d \in TSides : tdir[d].at = "done"

CopyReturns ==
    /\ Here("copy") /\ Joined
    /\ TEnd(IF \E d \in TSides : tdir[d].err THEN "copyfailed" ELSE "copied")
    /\ CopyIdle

-----------------------------------------------------------------------------
NothingCopied ==
    /\ tpeer = [p \in TSides |-> "open"]
    /\ tsent = [p \in TSides |-> 0]
    /\ tin = [p \in TSides |-> <<>>]
    /\ tdir = [d \in TSides |-> [at |-> "copy", buf |-> <<>>, err |-> FALSE]]
    /\ tgot = [d \in TSides |-> <<>>]
    /\ ttold = [d \in TSides |-> FALSE]

Connection(stage, outcome) ==
    [at |-> stage, lis |-> NoLis, sni |-> "", https |-> FALSE, outcome |-> outcome]

TunnelInit ==
    /\ tconn \in {Connection(s, "pending") : s \in {"accepted", "upgrade"}}
    /\ NothingCopied

CopyStep(d) == \/ ReadBytes(d) \/ ReadEnds(d) \/ WriteBytes(d) \/ WriteFails(d)
               \/ FlushWriter(d) \/ ShutdownWriter(d)

SetupStep == \/ ProxyBind \/ TerminateTls \/ TerminateHbone \/ ProxyTcp
             \/ SelectTarget \/ Dial \/ HandleUpgrade

TunnelNext ==
    \/ SetupStep
    \/ \E p \in TSides : PeerSends(p) \/ PeerFins(p) \/ PeerBreaks(p)
    \/ \E d \in TSides : CopyStep(d)
    \/ CopyReturns

(* The runtime polls a task that can go on, and a peer that was told the   *)
(* end of the other side ends its own in time.                             *)
TunnelFairness ==
    /\ WF_tunnelVars(SetupStep) /\ WF_tunnelVars(CopyReturns)
    /\ \A d \in TSides : WF_tunnelVars(CopyStep(d))
    /\ \A p \in TSides : WF_tunnelVars(ttold[TOther(p)] /\ PeerFins(p))

TunnelSpec == TunnelInit /\ [][TunnelNext]_tunnelVars /\ TunnelFairness

-----------------------------------------------------------------------------
(* Each peer is given the bytes the other sent, in order and without a     *)
(* gap, and is told the end, or loses the connection, only after the last  *)
(* of them, unless one of the two broke off (CopyBuf::poll and             *)
(* copy_bidirectional, for any split into reads and partial writes).       *)
TunnelFaithful ==
    \A d \in TSides :
       LET all == [i \in 1..tsent[d] |-> i] IN
       /\ IsPrefix(tgot[d] \o tdir[d].buf \o tin[d], all)
       /\ TBroken(d) \/ tgot[d] \o tdir[d].buf \o tin[d] = all
       /\ (ttold[d] \/ tconn.outcome \in {"copied", "copyfailed"})
             => tgot[d] = all \/ TBroken(d) \/ TBroken(TOther(d))

(* When one peer has ended its side, the connection ends: the end is       *)
(* passed on while the other direction still runs, so that the other peer  *)
(* can answer and end too (the shutdown in each half of                    *)
(* copy_bidirectional).                                                    *)
TunnelEnds == (tpeer["down"] = "fin") ~> (tconn.at = "gone")

============================================================================
