----------------------------- MODULE HyperPool -----------------------------
(***************************************************************************)
(* The upstream HTTP client: the vendored hyper client                     *)
(* (hyper-util-fork/src/client/legacy/{client,pool}.rs) as                 *)
(* agentgateway/src/client/mod.rs drives it.                               *)
(*                                                                         *)
(* Pool keys do not interact, so the module follows the requests of one    *)
(* key: one target, address, transport and HTTP version (client/mod.rs,    *)
(* PoolKey).  A request races a Checkout of the pool against a connection  *)
(* of its own.  A connection is named after the request, and the attempt   *)
(* of it, that opened it.  Every section under the pool's mutex is one     *)
(* step.                                                                   *)
(***************************************************************************)
EXTENDS Naturals, Sequences, FiniteSets, SequencesExt

CONSTANTS
  Req,        \* requests for the key
  MaxCloses   \* how many connections the server may close (a bound)

ASSUME HyperPoolAssumption == MaxCloses \in Nat

Attempt == 1 .. (MaxCloses + 1)
Conn == Req \X Attempt
NoConn == <<>>

\* what the channel of a Checkout holds when it holds no connection
Empty == <<"empty">>
Waiting == <<"waiting">>
Canceled == <<"canceled">>

VARIABLES
  version,     \* the request version in the key: Http2, or Auto
  alpn,        \* what the server selects in the TLS handshake: h1 or h2
  connecting,  \* PoolInner::connecting holds the key
  idle,        \* PoolInner::idle of the key, the latest entry last
  waiters,     \* PoolInner::waiters of the key: whose sender is parked
  slot,        \* the oneshot channel of a request's Checkout
  aged,        \* idle entries older than the idle timeout
  task,        \* the connection futures and, later, the connections
  rq,          \* the requests: where they are, attempt, connection held
  closes       \* connections the server closed so far

poolVars == <<version, alpn, connecting, idle, waiters, slot, aged, task, rq, closes>>

CanShare == version = "Http2" \/ alpn = "h2"

NoTask == [at |-> "none", locked |-> FALSE, bg |-> FALSE]

Unused ==
  /\ connecting = FALSE
  /\ idle = <<>>
  /\ waiters = <<>>
  /\ slot = [r \in Req |-> Empty]
  /\ aged = {}
  /\ task = [c \in Conn |-> NoTask]
  /\ closes = 0

Requests(stage) == [r \in Req |-> [at |-> stage, try |-> 1, conn |-> NoConn, reused |-> FALSE]]

PoolInit ==
  /\ version \in {"Auto", "Http2"}
  /\ alpn \in {"h1", "h2"}
  /\ rq = Requests("new")
  /\ Unused

(***************************************************************************)
(* The pool's operations.  Each returns the new value of the record        *)
(* [idle, waiters, slot, connecting].                                      *)
(***************************************************************************)
Inner == [idle |-> idle, waiters |-> waiters, slot |-> slot, connecting |-> connecting]

\* Poolable::is_open
IsOpen(c) == task[c].at = "live"

\* PoolInner::put of an HTTP/2 connection: every parked sender gets a clone
PutShared(p, c) ==
  IF p.idle # <<>> THEN p
  ELSE [p EXCEPT !.slot = [r \in Req |-> IF r \in Range(p.waiters) THEN c ELSE p.slot[r]],
                 !.waiters = <<>>,
                 !.idle = <<c>>]

\* PoolInner::put of an HTTP/1 connection: the first parked sender, or idle
PutUnique(p, c) ==
  IF p.waiters # <<>>
  THEN [p EXCEPT !.slot[Head(p.waiters)] = c, !.waiters = Tail(p.waiters)]
  ELSE [p EXCEPT !.idle = Append(p.idle, c)]

Put(p, c) == IF CanShare THEN PutShared(p, c) ELSE PutUnique(p, c)

\* a connected that leaves the parked senders waiting
ConnectedKeeps(p) == [p EXCEPT !.connecting = FALSE]

\* PoolInner::connected: the lock goes, the parked senders are dropped
Connected(p) ==
  [p EXCEPT !.connecting = FALSE,
            !.slot = [r \in Req |-> IF r \in Range(p.waiters) THEN Canceled ELSE p.slot[r]],
            !.waiters = <<>>]

\* Drop for Checkout, with clean_waiters
Unpark(p, r) ==
  [p EXCEPT !.slot[r] = Empty, !.waiters = SelectSeq(p.waiters, LAMBDA w : w # r)]

\* Drop for Connecting
DropConnecting(p, c) == IF task[c].locked THEN Connected(p) ELSE p

SetInner(p) ==
  /\ idle' = p.idle
  /\ waiters' = p.waiters
  /\ slot' = p.slot
  /\ connecting' = p.connecting

Usable(c) == IsOpen(c) /\ c \notin aged

\* IdlePopper::pop: how many entries stay when the last usable one is taken
LastUsable == CHOOSE i \in 0 .. Len(idle) :
  /\ i > 0 => Usable(idle[i])
  /\ \A j \in (i + 1) .. Len(idle) : ~Usable(idle[j])

\* connections the drop of the last handle closes: HTTP/1 only
Closed(S) == [c \in Conn |-> IF c \in S /\ ~CanShare THEN [task[c] EXCEPT !.at = "closed"] ELSE task[c]]

Slotted(r) == {slot[r]} \cap Conn

Hold(r, c, reused) ==
  rq' = [rq EXCEPT ![r].at = "sending", ![r].conn = c, ![r].reused = reused]

Mine(r) == <<r, rq[r].try>>

(***************************************************************************)
(* one_connection_for                                                      *)
(***************************************************************************)
\* the first poll of Checkout: an idle connection, or a parked sender
PollCheckout(r) ==
  /\ rq[r].at = "new"
  /\ LET i == LastUsable
         popped == {idle[j] : j \in (i + 1) .. Len(idle)}
     IN IF i > 0
        THEN /\ Hold(r, idle[i], TRUE)
             /\ idle' = SubSeq(idle, 1, IF CanShare THEN i ELSE i - 1)
             /\ task' = Closed(popped)
             /\ aged' = aged \ popped
             /\ UNCHANGED <<waiters, slot>>
        ELSE /\ rq' = [rq EXCEPT ![r].at = "parked"]
             /\ idle' = <<>>
             /\ task' = Closed(popped)
             /\ aged' = {}
             /\ waiters' = Append(waiters, r)
             /\ slot' = [slot EXCEPT ![r] = Waiting]
  /\ UNCHANGED <<version, alpn, connecting, closes>>

\* the first poll of connect_to: Pool::connecting takes the lock for HTTP/2
StartConnect(r) ==
  /\ rq[r].at = "parked"
  /\ IF version = "Http2" /\ connecting
     THEN /\ rq' = [rq EXCEPT ![r].at = "checkoutOnly"]
          /\ UNCHANGED <<task, connecting>>
     ELSE /\ rq' = [rq EXCEPT ![r].at = "racing"]
          /\ task' = [task EXCEPT ![Mine(r)] =
                        [at |-> "dial", locked |-> version = "Http2", bg |-> FALSE]]
          /\ connecting' = (connecting \/ version = "Http2")
  /\ UNCHANGED <<version, alpn, idle, waiters, slot, aged, closes>>

\* a poll_waiter that goes on waiting for its channel after a closed value
WaiterWinsWaits(r) ==
  /\ rq[r].at \in {"racing", "checkoutOnly"}
  /\ slot[r] \in Conn
  /\ slot' = [slot EXCEPT ![r] = Empty]
  /\ IF IsOpen(slot[r])
     THEN /\ Hold(r, slot[r], TRUE)
          /\ task' = IF rq[r].at = "racing" THEN [task EXCEPT ![Mine(r)].bg = TRUE] ELSE task
     ELSE /\ rq' = [rq EXCEPT ![r].at = "checkoutOnly"]
          /\ UNCHANGED task
  /\ UNCHANGED <<version, alpn, connecting, idle, waiters, aged, closes>>

\* Checkout::poll_waiter found a connection in the channel
WaiterWins(r) ==
  /\ rq[r].at \in {"racing", "checkoutOnly"}
  /\ slot[r] \in Conn
  /\ slot' = [slot EXCEPT ![r] = Empty]
  /\ IF IsOpen(slot[r])
     THEN /\ Hold(r, slot[r], TRUE)
          /\ task' = IF rq[r].at = "racing" THEN [task EXCEPT ![Mine(r)].bg = TRUE] ELSE task
     ELSE /\ rq' = [rq EXCEPT ![r].at = IF @ = "racing" THEN "connOnly" ELSE "failed"]
          /\ UNCHANGED task
  /\ UNCHANGED <<version, alpn, connecting, idle, waiters, aged, closes>>

\* ... or that its sender was dropped: CheckoutNoLongerWanted is not
\* is_canceled, so the request fails and drops the connection it is opening
WaiterCanceled(r) ==
  /\ rq[r].at \in {"racing", "checkoutOnly"}
  /\ slot[r] = Canceled
  /\ rq' = [rq EXCEPT ![r].at = "failed"]
  /\ IF rq[r].at = "racing"
     THEN /\ SetInner(DropConnecting([Inner EXCEPT !.slot[r] = Empty], Mine(r)))
          /\ task' = [task EXCEPT ![Mine(r)] = [NoTask EXCEPT !.at = "closed"]]
     ELSE /\ SetInner([Inner EXCEPT !.slot[r] = Empty])
          /\ UNCHANGED task
  /\ UNCHANGED <<version, alpn, aged, closes>>

(***************************************************************************)
(* connect_to, polled by its request or, once that has a connection, in    *)
(* the background.  A poll may have seen the Checkout pending just before  *)
(* the pool served it, so these steps do not look at the channel.          *)
(***************************************************************************)
Owned(c) == ~task[c].bg /\ rq[c[1]].at \in {"racing", "connOnly"} /\ rq[c[1]].try = c[2]

\* the future ends with an error other than Canceled
ConnectFails(c) ==
  LET r == c[1] IN
  /\ task[c].at \in {"dial", "handshake"}
  /\ task' = [Closed(IF Owned(c) THEN Slotted(r) ELSE {}) EXCEPT ![c] = [NoTask EXCEPT !.at = "closed"]]
  /\ SetInner(IF Owned(c) THEN Unpark(DropConnecting(Inner, c), r) ELSE DropConnecting(Inner, c))
  /\ rq' = IF Owned(c) THEN [rq EXCEPT ![r].at = "failed"] ELSE rq
  /\ UNCHANGED <<version, alpn, aged, closes>>

\* the socket is there; ALPN h2 takes the lock, or gives way to its holder
Dialed(c) ==
  LET r == c[1]
      upgrade == version = "Auto" /\ alpn = "h2"
  IN
  /\ task[c].at = "dial"
  /\ IF upgrade /\ connecting
     THEN /\ task' = [task EXCEPT ![c] = [NoTask EXCEPT !.at = "closed"]]
          /\ rq' = IF ~Owned(c) THEN rq
                   ELSE [rq EXCEPT ![r].at = IF @ = "racing" THEN "checkoutOnly" ELSE "failed"]
          /\ UNCHANGED connecting
     ELSE /\ task' = [task EXCEPT ![c].at = "handshake", ![c].locked = @ \/ upgrade]
          /\ connecting' = (connecting \/ upgrade)
          /\ UNCHANGED rq
  /\ UNCHANGED <<version, alpn, idle, waiters, slot, aged, closes>>

\* Pool::pooled: an HTTP/2 connection goes to the pool at once and unlocks
\* it.  The request has won its race and drops the Checkout; a connection
\* nobody waits for any more is dropped, which puts an HTTP/1 one back.
Handshaken(c) ==
  LET r == c[1]
      pooled == IF CanShare THEN Connected(PutShared(Inner, c)) ELSE Inner
  IN
  /\ task[c].at = "handshake"
  /\ IF Owned(c)
     THEN /\ Hold(r, c, FALSE)
          /\ SetInner(Unpark(pooled, r))
          /\ task' = [Closed(Slotted(r)) EXCEPT ![c] = [NoTask EXCEPT !.at = "live"]]
     ELSE /\ SetInner(IF CanShare THEN pooled ELSE PutUnique(pooled, c))
          /\ task' = [task EXCEPT ![c] = [NoTask EXCEPT !.at = "live"]]
          /\ UNCHANGED rq
  /\ UNCHANGED <<version, alpn, aged, closes>>

(***************************************************************************)
(* try_send_request, send_request                                          *)
(***************************************************************************)
\* the connection took the request, or gave it back unsent: it is sent
\* again if the connection was a reused one
Send(r) ==
  /\ rq[r].at = "sending"
  /\ rq' = IF IsOpen(rq[r].conn) THEN [rq EXCEPT ![r].at = "sent"]
           ELSE IF rq[r].reused
           THEN [rq EXCEPT ![r] = [at |-> "new", try |-> @.try + 1, conn |-> NoConn, reused |-> FALSE]]
           ELSE [rq EXCEPT ![r].at = "failed", ![r].conn = NoConn]
  /\ UNCHANGED <<version, alpn, connecting, idle, waiters, slot, aged, task, closes>>

\* a Respond that puts the connection back before its body is through
RespondPutsBack(r) ==
  LET c == rq[r].conn IN
  /\ rq[r].at = "sent"
  /\ IsOpen(c)
  /\ rq' = [rq EXCEPT ![r].at = "done", ![r].conn = NoConn]
  /\ task' = IF CanShare THEN task ELSE [task EXCEPT ![c].at = "draining"]
  /\ SetInner(IF CanShare THEN Inner ELSE PutUnique(Inner, c))
  /\ UNCHANGED <<version, alpn, aged, closes>>

\* the response's head; an HTTP/1 connection still streams the body
Respond(r) ==
  LET c == rq[r].conn IN
  /\ rq[r].at = "sent"
  /\ IsOpen(c)
  /\ rq' = [rq EXCEPT ![r].at = "done", ![r].conn = NoConn]
  /\ task' = IF CanShare THEN task ELSE [task EXCEPT ![c].at = "draining"]
  /\ UNCHANGED <<version, alpn, connecting, idle, waiters, slot, aged, closes>>

\* the connection died under the request: unsent (retried) or half done
SentBreaks(r) ==
  /\ rq[r].at = "sent"
  /\ task[rq[r].conn].at = "closed"
  /\ \/ rq' = [rq EXCEPT ![r].at = "failed", ![r].conn = NoConn]
     \/ /\ rq[r].reused
        /\ rq' = [rq EXCEPT ![r] = [at |-> "new", try |-> @.try + 1, conn |-> NoConn, reused |-> FALSE]]
  /\ UNCHANGED <<version, alpn, connecting, idle, waiters, slot, aged, task, closes>>

\* on_idle: the body is through, Drop for Pooled puts the connection back
Drained(c) ==
  /\ task[c].at = "draining"
  /\ task' = [task EXCEPT ![c].at = "live"]
  /\ SetInner(Put(Inner, c))
  /\ UNCHANGED <<version, alpn, aged, rq, closes>>

(***************************************************************************)
(* The outside: the caller's timeout drops the future, the server closes   *)
(* a connection, time passes.                                              *)
(***************************************************************************)
Abandon(r) ==
  LET c == Mine(r)
      opening == rq[r].at \in {"racing", "connOnly"}
      used == IF rq[r].at = "sent" THEN {rq[r].conn} ELSE {}
  IN
  /\ rq[r].at \in {"racing", "connOnly", "checkoutOnly", "sent"}
  /\ SetInner(LET p == Unpark(Inner, r) IN IF opening THEN DropConnecting(p, c) ELSE p)
  /\ task' = LET t == Closed(Slotted(r) \cup used)
             IN IF opening THEN [t EXCEPT ![c] = [NoTask EXCEPT !.at = "closed"]] ELSE t
  /\ rq' = [rq EXCEPT ![r].at = "dropped", ![r].conn = NoConn]
  /\ UNCHANGED <<version, alpn, aged, closes>>

Close(c) ==
  /\ task[c].at \in {"live", "draining"}
  /\ closes < MaxCloses
  /\ task' = [task EXCEPT ![c].at = "closed"]
  /\ closes' = closes + 1
  /\ UNCHANGED <<version, alpn, connecting, idle, waiters, slot, aged, rq>>

Age(c) ==
  /\ c \in Range(idle) \ aged
  /\ aged' = aged \cup {c}
  /\ UNCHANGED <<version, alpn, connecting, idle, waiters, slot, task, rq, closes>>

RequestStep(r) ==
  \/ PollCheckout(r) \/ StartConnect(r) \/ WaiterWins(r) \/ WaiterCanceled(r)
  \/ Send(r) \/ Respond(r) \/ SentBreaks(r)

ConnectStep(c) == ConnectFails(c) \/ Dialed(c) \/ Handshaken(c) \/ Drained(c)

PoolNext ==
  \/ \E r \in Req : RequestStep(r) \/ Abandon(r)
  \/ \E c \in Conn : ConnectStep(c) \/ Close(c) \/ Age(c)

\* the runtime polls what is ready; dials, handshakes and servers answer
PoolFairness ==
  /\ \A r \in Req : WF_poolVars(RequestStep(r))
  /\ \A c \in Conn : WF_poolVars(ConnectFails(c) \/ Dialed(c) \/ Handshaken(c))

PoolSpec == PoolInit /\ [][PoolNext]_poolVars /\ PoolFairness
(***************************************************************************)
(* Properties                                                              *)
(***************************************************************************)
Users(c) == {r \in Req : rq[r].conn = c /\ rq[r].at \in {"sending", "sent"}}

\* An HTTP/1 connection is in one place: with one request, in one channel,
\* idle once, or still streaming a response body (Reservation::Unique,
\* Drop for Pooled).  Two requests on it would mix their bodies.
ExclusiveUse ==
  ~CanShare =>
    \A c \in Conn :
      Cardinality(Users(c)) + Cardinality({r \in Req : slot[r] = c})
        + Cardinality({i \in DOMAIN idle : idle[i] = c})
        + (IF task[c].at \in {"dial", "handshake", "draining"} THEN 1 ELSE 0) <= 1

\* Nobody is parked in vain.  PoolInner::connecting holds the key exactly
\* while one connection future that will release it is alive (Connecting,
\* alpn_h2, pooled); a request that gave up its own connection is parked only
\* while that future is alive; and no connection lies idle while a request is
\* parked for one (put serves the parked senders first).
NoneParkedInVain ==
  /\ Cardinality({c \in Conn : task[c].locked}) = (IF connecting THEN 1 ELSE 0)
  /\ \A r \in Req : rq[r].at = "checkoutOnly" /\ slot[r] = Waiting => connecting
  /\ idle # <<>> => \A r \in Req : slot[r] # Waiting

\* Both at once.
PoolSound == ExclusiveUse /\ NoneParkedInVain

\* Every request comes to an end: a response, an error, or the caller's drop.
RequestsReturn == \A r \in Req : <>(rq[r].at \in {"done", "failed", "dropped"})
=============================================================================
