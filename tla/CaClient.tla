------------------------------ MODULE CaClient ------------------------------
(***************************************************************************)
(* The workload certificate: a task fetches it from the CA and renews it   *)
(* (CaClient::run_fetcher), connections wait for it (get_identity) and use *)
(* it to open or accept mutual TLS (hbone_mtls, hbone_termination).        *)
(*                                                                         *)
(* Time counts polls' fractions: Period units between two ticks of the     *)
(* fetcher's interval, at most FetchTime units for one fetch.  A           *)
(* certificate is the span of its validity and its identity; an identity   *)
(* is [td, sa]: trust domain and service account.                          *)
(***************************************************************************)
EXTENDS Integers

CONSTANTS
    User,        \* connections that need the certificate
    Identity,    \* config.identity
    Peers,       \* certificates peers may present: [trusted, ids]
    Wanted,      \* the identities a connection expects of its peer
    Ttl,         \* secret_ttl, as the CA honours it
    Skew,        \* how far before now the CA may set not_before
    Period,      \* 30 seconds
    FetchTime,   \* bound on the duration of a fetch
    EndOfDays    \* the clock of the instance stops here

ASSUME CaAssumption ==
    /\ Ttl \in Nat \ {0} /\ Skew \in Nat /\ Period \in Nat \ {0}
    /\ FetchTime \in Nat /\ EndOfDays \in Nat

VARIABLES
    caFails,     \* whether the CA may fail, or answer with something else
    clock,
    certState,   \* what the watch channel holds
    version,     \* of the watch channel
    fetcher,     \* the fetcher task: [at, since, tick]
    user         \* per connection: [at, seen, cert, res]

caVars == <<caFails, clock, certState, version, fetcher, user>>

NoCert == [from |-> 0, to |-> -1, id |-> Identity]
NotReady == [kind |-> "not ready", cert |-> NoCert]
Errored == [kind |-> "error", cert |-> NoCert]
NewUser == [at |-> "idle", seen |-> 0, cert |-> NoCert, res |-> "none"]

NothingFetched == clock = Skew /\ certState = NotReady /\ version = 0

CaInit ==
    /\ caFails \in BOOLEAN
    /\ NothingFetched
    /\ fetcher = [at |-> "fetching", since |-> Skew, tick |-> Skew]
    /\ user = [u \in User |-> NewUser]

IsExpired(cert) == clock > cert.to

RefreshAtEnd(cert) == cert.to

\* refresh_at: half of the validity has passed.
RefreshAt(cert) ==
    IF cert.to >= cert.from THEN cert.from + (cert.to - cert.from) \div 2 ELSE cert.to

-----------------------------------------------------------------------------
(* The fetcher.                                                            *)

\* The steps of fetch_and_update_certificate that may fail: the connection
\* (roots, URL, token), the call, an empty chain, one without a root, one that
\* does not parse, and a certificate for another identity.
Answers ==
    {[ok |-> TRUE, roots |-> 1, id |-> Identity, from |-> clock - s] : s \in 0..Skew}
    \cup IF ~caFails THEN {}
         ELSE {[ok |-> FALSE, roots |-> 0, id |-> Identity, from |-> clock],
               [ok |-> TRUE, roots |-> 0, id |-> Identity, from |-> clock],
               [ok |-> TRUE, roots |-> 1, id |-> [Identity EXCEPT !.sa = "other"], from |-> clock]}

AnyIdentity(a) ==
    IF ~a.ok \/ a.roots = 0 THEN Errored
    ELSE [kind |-> "available", cert |-> [from |-> a.from, to |-> a.from + Ttl, id |-> a.id]]

Fetched(a) ==
    IF ~a.ok \/ a.roots = 0 \/ a.id # Identity THEN Errored
    ELSE [kind |-> "available", cert |-> [from |-> a.from, to |-> a.from + Ttl, id |-> a.id]]

\* The fetch ends; its result, also an error, is what the channel holds now.
FetchEnds ==
    /\ fetcher.at = "fetching"
    /\ \E a \in Answers : certState' = Fetched(a)
    /\ version' = version + 1
    /\ fetcher' = [fetcher EXCEPT !.at = "sleeping"]
    /\ UNCHANGED <<caFails, clock, user>>

\* interval.tick(): a missed tick fires at once.  Renew when half of the
\* validity has passed, or when there is no certificate.
TickFires ==
    /\ fetcher.at = "sleeping" /\ clock >= fetcher.tick
    /\ LET renew == certState.kind # "available" \/ clock >= RefreshAt(certState.cert)
       IN  fetcher' = [at |-> IF renew THEN "fetching" ELSE "sleeping",
                       since |-> clock, tick |-> fetcher.tick + Period]
    /\ UNCHANGED <<caFails, clock, certState, version, user>>

-----------------------------------------------------------------------------
(* A connection.                                                           *)

\* get_identity: clone the receiver, look at the state, answer or wait for a
\* version later than the one seen.
LookAtState(u) ==
    /\ user[u].at \in {"idle", "woken"}
    /\ user' = [user EXCEPT ![u] =
         CASE certState.kind = "not ready" -> [@ EXCEPT !.at = "waiting", !.seen = version]
           [] certState.kind = "error" -> [@ EXCEPT !.at = "done", !.res = "error"]
           [] certState.kind = "available" ->
                IF IsExpired(certState.cert) THEN [@ EXCEPT !.at = "done", !.res = "expired"]
                ELSE [@ EXCEPT !.at = "handshake", !.cert = certState.cert]]
    /\ UNCHANGED <<caFails, clock, certState, version, fetcher>>

ChangedOnce(u) == version = 1

\* rx.changed() is ready: a version was sent since this receiver looked.
Changed(u) == version # user[u].seen

Wakes(u) ==
    /\ user[u].at = "waiting" /\ Changed(u)
    /\ user' = [user EXCEPT ![u].at = "woken"]
    /\ UNCHANGED <<caFails, clock, certState, version, fetcher>>

\* IdentityVerifier: trusted by the roots of the certificate, and one of its
\* identities is one of the wanted.
ServerAccepted(peer) == peer.trusted /\ \E id \in peer.ids : id \in Wanted

\* TrustDomainVerifier: trusted, and one of its identities is in our domain.
ClientAccepted(peer) == peer.trusted /\ \E id \in peer.ids : id.td = Identity.td

Handshake(u) ==
    /\ user[u].at = "handshake"
    /\ \E peer \in Peers :
         \E ok \in {ServerAccepted(peer), ClientAccepted(peer)} :
           user' = [user EXCEPT ![u].at = "done", ![u].res = IF ok THEN "connected" ELSE "refused"]
    /\ UNCHANGED <<caFails, clock, certState, version, fetcher>>

\* A new connection.
Again(u) ==
    /\ user[u].at = "done"
    /\ user' = [user EXCEPT ![u] = NewUser]
    /\ UNCHANGED <<caFails, clock, certState, version, fetcher>>

\* Time passes; the fetcher is not late for its tick, and a fetch is not longer
\* than FetchTime.
TimePasses ==
    /\ clock < EndOfDays
    /\ fetcher.at = "sleeping" => clock < fetcher.tick
    /\ fetcher.at = "fetching" => clock < fetcher.since + FetchTime
    /\ clock' = clock + 1
    /\ UNCHANGED <<caFails, certState, version, fetcher, user>>

CaNext ==
    \/ FetchEnds \/ TickFires \/ TimePasses
    \/ \E u \in User : LookAtState(u) \/ Wakes(u) \/ Handshake(u) \/ Again(u)

CaFairness ==
    /\ WF_caVars(FetchEnds) /\ WF_caVars(TickFires)
    /\ \A u \in User : WF_caVars(LookAtState(u)) /\ WF_caVars(Wakes(u)) /\ WF_caVars(Handshake(u))

CaSpec == CaInit /\ [][CaNext]_caVars /\ CaFairness

-----------------------------------------------------------------------------
\* With a CA that answers, the certificate is renewed before it expires, although
\* the fetcher looks only every Period and a fetch takes FetchTime: no connection
\* is refused for an expired certificate, as long as half of the validity covers
\* both, and the other half what not_before lies in the past (refresh_at,
\* run_fetcher).
NeverExpired ==
    (~caFails /\ Skew <= Ttl \div 2 /\ Period + FetchTime <= Ttl - Ttl \div 2) =>
        /\ certState.kind = "available" => ~IsExpired(certState.cert)
        /\ \A u \in User : user[u].res # "expired"

\* What connections are given is a certificate for the configured identity, with
\* roots to verify the peer with, whatever the CA sends (WorkloadCertificate::new,
\* the SAN check).
OwnIdentityOnly ==
    \A u \in User : user[u].at = "handshake" => user[u].cert.id = Identity /\ user[u].cert.to >= 0

\* Both at once.
CertificatesSound == NeverExpired /\ OwnIdentityOnly

\* A connection that waits for the first certificate goes on when the first fetch
\* has ended, with or without a certificate, also when the fetch ends between its
\* look at the state and its wait.
WaitersGoOn == \A u \in User : (user[u].at = "waiting") ~> (user[u].at = "done")
=============================================================================
