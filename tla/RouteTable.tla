----------------------------- MODULE RouteTable -----------------------------
(***************************************************************************)
(* The routing table of a listener, `RouteSet` in                          *)
(* crates/agentgateway/src/types/agent.rs, and the choice of a route for a *)
(* request, `select_best_route` in crates/agentgateway/src/http/route.rs.  *)
(*                                                                         *)
(* `inner` maps a hostname pattern to the matches of the routes that serve *)
(* it, kept sorted by precedence with a binary search; an entry names a    *)
(* route and the position of one of its matches.  `all` holds the routes.  *)
(* Looking up an entry whose route or match is gone panics ("corrupted     *)
(* state"); a panic happens under the write lock of the store, which is    *)
(* poisoned by it, so that nothing further happens to the table.           *)
(*                                                                         *)
(* A hostname is the sequence of its labels, a path the sequence of its    *)
(* segments; the hostnames of a route are distinct.                        *)
(***************************************************************************)
EXTENDS Integers, FiniteSets, SequencesExt, FiniteSetsExt, Nil

CONSTANTS
  KeyOfRoute,    \* a set of integers: keys are ordered
  RouteValue,    \* the routes that may be inserted: [hostnames, matches]
  Request        \* the requests that may arrive: [host, path, method, headers, query]

VARIABLES
  all,           \* KeyOfRoute -> route or None
  inner,         \* HostnameMatch -> sequence of entries
  panicked       \* an `expect("corrupted state")` has failed

tableVars == <<all, inner, panicked>>

-----------------------------------------------------------------------------
(* HostnameMatch *)
Exact(h) == [kind |-> "Exact", labels |-> h]
Wildcard(h) == [kind |-> "Wildcard", labels |-> h]
AnyHost == [kind |-> "None", labels |-> <<>>]

(* hostname_matchers: a hostname that starts with "*." is a wildcard. *)
HostnameMatchers(r) ==
  IF r.hostnames = {} THEN {AnyHost}
  ELSE {IF Len(h) > 1 /\ Head(h) = "*" THEN Wildcard(Tail(h)) ELSE Exact(h) : h \in r.hostnames}

HostnameMatch == UNION {HostnameMatchers(r) : r \in RouteValue}

(* all_matches: the host itself, its proper suffixes from the longest to   *)
(* the shortest, and the pattern of the routes without hostnames.          *)
AllMatches(host) ==
  (IF Len(host) > 1 /\ Head(host) = "*" THEN <<>> ELSE <<Exact(host)>>)
    \o [i \in 1..(Len(host) - 1) |-> Wildcard(SubSeq(host, i + 1, Len(host)))]
    \o <<AnyHost>>

-----------------------------------------------------------------------------
(* A match is [kind, path, len, paths, method, headers, query]: `paths` is  *)
(* what a regular expression matches in full, `headers` and `query` are the *)
(* requirements the request must meet.                                     *)
Rank(m) == IF m.kind = "Exact" THEN 3 ELSE 2

Criteria(m) ==
  <<Rank(m), m.len, IF m.method = None THEN 0 ELSE 1,
    Cardinality(m.headers), Cardinality(m.query)>>

(* compare_route: match m of route k comes before match n of route j. *)
Precedes(m, k, n, j) ==
  LET a == Criteria(m)
      b == Criteria(n)
  IN \/ \E i \in 1..5 : a[i] > b[i] /\ \A x \in 1..(i - 1) : a[x] = b[x]
     \/ a = b /\ k < j

PathMatches(m, path) ==
  CASE m.kind = "Exact" -> path = m.path
    [] m.kind = "PathPrefix" -> IsPrefix(m.path, path)
    [] m.kind = "Regex" -> path \in m.paths

Satisfies(req, m) ==
  /\ PathMatches(m, req.path)
  /\ m.method \in {None, req.method}
  /\ m.headers \subseteq req.headers
  /\ m.query \subseteq req.query

-----------------------------------------------------------------------------
(* The entry can be read: no "corrupted state". *)
Readable(routes, e) == routes[e.key] # None /\ e.index <= Len(routes[e.key].matches)

MatchOf(routes, e) == routes[e.key].matches[e.index]

(* The binary search of the standard library for match m of route k in the *)
(* `size` entries of v from `base` on: the position to insert at, or 0     *)
(* when an entry it probes cannot be read.                                 *)
RECURSIVE Search(_, _, _, _, _, _)
Search(routes, v, m, k, base, size) ==
  LET half == size \div 2
      probe == v[base + (IF size > 1 THEN half ELSE 0)]
      n == MatchOf(routes, probe)
  IN IF ~Readable(routes, probe) THEN 0
     ELSE IF size > 1
       THEN Search(routes, v, m, k,
                   IF Precedes(m, k, n, probe.key) THEN base ELSE base + half, size - half)
       ELSE IF Precedes(n, probe.key, m, k) THEN base + 1 ELSE base

(* Mutant of WithMatches: the entries go to the end of the list. *)
WithMatchesAtEnd(routes, v, k, i) ==
  v \o [j \in 1..Len(routes[k].matches) |-> [key |-> k, index |-> j]]

(* v with the matches of route k from the i-th on inserted, or None when a *)
(* search panics.                                                          *)
RECURSIVE WithMatches(_, _, _, _)
WithMatches(routes, v, k, i) ==
  LET pos == IF v = <<>> THEN 1 ELSE Search(routes, v, routes[k].matches[i], k, 1, Len(v))
  IN IF i > Len(routes[k].matches) THEN v
     ELSE IF pos = 0 THEN None
     ELSE WithMatches(routes, InsertAt(v, pos, [key |-> k, index |-> i]), k, i + 1)

TableInit ==
  /\ all = [k \in KeyOfRoute |-> None]
  /\ inner = [h \in HostnameMatch |-> <<>>]
  /\ panicked = FALSE

(* RouteSet::insert.  The entries an earlier route with the same key left  *)
(* in inner stay there.                                                    *)
InsertIntoSet(k, r) ==
  LET routes == [all EXCEPT ![k] = r]
      new == [h \in HostnameMatch |->
                IF h \in HostnameMatchers(r) THEN WithMatches(routes, inner[h], k, 1)
                ELSE inner[h]]
  IN /\ ~panicked
     /\ all' = routes
     /\ panicked' = (\E h \in HostnameMatch : new[h] = None)
     /\ inner' = IF panicked' THEN inner ELSE new

(* Mutant of RemoveFromSet: the route leaves, its entries stay. *)
RemoveOnlyRoute(k) ==
  /\ ~panicked
  /\ all[k] # None
  /\ all' = [all EXCEPT ![k] = None]
  /\ UNCHANGED <<inner, panicked>>

(* RouteSet::remove: the entries under the hostnames of the route as it is *)
(* now are dropped.                                                        *)
RemoveFromSet(k) ==
  /\ ~panicked
  /\ all[k] # None
  /\ all' = [all EXCEPT ![k] = None]
  /\ inner' = [h \in HostnameMatch |->
                 IF h \in HostnameMatchers(all[k])
                 THEN SelectSeq(inner[h], LAMBDA e : e.key # k)
                 ELSE inner[h]]
  /\ UNCHANGED panicked

(* Routes are only ever inserted under a key that is not in the table. *)
FreshNext ==
  \/ \E k \in KeyOfRoute : \E r \in RouteValue : all[k] = None /\ InsertIntoSet(k, r)
  \/ \E k \in KeyOfRoute : RemoveFromSet(k)

(* A route may also be updated in place, as insert_route does. *)
TableNext ==
  \/ \E k \in KeyOfRoute : \E r \in RouteValue : InsertIntoSet(k, r)
  \/ \E k \in KeyOfRoute : RemoveFromSet(k)

FreshSpec == TableInit /\ [][FreshNext]_tableVars
TableSpec == TableInit /\ [][TableNext]_tableVars

-----------------------------------------------------------------------------
(* get_hostname and find: the first entry under h that the request         *)
(* satisfies, or None.                                                     *)
FirstMatch(req, h) ==
  LET v == IF h \in HostnameMatch THEN inner[h] ELSE <<>>
      ok == {i \in 1..Len(v) : Readable(all, v[i]) /\ Satisfies(req, MatchOf(all, v[i]))}
  IN IF ok = {} THEN None ELSE v[Min(ok)].key

(* select_best_route: the patterns of the host from the most specific on. *)
SelectBestRoute(req) ==
  LET patterns == AllMatches(req.host)
      hits == SelectSeq([i \in 1..Len(patterns) |-> FirstMatch(req, patterns[i])],
                        LAMBDA k : k # None)
  IN IF hits = <<>> THEN None ELSE Head(hits)

-----------------------------------------------------------------------------
Entries(k) == {[key |-> k, index |-> i] : i \in 1..Len(all[k].matches)}

(* Every match of every route is listed once under each of its hostnames,  *)
(* and nothing else is listed: no request meets a stale entry.             *)
IndexExact ==
  \A h \in HostnameMatch :
    /\ ToSet(inner[h]) = UNION {Entries(k) : k \in {x \in KeyOfRoute :
                                   all[x] # None /\ h \in HostnameMatchers(all[x])}}
    /\ Len(inner[h]) = Cardinality(ToSet(inner[h]))

HostServed(h, host) ==
  CASE h.kind = "Exact" -> h.labels = host
    [] h.kind = "Wildcard" -> Len(h.labels) < Len(host) /\ IsSuffix(h.labels, host)
    [] h.kind = "None" -> TRUE

Specificity(h) ==
  CASE h.kind = "Exact" -> 1000 [] h.kind = "Wildcard" -> Len(h.labels) [] h.kind = "None" -> 0

(* The matches, over all routes, that the request satisfies. *)
Candidates(req) ==
  UNION {{[key |-> k, host |-> h, m |-> all[k].matches[i]] :
             h \in {x \in HostnameMatchers(all[k]) : HostServed(x, req.host)},
             i \in {x \in 1..Len(all[k].matches) : Satisfies(req, all[k].matches[x])}} :
         k \in {x \in KeyOfRoute : all[x] # None}}

Better(c, d) ==
  \/ Specificity(c.host) > Specificity(d.host)
  \/ Specificity(c.host) = Specificity(d.host) /\ Precedes(c.m, c.key, d.m, d.key)

(* Walking the sorted lists finds the route a search over all routes would *)
(* choose by the order select_best_route states: the most specific         *)
(* hostname, then the precedence of the match, then the key.               *)
BestRouteSelected ==
  \A req \in Request :
    LET cs == Candidates(req)
        best == {c.key : c \in {x \in cs : \A d \in cs : ~Better(d, x)}}
    IN IF cs = {} THEN SelectBestRoute(req) = None ELSE SelectBestRoute(req) \in best

(* Both at once. *)
TableSound == IndexExact /\ BestRouteSelected

(* The assertion of RouteSet::insert: every entry it reads has its route   *)
(* and its match ("corrupted state").                                      *)
NotCorrupted == ~panicked
=============================================================================
