-------------------------- MODULE RequestPolicies --------------------------
(***************************************************************************)
(* What happens to one request between the choice of its route and its     *)
(* answer: the policies of apply_request_policies (JWT, external           *)
(* authorization, local and remote rate limits, transformation), the       *)
(* filters of the route and of the backend, the mirrors, the credentials   *)
(* of the backend, and the filters and policies of the response.           *)
(*                                                                         *)
(* A header map is a function from names to sequences of values; a value   *)
(* is named after who wrote it.  A path is a sequence of characters in     *)
(* which every segment is one letter.  The two policy services answer      *)
(* anything in PAuthzAnswers and PLimitAnswers, errors included.           *)
(***************************************************************************)
EXTENDS Integers, Sequences

CONSTANTS
    PNames,         \* the header names the instance tells apart
    PCases,         \* pairs <<route, request>> that may meet
    PAuthzAnswers,  \* what the authorization service may answer
    PLimitAnswers   \* what the rate limit service may answer

VARIABLES
    proute,    \* the route with its policies, fixed
    pclient,   \* the request as it arrived, fixed
    preq,      \* the request as it is now
    ppc,       \* where proxy_internal is, with the index of the next filter
    pask,      \* the answers of the two services
    pcharged,  \* how many local limiters this request has been charged to
    phdrs,     \* response_policies.response_headers
    psent,     \* the requests that left the proxy: {"mirror", "backend"}
    presp      \* the answer to the client

pvars == <<proute, pclient, preq, ppc, pask, pcharged, phdrs, psent, presp>>

-----------------------------------------------------------------------------
(* Header maps                                                             *)

NoHeaders == [k \in PNames |-> <<>>]

HdrInsert(hm, k, v) == [hm EXCEPT ![k] = <<v>>]
HdrAppend(hm, k, v) == [hm EXCEPT ![k] = Append(@, v)]
HdrRemove(hm, ks)   == [k \in PNames |-> IF k \in ks THEN <<>> ELSE hm[k]]

MergeKeepsOld(additional, dest) ==
    [k \in PNames |-> IF dest[k] = <<>> THEN additional[k] ELSE dest[k]]

\* merge_in_headers: the first value of every added name replaces what is
\* there; its further values come without a name and are skipped.
MergeInHeaders(additional, dest) ==
    [k \in PNames |-> IF additional[k] = <<>> THEN dest[k] ELSE <<additional[k][1]>>]

\* process_headers: an entry without a raw value writes its own name.
RECURSIVE ProcessHeaders(_, _)
ProcessHeaders(hm, entries) ==
    IF entries = <<>> THEN hm
    ELSE LET h == Head(entries)
             v == IF h.raw THEN h.writer ELSE h.name
         IN  ProcessHeaders(IF h.append THEN HdrAppend(hm, h.name, v)
                                        ELSE HdrInsert(hm, h.name, v), Tail(entries))

\* HeaderModifier::apply: add, then set, then remove.
ModifyHeaders(hm, f) ==
    HdrRemove([k \in PNames |->
                 IF k \in f.set THEN <<"filter">>
                 ELSE IF k \in f.add THEN Append(hm[k], "filter") ELSE hm[k]], f.remove)

\* Transformation::apply; `failed' are the names whose expression fails.  A
\* failed `add' removes the header, a failed `set' leaves it.
TransformHeaders(hm, t, failed) ==
    LET added == [k \in PNames |->
                    IF k \notin t.add THEN hm[k]
                    ELSE IF k \in failed THEN <<>> ELSE Append(hm[k], "transform")]
    IN  HdrRemove([k \in PNames |->
                     IF k \in t.set \ failed THEN <<"transform">> ELSE added[k]], t.remove)

-----------------------------------------------------------------------------
(* Paths                                                                   *)

\* str::trim_end_matches('/')
TrimSlashes(p) ==
    SubSeq(p, 1, CHOOSE n \in 0 .. Len(p) :
                   /\ \A i \in n + 1 .. Len(p) : p[i] = "/"
                   /\ n > 0 => p[n] # "/")

StartsWith(p, prefix) == Len(prefix) <= Len(p) /\ SubSeq(p, 1, Len(prefix)) = prefix

\* best_match's test of the path.
PathMatches(m, path) ==
    \/ m.kind = "exact" /\ path = m.path
    \/ /\ m.kind = "prefix"
       /\ StartsWith(TrimSlashes(path) \o <<"/">>, TrimSlashes(m.path) \o <<"/">>)

\* What rewrite_path gives instead of a path.
PathError == <<"error">>
PathPanic == <<"panic">>

RewriteJoinsDirectly(rw, m, path) ==
    CASE rw.kind = "none" -> path
      [] rw.kind = "full" -> rw.path
      [] rw.kind = "prefix" /\ m.kind # "prefix" -> PathError
      [] rw.kind = "prefix" /\ m.kind = "prefix" /\ Len(m.path) > Len(path) -> PathPanic
      [] OTHER -> rw.path \o SubSeq(path, Len(m.path) + 1, Len(path))

\* rewrite_path: split_at panics when the matched prefix is longer than the
\* path; a slash is put between the new prefix and the rest where needed.
RewritePath(rw, m, path) ==
    CASE rw.kind = "none" -> path
      [] rw.kind = "full" -> rw.path
      [] rw.kind = "prefix" /\ m.kind # "prefix" -> PathError
      [] rw.kind = "prefix" /\ m.kind = "prefix" /\ Len(m.path) > Len(path) -> PathPanic
      [] OTHER ->
           LET rest == SubSeq(path, Len(m.path) + 1, Len(path))
           IN  rw.path \o (IF rest # <<>> /\ rest[1] # "/" THEN <<"/">> ELSE <<>>) \o rest

-----------------------------------------------------------------------------
(* Steps                                                                   *)

NotAsked   == [kind |-> "none"]
NoToken    == [kid |-> "none", valid |-> FALSE]
BackendKey == [kid |-> "key", valid |-> TRUE]

PAt(stage) == ppc = <<stage, 1>>

PStart(c) ==
    /\ PathMatches(c[1].match, c[2].path)
    /\ proute = c[1] /\ pclient = c[2] /\ preq = c[2]
    /\ ppc = <<"jwt", 1>>
    /\ pask = [authz |-> NotAsked, limit |-> NotAsked]
    /\ pcharged = 0 /\ phdrs = NoHeaders /\ psent = {}
    /\ presp = [by |-> "none", hdr |-> NoHeaders]

PInit == \E c \in PCases : PStart(c)

\* proxy_internal returns with the answer of `by'.
PAnswer(by, hdr) == ppc' = <<"done", 1>> /\ presp' = [by |-> by, hdr |-> hdr]

PGoOn(stage) == ppc' = <<stage, 1>> /\ UNCHANGED presp

\* Jwt::apply with validate_claims: a request without a bearer token passes; a
\* token must name a key of the key set and be valid; it is then taken out of
\* the request and its claims are kept.
ApplyJwt ==
    LET t == preq.token IN
    /\ PAt("jwt")
    /\ IF proute.jwt = {} \/ t = NoToken
       THEN PGoOn("authz") /\ UNCHANGED preq
       ELSE IF t.kid \in proute.jwt /\ t.valid
            THEN PGoOn("authz") /\ preq' = [preq EXCEPT !.token = NoToken, !.claims = t]
            ELSE PAnswer("jwt", NoHeaders) /\ UNCHANGED preq
    /\ UNCHANGED <<proute, pclient, pask, pcharged, phdrs, psent>>

\* ExtAuthz::check: a failed call or a status other than OK is an error, a
\* missing status a panic; a denial is answered with the headers it carries; an
\* OK changes the request and leaves headers for the response.
CheckExtAuthz ==
    /\ PAt("authz") /\ proute.authz
    /\ \E a \in PAuthzAnswers :
         /\ pask' = [pask EXCEPT !.authz = a]
         /\ CASE a.kind \in {"failed", "status", "noStatus"} ->
                   PAnswer(IF a.kind = "noStatus" THEN "authzPanic" ELSE "authz", NoHeaders)
                   /\ UNCHANGED <<preq, phdrs>>
              [] a.kind = "denied" ->
                   PAnswer("authz", ProcessHeaders(NoHeaders, a.headers))
                   /\ UNCHANGED <<preq, phdrs>>
              [] a.kind = "ok" ->
                   /\ PGoOn("locals")
                   /\ preq' = [preq EXCEPT !.hdr =
                                 ProcessHeaders(HdrRemove(preq.hdr, a.remove), a.headers)]
                   /\ phdrs' = ProcessHeaders(NoHeaders, a.add)
    /\ UNCHANGED <<proute, pclient, pcharged, psent>>

SkipExtAuthz ==
    /\ PAt("authz") /\ ~proute.authz /\ PGoOn("locals")
    /\ UNCHANGED <<proute, pclient, preq, pask, pcharged, phdrs, psent>>

\* One local limiter after the other: each is charged, or refuses.
CheckLocalLimit ==
    /\ ppc[1] = "locals" /\ ppc[2] <= proute.locals
    /\ \/ /\ pcharged' = pcharged + 1
          /\ ppc' = <<"locals", ppc[2] + 1>> /\ UNCHANGED presp
       \/ PAnswer("limit", NoHeaders) /\ UNCHANGED pcharged
    /\ UNCHANGED <<proute, pclient, preq, pask, phdrs, psent>>

LocalLimitsPass ==
    /\ ppc[1] = "locals" /\ ppc[2] > proute.locals
    /\ PGoOn("remote")
    /\ UNCHANGED <<proute, pclient, preq, pask, pcharged, phdrs, psent>>

MergeKeepsFirst(a) == PGoOn("transform")

\* PolicyResponse::merge with the answer of the remote limiter: its direct
\* response replaces everything, and is returned after the transformation.
MergeLimit(a) == IF a.kind = "over" THEN PGoOn("overLimit") ELSE PGoOn("transform")

\* A descriptor of a header the request does not have: nothing is asked.
DescriptorMissing == proute.remote = "header" /\ \A k \in PNames : preq.hdr[k] = <<>>

\* RemoteRateLimit::check.
CheckRemoteLimit ==
    /\ PAt("remote") /\ proute.remote # "none" /\ ~DescriptorMissing
    /\ \E a \in PLimitAnswers :
         /\ pask' = [pask EXCEPT !.limit = a]
         /\ CASE a.kind = "failed" ->
                   PAnswer("limit", NoHeaders) /\ UNCHANGED <<preq, phdrs>>
              [] a.kind = "over" ->
                   MergeLimit(a) /\ UNCHANGED <<preq, phdrs>>
              [] a.kind = "ok" ->
                   /\ MergeLimit(a)
                   /\ preq' = [preq EXCEPT !.hdr = ProcessHeaders(preq.hdr, a.headers)]
                   /\ phdrs' = MergeInHeaders(ProcessHeaders(NoHeaders, a.add), phdrs)
    /\ UNCHANGED <<proute, pclient, pcharged, psent>>

SkipRemoteLimit ==
    /\ PAt("remote") /\ (proute.remote = "none" \/ DescriptorMissing)
    /\ PGoOn("transform")
    /\ UNCHANGED <<proute, pclient, preq, pask, pcharged, phdrs, psent>>

\* The transformation of the request runs also when the remote limiter has
\* refused; it fails as a whole only when its context cannot be built.
TransformRequest ==
    /\ ppc[1] \in {"transform", "overLimit"}
    /\ \/ /\ proute.transform.on
          /\ PAnswer("transform", NoHeaders) /\ UNCHANGED preq
       \/ /\ IF ppc[1] = "overLimit"
             THEN PAnswer("limit", ProcessHeaders(NoHeaders, pask.limit.add))
             ELSE PGoOn("filters")
          /\ IF proute.transform.on
             THEN \E failed \in SUBSET (proute.transform.add \cup proute.transform.set) :
                    preq' = [preq EXCEPT !.hdr =
                               TransformHeaders(preq.hdr, proute.transform, failed)]
             ELSE UNCHANGED preq
    /\ UNCHANGED <<proute, pclient, pask, pcharged, phdrs, psent>>

-----------------------------------------------------------------------------
(* Filters                                                                 *)

\* The stage, the filters it applies, and the stage that follows.
FilterStage(stage) ==
    IF stage = "filters" THEN [list |-> proute.filters, next |-> "select"]
                         ELSE [list |-> proute.backendFilters, next |-> "mirror"]

\* Cors::apply: no origin or one that is not allowed adds nothing; OPTIONS is
\* answered at once; any other request gets its headers with the response.
CorsApplies(f) == pclient.origin # "none" /\ pclient.origin \in f.origins

CorsHeaders(hm) == HdrInsert(hm, "allow-origin", "cors")

\* The header_map of apply_request_filters when filter i is reached: what the
\* last CORS filter before it wrote.
StageHeaders(list) ==
    IF \E i \in DOMAIN list : list[i].kind = "cors" /\ CorsApplies(list[i])
    THEN CorsHeaders(NoHeaders) ELSE NoHeaders

\* apply_request_filters, one filter per step.
ApplyFilter ==
    LET stage == ppc[1]
        list  == FilterStage(stage).list
        f     == list[ppc[2]]
        next  == ppc' = <<stage, ppc[2] + 1>> /\ UNCHANGED presp
        path  == RewritePath(f.path, proute.match, preq.path)
    IN
    /\ stage \in {"filters", "backendFilters"} /\ ppc[2] <= Len(list)
    /\ CASE f.kind = "requestHeaders" ->
              next /\ preq' = [preq EXCEPT !.hdr = ModifyHeaders(preq.hdr, f)]
         [] f.kind = "rewrite" /\ path \notin {PathError, PathPanic} ->
              next /\ preq' = [preq EXCEPT !.path = path]
         [] f.kind \in {"rewrite", "redirect"} /\ path \in {PathError, PathPanic} ->
              PAnswer(path[1], NoHeaders) /\ UNCHANGED preq
         [] f.kind = "redirect" /\ path \notin {PathError, PathPanic} ->
              PAnswer("filter", NoHeaders) /\ UNCHANGED preq
         [] f.kind = "direct" -> PAnswer("filter", NoHeaders) /\ UNCHANGED preq
         [] f.kind = "cors" /\ CorsApplies(f) /\ pclient.method = "OPTIONS" ->
              PAnswer("filter", CorsHeaders(NoHeaders)) /\ UNCHANGED preq
         [] OTHER -> next /\ UNCHANGED preq
    /\ UNCHANGED <<proute, pclient, pask, pcharged, phdrs, psent>>

FiltersPass ==
    LET st == FilterStage(ppc[1]) IN
    /\ ppc[1] \in {"filters", "backendFilters"} /\ ppc[2] > Len(st.list)
    /\ phdrs' = MergeInHeaders(StageHeaders(st.list), phdrs)
    /\ PGoOn(st.next)
    /\ UNCHANGED <<proute, pclient, preq, pask, pcharged, psent>>

\* select_backend and resolve_backend: there may be none.
SelectBackend ==
    /\ PAt("select")
    /\ \/ PGoOn("backendFilters")
       \/ PAnswer("error", NoHeaders)
    /\ UNCHANGED <<proute, pclient, preq, pask, pcharged, phdrs, psent>>

-----------------------------------------------------------------------------
(* The call and its response                                               *)

HasMirror ==
    \E f \in {proute.filters, proute.backendFilters} :
      \E i \in DOMAIN f : f[i].kind = "mirror"

\* get_mirrors and send_mirror, for a share of the requests: a task of its own, whose result is ignored.
SendMirrors ==
    /\ PAt("mirror") /\ PGoOn("call")
    /\ psent' \in {psent} \cup
         (IF HasMirror THEN {psent \cup {"mirror"}} ELSE {})
    /\ UNCHANGED <<proute, pclient, preq, pask, pcharged, phdrs>>

\* apply_backend_auth: the credentials the backend is sent.
BackendAuth(auth) ==
    CASE auth = "passthrough" /\ preq.claims # NoToken -> preq.claims
      [] auth = "key" -> BackendKey
      [] OTHER        -> preq.token

\* make_backend_call up to upstream.call: the credentials are put in place.
CallBackend ==
    /\ PAt("call") /\ PGoOn("wait")
    /\ preq' = [preq EXCEPT !.token = BackendAuth(proute.auth)]
    /\ psent' = psent \cup {"backend"}
    /\ UNCHANGED <<proute, pclient, pask, pcharged, phdrs>>

\* apply_response_filters over one list.
RECURSIVE ResponseFilters(_, _)
ResponseFilters(hm, list) ==
    IF list = <<>> THEN hm
    ELSE ResponseFilters(IF Head(list).kind = "responseHeaders"
                         THEN ModifyHeaders(hm, Head(list)) ELSE hm, Tail(list))

\* ResponsePolicies::apply: the transformation, then the headers the policies
\* and filters of the request have left.
ResponsePoliciesApply(hm, failed) ==
    MergeInHeaders(phdrs, IF proute.transform.on
                          THEN TransformHeaders(hm, proute.transform, failed) ELSE hm)

\* attempt_upstream: the call fails; or the protocol is switched and the
\* response is passed on as it is; or filters and policies run over it.
BackendAnswers ==
    /\ PAt("wait")
    /\ \/ PAnswer("error", NoHeaders)
       \/ \E hdr \in [PNames -> {<<>>, <<"backend">>}] :
            \/ PAnswer("upgrade", hdr)
            \/ \E failed \in IF proute.transform.on
                             THEN SUBSET (proute.transform.add \cup proute.transform.set) ELSE {{}} :
                 PAnswer("backend",
                        ResponsePoliciesApply(
                          ResponseFilters(ResponseFilters(hdr, proute.filters),
                                          proute.backendFilters), failed))
    /\ UNCHANGED <<proute, pclient, preq, pask, pcharged, phdrs, psent>>

PNext ==
    \/ ApplyJwt \/ CheckExtAuthz \/ SkipExtAuthz \/ CheckLocalLimit \/ LocalLimitsPass
    \/ CheckRemoteLimit \/ SkipRemoteLimit \/ TransformRequest \/ ApplyFilter \/ FiltersPass
    \/ SelectBackend \/ SendMirrors \/ CallBackend \/ BackendAnswers

PSpec == PInit /\ [][PNext]_pvars

-----------------------------------------------------------------------------
(* Properties                                                              *)

Accepted(t) == t = NoToken \/ (t.kid \in proute.jwt /\ t.valid)

\* Nothing leaves the proxy for a request, to its backend or to a mirror,
\* before every policy of its route has let it pass: its token is valid, the
\* authorization service said OK, every local limiter was charged once and the
\* remote limiter, if its descriptor applies, allowed it.  A token the JWT
\* policy has accepted is sent on only where backend authentication passes it
\* through.  And a request that authentication or authorization refuses is
\* charged to no limiter (apply_request_policies and its early returns).
ForwardedOnlyWhenAdmitted ==
    /\ psent # {} =>
         /\ proute.jwt # {} => Accepted(pclient.token)
         /\ proute.authz => pask.authz.kind = "ok"
         /\ pcharged = proute.locals
         /\ pask.limit.kind \in {"none", "ok"}
    /\ "backend" \in psent /\ proute.jwt # {} /\ proute.auth # "passthrough" =>
         preq.token \in {NoToken, BackendKey}
    /\ presp.by \in {"jwt", "authz"} => pcharged = 0 /\ pask.limit = NotAsked

\* The headers the policies promised with their answers reach the client: a
\* response of the backend carries, for every name, what the last of the
\* authorization service, the remote limiter, the CORS filters of the route and
\* those of the backend asked for, whatever the backend, the response filters
\* and the response transformation wrote there.
PromisedHeadersKept ==
    LET told(a)   == IF a.kind # "ok" THEN NoHeaders ELSE ProcessHeaders(NoHeaders, a.add)
        stages    == <<told(pask.authz), told(pask.limit),
                       StageHeaders(proute.filters), StageHeaders(proute.backendFilters)>>
    IN  presp.by = "backend" =>
          \A k \in PNames : \A s \in DOMAIN stages :
            stages[s][k] # <<>> /\ (\A l \in s + 1 .. Len(stages) : stages[l][k] = <<>>) =>
              presp.hdr[k] = <<stages[s][k][1]>>

Letters(p) == SelectSeq(p, LAMBDA c : c # "/")

Rewrites == SelectSeq(proute.filters \o proute.backendFilters,
                      LAMBDA f : f.kind = "rewrite" /\ f.path.kind # "none")

\* A prefix rewrite replaces exactly the matched prefix: the backend sees the
\* segments of the new prefix, then the remaining segments of the path, each
\* still a segment of its own.  This holds for one rewrite and a match that does
\* not end in a slash: a second rewrite splits a path the match no longer
\* describes, and "/a/" also matches the shorter path "/a" (rewrite_path).
RewriteKeepsRest ==
    (Len(Rewrites) = 1 /\ Rewrites[1].path.kind = "prefix"
       /\ (Len(proute.match.path) = 1 \/ proute.match.path[Len(proute.match.path)] # "/")) =>
      /\ presp.by # "panic"
      /\ psent # {} =>
           /\ Letters(preq.path) =
                Letters(Rewrites[1].path.path) \o
                  SubSeq(Letters(pclient.path), Len(Letters(proute.match.path)) + 1,
                         Len(Letters(pclient.path)))
           /\ \A i \in DOMAIN preq.path : preq.path[i] # "/" => i > 1 /\ preq.path[i - 1] = "/"

\* Both at once: what the policies promise of the response and of the request.
EffectsKept == PromisedHeadersKept /\ RewriteKeepsRest
=============================================================================
