------------------------- MODULE MCRequestPolicies -------------------------
(***************************************************************************)
(* Two families of cases: every combination of policies with a few filter  *)
(* lists, and a few policies with every combination of filter lists,       *)
(* matches, paths, origins and methods.                                    *)
(***************************************************************************)
EXTENDS RequestPolicies

MCNames == {"x", "allow-origin"}

Entry(k, w, raw, append) == [name |-> k, writer |-> w, raw |-> raw, append |-> append]

MCAuthzAnswers ==
    {[kind |-> k] : k \in {"failed", "status", "noStatus"}} \cup
    {[kind |-> "denied", headers |-> <<Entry("x", "authz", TRUE, FALSE)>>]} \cup
    {[kind |-> "ok", headers |-> <<>>, remove |-> {"x"}, add |-> <<>>]} \cup
    {[kind |-> "ok", headers |-> <<Entry("x", "authz", TRUE, TRUE)>>, remove |-> {}, add |-> a] :
       a \in {<<Entry("x", "authz", TRUE, FALSE)>>,
              <<Entry("allow-origin", "authz", TRUE, TRUE), Entry("allow-origin", "authz2", TRUE, TRUE)>>}}

MCLimitAnswers ==
    {[kind |-> "failed"], [kind |-> "over", add |-> <<Entry("x", "limit", FALSE, FALSE)>>]} \cup
    {[kind |-> "ok", headers |-> <<>>, add |-> a] :
       a \in {<<>>, <<Entry("x", "limit", FALSE, FALSE)>>}}

Rewrite(kind, path) == [kind |-> "rewrite", path |-> [kind |-> kind, path |-> path]]
Mod(kind, add, set, remove) == [kind |-> kind, add |-> add, set |-> set, remove |-> remove]
Cors == [kind |-> "cors", origins |-> {"o1"}]

MCFilters ==
    {<<>>, <<Cors>>, <<[kind |-> "direct"]>>, <<[kind |-> "mirror"], Cors>>,
     <<Rewrite("prefix", <<"/", "c">>)>>, <<Rewrite("prefix", <<"/">>), Cors>>,
     <<Rewrite("full", <<"/", "c">>)>>,
     <<[kind |-> "redirect", path |-> [kind |-> "prefix", path |-> <<"/", "c">>]]>>,
     <<Mod("requestHeaders", {"x"}, {}, {}), Mod("responseHeaders", {}, {"x"}, {})>>}

MCBackendFilters ==
    {<<>>, <<Cors>>, <<Mod("responseHeaders", {"allow-origin"}, {}, {"x"})>>,
     <<Rewrite("prefix", <<"/", "c">>), [kind |-> "mirror"]>>}

Off == [on |-> FALSE, add |-> {}, set |-> {}, remove |-> {}]
On  == [on |-> TRUE, add |-> {"x"}, set |-> {"allow-origin"}, remove |-> {}]

Prefix(p) == [kind |-> "prefix", path |-> p]

PolicyRoutes ==
    [jwt : {{}, {"k1"}}, authz : BOOLEAN, locals : {0, 2}, remote : {"none", "static", "header"},
     transform : {Off, On}, auth : {"passthrough", "key"},
     match : {Prefix(<<"/", "a">>)}, filters : {<<>>, <<Cors>>},
     backendFilters : {<<Mod("responseHeaders", {}, {"x"}, {})>>}]

FilterRoutes ==
    [jwt : {{}}, authz : BOOLEAN, locals : {1}, remote : {"none"}, transform : {Off},
     auth : {"none"},
     match : {Prefix(<<"/">>), Prefix(<<"/", "a">>), Prefix(<<"/", "a", "/">>),
              [kind |-> "exact", path |-> <<"/", "a">>]},
     filters : MCFilters, backendFilters : MCBackendFilters]

Client(t, o, m, p, h) ==
    [token |-> t, claims |-> NoToken, origin |-> o, method |-> m, path |-> p,
     hdr |-> [k \in MCNames |-> IF k = "x" THEN h ELSE <<>>]]

Tokens == {NoToken} \cup [kid : {"k1", "k2"}, valid : BOOLEAN]
Paths == {<<"/">>, <<"/", "a">>, <<"/", "a", "/">>, <<"/", "a", "/", "b">>}

PolicyClients ==
    {Client(t, "o1", "GET", <<"/", "a", "/", "b">>, h) : t \in Tokens, h \in {<<>>, <<"client">>}}
FilterClients ==
    {Client(NoToken, o, m, p, <<>>) : o \in {"none", "o1", "o2"}, m \in {"GET", "OPTIONS"}, p \in Paths}

MCCases == (PolicyRoutes \X PolicyClients) \cup (FilterRoutes \X FilterClients)

=============================================================================
