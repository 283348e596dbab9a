---------------------------- MODULE MCRouteTable ----------------------------
(* RouteTable with a handful of hostnames, paths and matches that overlap. *)
EXTENDS RouteTable

MCMatch(kind, path, len, paths, headers) ==
  [kind |-> kind, path |-> path, len |-> len, paths |-> paths, method |-> None,
   headers |-> headers, query |-> {}]

ExactP == MCMatch("Exact", <<"p">>, 2, {}, {})
PrefixP == MCMatch("PathPrefix", <<"p">>, 2, {}, {})
PrefixAny == MCMatch("PathPrefix", <<>>, 1, {}, {"h"})
RegexPQ == MCMatch("Regex", <<>>, 3, {<<"p", "q">>}, {})

MCHostnames == {{}, {<<"x", "y">>}, {<<"*", "y">>}, {<<"x", "y">>, <<"*", "y">>}}

MCMatches == {<<ExactP>>, <<PrefixP>>, <<PrefixAny>>, <<PrefixP, PrefixAny>>, <<PrefixAny, RegexPQ>>}

MCRouteValue == [hostnames : MCHostnames, matches : MCMatches]

MCRequest ==
  [host : {<<"x", "y">>, <<"z", "y">>, <<"z">>}, path : {<<"p">>, <<"p", "q">>, <<"z">>},
   method : {"GET"}, headers : {{}, {"h"}}, query : {{}}]
=============================================================================
