------------------------------ MODULE MCOpenApi ------------------------------
EXTENDS OpenApiTools
P(n, l, t, r) == [name |-> n, loc |-> l, type |-> t, required |-> r, from |-> "inline"]
MCParams == {{}, {P("id", "path", "number", TRUE), P("q", "query", "string", TRUE)},
             {P("q", "query", "string", FALSE), P("h", "header", "string", TRUE)},
             {P("c", "cookie", "string", TRUE)},
             {[P("q", "query", "string", TRUE) EXCEPT !.from = "missing"]}}
MCSchemas == UNION {[S -> {<<>>, <<"A">>, <<"B">>, <<"C", "B">>, <<"C">>}] :
                      S \in {{"A", "B"}, {"A", "B", "C"}}}
MCDocs == [servers : {1, 2}, id : {TRUE}, body : {"A"}, required : BOOLEAN,
           params : {{}}, schemas : MCSchemas]
          \cup [servers : {0}, id : BOOLEAN, body : {"none", "other", "A"}, required : BOOLEAN,
                params : MCParams, schemas : {[s \in {"A"} |-> <<>>]}]
ApiSpec == ApiInit /\ [][ApiNext]_apiVars
=============================================================================
