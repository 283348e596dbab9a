---------------------------- MODULE OpenApiTools ----------------------------
(***************************************************************************)
(* An OpenAPI target of an MCP backend: its schema becomes a tool when the *)
(* session connects (parse_openapi_schema), and a call of the tool becomes *)
(* an HTTP request (Handler::call_tool).                                   *)
(*                                                                         *)
(* One operation is followed.  The recursion of resolve_nested_schema is   *)
(* kept as a stack of frames; a frame holds the references still to visit. *)
(***************************************************************************)
EXTENDS Naturals, SequencesExt

CONSTANTS
    Docs,        \* the documents of the instance
    StackLimit   \* frames that fit on the thread's stack

\* A document: servers (how many), id (operation_id is given), body ("none",
\* "other" for content that is not JSON, or the name of a schema), required
\* (the body is), params (set of [name, loc, type, required, from], where from is
\* "inline" or the way a reference fails), schemas (name -> references).

Loc == {"header", "query", "path"}

VARIABLES doc, phase, stack, tool, request

apiVars == <<doc, phase, stack, tool, request>>

NoTool == [props |-> {}, required |-> {}, sub |-> [l \in Loc |-> {}]]
EmptyRequest == [header |-> {}, query |-> {}, path |-> {}, body |-> FALSE]

ApiInit ==
    /\ doc \in Docs
    /\ phase = "parse"
    /\ stack = <<>>
    /\ tool = NoTool
    /\ request = EmptyRequest

Goto(p) == phase' = p

\* operation_id, and the schema of the body: content that is not JSON is left out.
ParseOperation ==
    /\ phase = "parse"
    /\ IF ~doc.id THEN Goto("failed") /\ UNCHANGED stack
       ELSE IF doc.body \in {"none", "other"} THEN Goto("build") /\ UNCHANGED stack
       ELSE Goto("resolve") /\ stack' = <<<<doc.body>>>>
    /\ UNCHANGED <<doc, tool, request>>

ResolveTopOnly ==
    /\ phase = "resolve"
    /\ IF Head(Head(stack)) \in DOMAIN doc.schemas THEN Goto("build") ELSE Goto("failed")
    /\ stack' = <<>>
    /\ UNCHANGED <<doc, tool, request>>

\* One step of the recursion: enter the next reference of the innermost call,
\* or return from it.  A missing schema fails the parse; when the stack is
\* full the process ends.
ResolveNested ==
    /\ phase = "resolve"
    /\ IF stack = <<>> THEN Goto("build") /\ UNCHANGED stack
       ELSE LET frame == Last(stack) IN
            IF frame = <<>> THEN stack' = Front(stack) /\ UNCHANGED phase
            ELSE IF Head(frame) \notin DOMAIN doc.schemas
            THEN Goto("failed") /\ UNCHANGED stack
            ELSE IF Len(stack) = StackLimit
            THEN Goto("overflow") /\ UNCHANGED stack
            ELSE /\ stack' = Append(Append(Front(stack), Tail(frame)),
                                    doc.schemas[Head(frame)])
                 /\ UNCHANGED phase
    /\ UNCHANGED <<doc, tool, request>>

\* A parameter that is a cookie, has content instead of a schema, or refers
\* to nothing.
Unsupported(p) == p.from # "inline" \/ p.loc \notin Loc

SubRequired(params, l) == {p.name : p \in {p \in params : p.loc = l /\ p.required}}

HasBody == doc.body \notin {"none", "other"}

SchemaWithoutGroups(params) ==
    [props |-> {<<p.loc, p.name, p.type>> : p \in params},
     required |-> IF HasBody /\ doc.required THEN {"body"} ELSE {},
     sub |-> [l \in Loc |-> SubRequired(params, l)]]

\* The input schema: one object per location, required when one of its
\* parameters is, and the body.
InputSchema(params) ==
    [props |-> {<<p.loc, p.name, p.type>> : p \in params},
     required |-> {l \in Loc : SubRequired(params, l) # {}}
                  \cup IF HasBody /\ doc.required THEN {"body"} ELSE {},
     sub |-> [l \in Loc |-> SubRequired(params, l)]]

\* The parameters, the tool, and get_server_prefix.
BuildTool ==
    /\ phase = "build"
    /\ IF (\E p \in doc.params : Unsupported(p)) \/ doc.servers > 1
       THEN Goto("failed") /\ UNCHANGED tool
       ELSE Goto("ready") /\ tool' = InputSchema(doc.params)
    /\ UNCHANGED <<doc, stack, request>>

\* Arguments the client may send: any that the input schema accepts.
Conforms(args, body) ==
    /\ args \subseteq tool.props
    /\ \A l \in tool.required \ {"body"} :
         \A n \in tool.sub[l] : \E a \in args : a[1] = l /\ a[2] = n
    /\ "body" \in tool.required => body

\* Handler::call_tool: strings are sent, numbers only in the path, and
\* everything else is skipped with a warning.
Sent(args, l) ==
    {a[2] : a \in {a \in args : a[1] = l /\
        a[3] \in (IF l = "path" THEN {"string", "number"} ELSE {"string"})}}

CallTool ==
    /\ phase = "ready"
    /\ \E args \in SUBSET tool.props, body \in BOOLEAN :
         /\ Conforms(args, body)
         /\ request' = [header |-> Sent(args, "header"), query |-> Sent(args, "query"),
                        path |-> Sent(args, "path"), body |-> body]
    /\ Goto("called")
    /\ UNCHANGED <<doc, stack, tool>>

ApiNext == ParseOperation \/ ResolveNested \/ BuildTool \/ CallTool

-----------------------------------------------------------------------------
\* Schemas that schema s refers to, directly or over up to n others.
Below[n \in 0..StackLimit, s \in DOMAIN doc.schemas] ==
    LET refs == ToSet(doc.schemas[s])
    IN  IF n = 0 THEN refs
        ELSE refs \cup UNION {Below[n - 1, r] : r \in refs \cap DOMAIN doc.schemas}

\* A tool is offered only when every schema its body refers to, at any depth, is
\* defined and none of them refers to itself; and running out of stack takes such
\* a cycle (resolve_nested_schema, which keeps no record of where it has been).
ResolvesAll ==
    LET reached == IF doc.body \in DOMAIN doc.schemas
                   THEN {doc.body} \cup Below[StackLimit, doc.body] ELSE {doc.body}
        cyclic == \E s \in reached \cap DOMAIN doc.schemas : s \in Below[StackLimit, s]
    IN  /\ (phase \in {"ready", "called"} /\ HasBody) =>
              reached \subseteq DOMAIN doc.schemas /\ ~cyclic
        /\ phase = "overflow" => cyclic

\* Arguments the tool's own input schema accepts give a request with every
\* required parameter of the operation, and its body, when the parameters are of
\* types that call_tool passes on.
SchemaSuffices ==
    phase = "called" =>
      /\ \A p \in doc.params : p.required => p.name \in request[p.loc]
      /\ (HasBody /\ doc.required) => request.body

\* Both at once.
ToolsSound == ResolvesAll /\ SchemaSuffices
=============================================================================
