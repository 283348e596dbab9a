---------------------------- MODULE MCLocalConfig ----------------------------
EXTENDS LocalConfig

LHost(h) == [kind |-> "host", host |-> h, targets |-> <<>>]
LKind(k) == [kind |-> k, host |-> NoHost, targets |-> <<>>]
LMcp(ts) == [kind |-> "mcp", host |-> NoHost, targets |-> ts]
LTarget(k, h) == [kind |-> k, host |-> h]
LRoute(bs, bp, rp, m) == [backends |-> bs, bpol |-> bp, rpol |-> rp, mirror |-> m]
LBind(p, proto, rs) == [port |-> p, protocol |-> proto, routes |-> rs]
LText(bs, remote, svcs) == [text |-> "yaml", binds |-> bs, remote |-> remote, services |-> svcs]
NoMirror == LKind("none")

MCFile ==
    [plain   |-> LText(<<LBind(1, "HTTP", <<LRoute(<<LHost(1)>>, TRUE, FALSE, LHost(2))>>)>>, FALSE, {"s"}),
     rich    |-> LText(<<LBind(1, "HTTP", <<LRoute(<<LMcp(<<LTarget("sse", 2), LTarget("stdio", 0),
                                                           LTarget("mcp", 3)>>)>>, FALSE, TRUE, NoMirror)>>),
                         LBind(2, "HTTP", <<LRoute(<<LKind("service"), LKind("invalid"), LKind("ai")>>,
                                                   FALSE, FALSE, NoMirror),
                                            LRoute(<<LKind("dynamic")>>, FALSE, FALSE, LKind("invalid"))>>)>>,
                       TRUE, {"s", "t"}),
     tcp     |-> LText(<<LBind(2, "TCP", <<LRoute(<<LHost(1)>>, FALSE, FALSE, NoMirror)>>)>>, FALSE, {}),
     twice   |-> LText(<<LBind(1, "HTTP", <<LRoute(<<LHost(1), LHost(2)>>, TRUE, FALSE, LKind("service"))>>)>>,
                       FALSE, {}),
     empty   |-> LText(<<>>, FALSE, {}),
     garbled |-> [text |-> "garbled", binds |-> <<>>, remote |-> FALSE, services |-> {}],
     (* The file of examples/openapi. *)
     openapi |-> LText(<<LBind(1, "HTTP", <<LRoute(<<LMcp(<<LTarget("openapi", 1)>>)>>, FALSE, FALSE, NoMirror)>>)>>,
                       FALSE, {})]
============================================================================
