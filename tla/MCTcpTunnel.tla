---------------------------- MODULE MCTcpTunnel ----------------------------
EXTENDS TcpTunnel

TLis(p, h, r) == [protocol |-> p, host |-> h, route |-> r]
MCListenerSets ==
    { {}, {TLis("TCP", "", "address")}, {TLis("TCP", "", "hostname")},
      {TLis("TCP", "", "none"), TLis("TCP", "a", "address")},
      {TLis("TLS", "a", "address"), TLis("TLS", "*", "none"), TLis("TCP", "", "address")},
      {TLis("HTTPS", "a", "none")}, {TLis("HBONE", "", "none")} }
MCMaxBytes == [p \in TSides |-> IF p = "down" THEN 3 ELSE 1]
MCTSni == {"a", "b"}
MCTSizes == <<1, 2, 3>>
MCTThresholds == <<1, 2>>
============================================================================
