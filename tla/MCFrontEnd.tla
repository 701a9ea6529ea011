----------------------------- MODULE MCFrontEnd -----------------------------
(***************************************************************************)
(* A ring of two, one slot of each limiter and a table of one client.  One *)
(* workload of stub and public names, one with two misses in the LAN, one  *)
(* with a request of two questions and one over DoH; these run where DDR   *)
(* is not advertised, and the certificate lapses.  The reloaders run       *)
(* beside a request over DoT, with a DoH listener that did not come up.    *)
(***************************************************************************)
EXTENDS FrontEnd

Rq(client, xport, name, questions, plane) ==
    [client |-> client, xport |-> xport, name |-> name, questions |-> questions, plane |-> plane]
Encrypted ==
    [r1 |-> Rq("c1", "dot", "n1", 1, "zone"), r2 |-> Rq("c2", "doh", "n2", 1, "zone"),
     r3 |-> Rq("c3", "doh", "n3", 1, "zone")]
MCWorkloads ==
    {Encrypted,
     [r1 |-> Rq("c3", "udp", "n1", 2, "zone"), r2 |-> Rq("c2", "dot", "n2", 1, "public"),
      r3 |-> Rq("c1", "tcp", "n3", 1, "stub")],
     [r1 |-> Rq("c1", "udp", "n1", 1, "lan"), r2 |-> Rq(NoClient, "udp", "n1", 1, "lan"),
      r3 |-> Rq("c3", "dot", "n1", 1, "zone")],
     [r1 |-> Rq("c1", "udp", "n1", 2, "zone"), r2 |-> Rq(NoClient, "doh", "n2", 1, "zone"),
      r3 |-> Rq("c3", "tcp", "n3", 2, "zone")]}
Http(path, method, type, body) == [path |-> path, method |-> method, type |-> type, body |-> body]
MCHTTPRequests ==
    {Http("other", "GET", "dns", "message"), Http("query", "PUT", "dns", "message"),
     Http("query", "POST", "text", "message")}
      \cup {Http("query", m, "dns", b) : m \in {"GET", "POST"}, b \in {"message", "none", "garbled", "large", "cut"}}
MCNotAfter == <<1, 9, 9>>
MCInit == Init /\ IF advertise THEN req = Encrypted /\ up = {"dot"} ELSE req # Encrypted
MCSpec == MCInit /\ [][Next]_vars /\ Fairness
MCDecisions == {"local", "cache", "stale", "forward", "stub", "refused", "servfail", "dropped"}
MCTransports == {"udp", "tcp", "dot", "doh"}
OutcomesOf ==
    [zone |-> {Result("local", "NOERROR"), Result("refused", "REFUSED"), Result("dropped", "SERVFAIL")},
     lan |-> {Result("local", "NOERROR"), Result("dropped", "SERVFAIL")},
     stub |-> {Result("stub", "NOERROR"), Result("stub", "SERVFAIL"), Result("dropped", "SERVFAIL")},
     public |-> {Result("forward", "NOERROR"), Result("forward", "SERVFAIL"), Result("cache", "NOERROR"),
                 Result("stale", "NOERROR"), Result("dropped", "SERVFAIL")}]
MCEntries ==
    UNION {{[client |-> w[r].client, xport |-> w[r].xport, name |-> w[r].name,
             dec |-> o.dec, rcode |-> o.rcode] : o \in OutcomesOf[w[r].plane]} :
             <<w, r>> \in MCWorkloads \X Requests}
=============================================================================
