------------------------------ MODULE FrontEnd ------------------------------
(***************************************************************************)
(* The front end: ServeDNS (internal/server) as every listener calls it,   *)
(* from access control to the record in the query log (QueryLog), and the  *)
(* encrypted listeners, which answer while their certificate is good       *)
(* (Certificates).                                                         *)
(*                                                                         *)
(* A name is on one plane: it is answered, may be missed, is a stub's or   *)
(* is forwarded.  What the cache and the upstream have is a choice here;   *)
(* Horizon, ForwardPath and OnDemand detail them.  An answer is its rcode. *)
(***************************************************************************)
EXTENDS QueryLog, Certificates

CONSTANTS
    Requests,
    Workloads,      \* what may be asked: client, xport, name, questions and plane of each request
    HTTPRequests,   \* shapes of requests to the DoH listener: path, method, type, body
    Allowed,        \* the clients that access control admits
    MaxInflight,    \* slots of the inbound limiter
    MaxWaiters      \* slots of on-demand waiters

VARIABLES
    req,        \* what is asked
    pc,         \* of each request
    res,        \* decision and rcode so far
    sent,       \* the rcode handed to WriteMsg or the HTTP error; "" before, "none" for no reply
    sem, odSem  \* slots taken

reqVars == <<req, pc, res, sent, sem, odSem>>
vars == <<logVars, certVars, reqVars>>

Init ==
    /\ QInit /\ CInit
    /\ req \in Workloads
    /\ pc = [r \in Requests |-> "new"]
    /\ res = [r \in Requests |-> [dec |-> "servfail", rcode |-> "SERVFAIL"]]
    /\ sent = [r \in Requests |-> ""]
    /\ sem = 0 /\ odSem = 0

Result(dec, rcode) == [dec |-> dec, rcode |-> rcode]

\* The reply is handed to WriteMsg, whose error is only logged; the deferred calls are
\* still to come.
Reply(r, result, rcode) ==
    /\ pc' = [pc EXCEPT ![r] = IF pc[r] = "slot" THEN "held" ELSE "free"]
    /\ res' = [res EXCEPT ![r] = result]
    /\ sent' = [sent EXCEPT ![r] = rcode]
    /\ UNCHANGED <<logVars, certVars, req>>

\* A request arrives at a listener that is up.
Arrives(r) ==
    /\ pc[r] = "new"
    /\ req[r].xport \in {"dot", "doh"} => Handshake(req[r].xport)

\* readDoHQuery: the HTTP error of a request without a message in it, "" if there is one.
readDoHQuery(h) ==
    CASE h.method = "GET" ->
           IF h.body \in {"none", "garbled"} THEN "400" ELSE IF h.body = "large" THEN "413" ELSE ""
      [] h.method = "POST" ->
           IF h.type # "dns" THEN "415"
           ELSE IF h.body = "large" THEN "413" ELSE IF h.body = "cut" THEN "400" ELSE ""
      [] OTHER -> "405"

\* dohHandler: only a message that unpacks gets to ServeDNS.
dohHandler(h) ==
    IF h.path # "query" THEN "404"
    ELSE IF readDoHQuery(h) # "" THEN readDoHQuery(h)
    ELSE IF h.body # "message" THEN "400" ELSE ""

RejectHTTP(r, h) ==
    /\ Arrives(r) /\ req[r].xport = "doh" /\ dohHandler(h) # ""
    /\ pc' = [pc EXCEPT ![r] = "rejected"]
    /\ sent' = [sent EXCEPT ![r] = dohHandler(h)]
    /\ UNCHANGED <<logVars, certVars, req, res, sem, odSem>>

\* An address that is not valid is not refused.
Refused(r) == req[r].client \notin Allowed \cup {NoClient}

Refuse(r) ==
    /\ Arrives(r) /\ Refused(r)
    /\ Reply(r, Result("refused", "REFUSED"), "REFUSED")
    /\ UNCHANGED <<sem, odSem>>

\* Over the limit a datagram is dropped, a stream is answered SERVFAIL.
Shed(r) ==
    /\ Arrives(r) /\ ~Refused(r) /\ sem = MaxInflight
    /\ Reply(r, Result("dropped", "SERVFAIL"), IF req[r].xport = "udp" THEN "none" ELSE "SERVFAIL")
    /\ UNCHANGED <<sem, odSem>>

Admit(r) ==
    /\ Arrives(r) /\ ~Refused(r) /\ sem < MaxInflight
    /\ sem' = sem + 1
    /\ pc' = [pc EXCEPT ![r] = "slot"]
    /\ UNCHANGED <<logVars, certVars, req, res, sent, odSem>>

\* A local miss gives its slot back before it waits; without a waiter slot it does not
\* wait.
Miss(r) ==
    /\ pc[r] = "slot" /\ req[r].plane = "lan"
    /\ sem' = sem - 1
    /\ IF odSem < MaxWaiters
       THEN odSem' = odSem + 1 /\ pc' = [pc EXCEPT ![r] = "wait"]
       ELSE pc' = [pc EXCEPT ![r] = "again"] /\ UNCHANGED odSem
    /\ UNCHANGED <<logVars, certVars, req, res, sent>>

Wake(r) ==
    /\ pc[r] = "wait"
    /\ odSem' = odSem - 1
    /\ pc' = [pc EXCEPT ![r] = "again"]
    /\ UNCHANGED <<logVars, certVars, req, res, sent, sem>>

\* Resolve gives a message; anything but one question is FORMERR.  What missed before is
\* resolved again and has a message.
Local(r, rcode) ==
    /\ pc[r] \in {"slot", "again"} /\ req[r].plane \in {"zone", "lan"}
    /\ (rcode = "FORMERR") = (req[r].questions # 1)
    /\ Reply(r, Result("local", rcode), rcode)
    /\ UNCHANGED <<sem, odSem>>

\* forward, for a stub zone: any answer is passed on.
Stub(r, answer) ==
    /\ pc[r] = "slot" /\ req[r].plane = "stub"
    /\ Reply(r, Result("stub", answer), answer)
    /\ UNCHANGED <<sem, odSem>>

\* Mutant: a stale answer keeps the rcode of the failure.
ForwardedStale(hit, live) ==
    IF hit = "fresh" THEN [res |-> Result("cache", "NOERROR"), sent |-> "NOERROR"]
    ELSE IF hit # "fail" /\ live = "NOERROR" THEN [res |-> Result("forward", live), sent |-> live]
    ELSE IF hit = "stale" THEN [res |-> Result("stale", "SERVFAIL"), sent |-> "NOERROR"]
    ELSE [res |-> Result("forward", "SERVFAIL"), sent |-> "SERVFAIL"]

\* forwardCached: what the cache has, then what the upstream gives; a failure is served
\* stale if it can be.
Forwarded(hit, live) ==
    IF hit = "fresh" THEN [res |-> Result("cache", "NOERROR"), sent |-> "NOERROR"]
    ELSE IF hit # "fail" /\ live = "NOERROR" THEN [res |-> Result("forward", live), sent |-> live]
    ELSE IF hit = "stale" THEN [res |-> Result("stale", "NOERROR"), sent |-> "NOERROR"]
    ELSE [res |-> Result("forward", "SERVFAIL"), sent |-> "SERVFAIL"]

Forward(r, hit, live) ==
    /\ pc[r] = "slot" /\ req[r].plane = "public"
    /\ Reply(r, Forwarded(hit, live).res, Forwarded(hit, live).sent)
    /\ UNCHANGED <<sem, odSem>>

\* The handler returns: the slot is given back, ...
Release(r) ==
    /\ pc[r] = "held"
    /\ pc' = [pc EXCEPT ![r] = "free"]
    /\ sem' = sem - 1
    /\ UNCHANGED <<logVars, certVars, req, res, sent, odSem>>

\* ... then recordQuery is called.
Return(r) ==
    /\ pc[r] = "free"
    /\ pc' = [pc EXCEPT ![r] = "done"]
    /\ IF req[r].questions # 1 THEN UNCHANGED logVars
       ELSE Record([client |-> req[r].client, xport |-> req[r].xport, name |-> req[r].name,
                    dec |-> res[r].dec, rcode |-> res[r].rcode])
    /\ UNCHANGED <<certVars, req, res, sent, sem, odSem>>

\* The diagnostics page asks for the busiest clients.
Browse ==
    /\ \E cold \in Cold : TopClients(cold)
    /\ UNCHANGED <<certVars, reqVars>>

Handle(r) ==
    \/ Refuse(r) \/ Shed(r) \/ Admit(r) \/ Miss(r) \/ Wake(r)
    \/ \E rcode \in {"NOERROR", "FORMERR"} : Local(r, rcode)
    \/ \E answer \in {"NOERROR", "SERVFAIL"} : Stub(r, answer)
    \/ \E hit \in {"none", "fresh", "fail", "stale"}, live \in {"NOERROR", "error"} : Forward(r, hit, live)
    \/ \E h \in HTTPRequests : RejectHTTP(r, h)
    \/ Release(r) \/ Return(r)

Next ==
    \/ \E r \in Requests : Handle(r)
    \/ Browse
    \/ CNext /\ UNCHANGED <<logVars, reqVars>>

Spec == Init /\ [][Next]_vars

\* The goroutines run: Run looks and polls, signals are taken, reloads go on.
Fairness ==
    /\ WF_vars((Watch \/ Poll) /\ UNCHANGED <<logVars, reqVars>>)
    /\ WF_vars(ReloadNow /\ UNCHANGED <<logVars, reqVars>>)
    /\ \A w \in Workers : WF_vars(Work(w) /\ UNCHANGED <<logVars, reqVars>>)

FairSpec == Spec /\ Fairness

----------------------------------------------------------------------------
\* The log tells what clients were told: every single question that came to its end is
\* counted once, under the decision taken for it and its transport, and the entries that
\* are kept carry the rcode handed to the writer, by whichever path; only a dropped
\* datagram had no reply, never a DoH request, and one that the DoH handler turned away is not counted.
\* The slots in use are those of the requests that hold one.
LedgerExact ==
    LET logged == {r \in Requests : pc[r] = "done" /\ req[r].questions = 1}
        is(r, e) == e.name = req[r].name /\ e.client = req[r].client /\ e.xport = req[r].xport
        told(r, e) == sent[r] = e.rcode
                        \/ (sent[r] = "none" /\ e.dec = "dropped" /\ e.xport = "udp")
    IN  /\ total = Cardinality(logged)
        /\ \A d \in Decisions : byDec[d] = Cardinality({r \in logged : res[r].dec = d})
        /\ \A t \in Transports : byXport[t] = Cardinality({r \in logged : req[r].xport = t})
        /\ \A i \in 1 .. count : \E r \in logged : is(r, Recent[i].entry) /\ told(r, Recent[i].entry)
        /\ clients \subseteq {req[r].client : r \in logged} \ {NoClient}
        /\ sem = Cardinality({r \in Requests : pc[r] \in {"slot", "held"}})
        /\ odSem = Cardinality({r \in Requests : pc[r] = "wait"})
=============================================================================
