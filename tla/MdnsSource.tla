----------------------------- MODULE MdnsSource -----------------------------
(***************************************************************************)
(* internal/mdns/source.go: the goroutines of the listener's sockets and   *)
(* of the notify socket hand packets to one Source while its ticker        *)
(* expires hosts.  The cache is changed under its lock, the change         *)
(* callback runs after the lock is released, and a view is built under the *)
(* lock but stored after it.                                               *)
(***************************************************************************)
EXTENDS MdnsCache, Sequences

CONSTANTS
    Feeds,          \* goroutines that call HandlePacket
    Packets,        \* packets: announcements in order, and their trust
    MaxPackets,     \* bound: packets
    MaxTime         \* bound: the last instant of the clock

ASSUME SourceAssumption ==
    /\ Packets \subseteq [anns : Seq(Announcement), trust : Trust]
    /\ \A p \in Packets : p.anns # <<>> /\ \A i \in DOMAIN p.anns : p.anns[i].addrs # {}
    /\ MaxPackets \in Nat /\ MaxTime \in Nat

VARIABLES
    cache,      \* s.cache
    view,       \* s.view
    gor,        \* the feeds and the ticker
    clock,
    packets,    \* packets so far
    sent,       \* history: what onChange was last told of each host
    from,       \* history: the trust of each host's last announcement
    strong      \* history: what was given with strong trust since it was withdrawn or
                \* made room for another, and when the last of it arrived

vars == <<cache, view, gor, clock, packets, sent, from, strong>>

Ticker == "ticker"
Goroutines == Feeds \cup {Ticker}

\* now is read when the packet arrives; calls are due to onChange; snap is the view
\* that was built and not stored.
IdleGor == [at |-> "idle", anns |-> <<>>, trust |-> "none", now |-> 0, changed |-> FALSE,
            calls |-> <<>>, snap |-> View(NewCache, 0)]

Init ==
    /\ cache = NewCache /\ view = View(NewCache, 0)
    /\ gor = [g \in Goroutines |-> IdleGor]
    /\ clock = 0 /\ packets = 0
    /\ sent = [h \in Hosts |-> {}] /\ from = [h \in Hosts |-> "none"]
    /\ strong = [h \in Hosts |-> NoTrusted]

----------------------------------------------------------------------------
(* HandlePacket.                                                           *)

Receive(f, p) ==
    /\ gor[f].at = "idle" /\ packets < MaxPackets
    /\ packets' = packets + 1
    /\ gor' = [gor EXCEPT ![f] = [IdleGor EXCEPT !.at = "apply", !.anns = p.anns,
                                                 !.trust = p.trust, !.now = clock]]
    /\ UNCHANGED <<cache, view, clock, sent, from, strong>>

\* Where a handler goes after an announcement and its calls.
AfterCalls(s) ==
    CASE s.anns # <<>> -> [s EXCEPT !.at = "apply", !.calls = <<>>]
      [] s.anns = <<>> /\ s.changed -> [s EXCEPT !.at = "build", !.calls = <<>>]
      [] OTHER -> IdleGor
Resumed(s) == IF s.calls = <<>> THEN AfterCalls(s) ELSE [s EXCEPT !.at = "call"]

\* The calls of one announcement: for the host that was evicted and for its own.
CallsFor(a, evicted, changed, addrs) ==
    (IF evicted = {} THEN <<>> ELSE <<[host |-> CHOOSE h \in evicted : TRUE, addrs |-> {}]>>)
    \o (IF changed THEN <<[host |-> a.host, addrs |-> addrs]>> ELSE <<>>)

\* The history after an announcement of strong trust.
Given(a, now, evicted) ==
    [h \in Hosts |->
       CASE h = a.host -> IF a.ttl = 0 THEN NoTrusted
                          ELSE [addrs |-> strong[h].addrs \cup a.addrs, seen |-> now]
         [] h \in evicted -> NoTrusted
         [] OTHER -> strong[h]]

\* Apply, up to the release of the lock.  After the last announcement the services of
\* the packet may be news, which is published too.
Apply(f) ==
    LET s == gor[f]
        a == Head(s.anns)
        isStrong == s.trust = "strong"
    IN
    /\ s.at = "apply"
    /\ \E news \in IF Len(s.anns) = 1 THEN BOOLEAN ELSE {FALSE} :
       \E ev \in Evicted(cache.hosts, a.host) :
       \E tev \in IF isStrong THEN EvictedTrusted(cache.trusted, a) ELSE {{}} :
          LET hosts == AppliedHosts(cache.hosts, a, s.now, ev)
              trusted == IF isStrong THEN AppliedTrusted(cache.trusted, a, s.now, tev)
                                     ELSE cache.trusted
              changed == AddrsDiffer(cache.hosts, a, s.now)
                         \/ trusted[a.host].addrs # cache.trusted[a.host].addrs
              calls == IF s.trust = "none" THEN <<>>
                       ELSE CallsFor(a, ev, changed, hosts[a.host].addrs)
          IN /\ cache' = [hosts |-> hosts, trusted |-> trusted]
             /\ strong' = IF isStrong THEN Given(a, s.now, tev) ELSE strong
             /\ gor' = [gor EXCEPT ![f] =
                          Resumed([s EXCEPT !.anns = Tail(s.anns), !.changed = s.changed \/ changed \/ news,
                                            !.calls = calls])]
    /\ from' = [from EXCEPT ![a.host] = s.trust]
    /\ UNCHANGED <<view, clock, packets, sent>>

\* One call of onChange, by a handler or the ticker.
OnChange(g) ==
    LET s == gor[g]
        rest == [s EXCEPT !.calls = Tail(@)]
    IN
    /\ s.at = "call"
    /\ sent' = [sent EXCEPT ![Head(s.calls).host] = Head(s.calls).addrs]
    /\ gor' = [gor EXCEPT ![g] = Resumed(rest)]
    /\ UNCHANGED <<cache, view, clock, packets, from, strong>>

----------------------------------------------------------------------------
(* publish, and the ticker of Run.                                         *)

BuildView(g) ==
    /\ gor[g].at = "build"
    /\ gor' = [gor EXCEPT ![g].at = "store", ![g].snap = View(cache, clock)]
    /\ UNCHANGED <<cache, view, clock, packets, sent, from, strong>>

StoreView(g) ==
    /\ gor[g].at = "store"
    /\ view' = gor[g].snap
    /\ gor' = [gor EXCEPT ![g] = IdleGor]
    /\ UNCHANGED <<cache, clock, packets, sent, from, strong>>

\* The expired hosts are reported in any order.
Orders(S) == {q \in [1 .. Cardinality(S) -> S] : \A i, j \in DOMAIN q : q[i] = q[j] => i = j}

\* Mutant: the view is published only when a host has gone.
ExpireQuietly ==
    LET gone == Expired(cache.hosts, clock) IN
    /\ gor[Ticker].at = "idle"
    /\ cache' = AfterExpire(cache, clock)
    /\ \E q \in Orders(gone) :
          gor' = [gor EXCEPT ![Ticker] =
                    Resumed([IdleGor EXCEPT !.changed = gone # {},
                                            !.calls = [i \in DOMAIN q |-> [host |-> q[i], addrs |-> {}]]])]
    /\ UNCHANGED <<view, clock, packets, sent, from, strong>>

Expire ==
    LET gone == Expired(cache.hosts, clock) IN
    /\ gor[Ticker].at = "idle"
    /\ cache' = AfterExpire(cache, clock)
    /\ \E q \in Orders(gone) :
          gor' = [gor EXCEPT ![Ticker] =
                    Resumed([IdleGor EXCEPT !.changed = TRUE,
                                            !.calls = [i \in DOMAIN q |-> [host |-> q[i], addrs |-> {}]]])]
    /\ UNCHANGED <<view, clock, packets, sent, from, strong>>

Tick ==
    /\ clock < MaxTime /\ clock' = clock + 1
    /\ UNCHANGED <<cache, view, gor, packets, sent, from, strong>>

Handle(g) == OnChange(g) \/ BuildView(g) \/ StoreView(g)

Next ==
    \/ \E f \in Feeds : \E p \in Packets : Receive(f, p)
    \/ \E f \in Feeds : Apply(f)
    \/ \E g \in Goroutines : OnChange(g)
    \/ \E g \in Goroutines : BuildView(g)
    \/ \E g \in Goroutines : StoreView(g)
    \/ Expire \/ Tick

Spec == Init /\ [][Next]_vars

\* Handlers run on, and the ticker of Run fires again and again.
FairSpec ==
    /\ Spec
    /\ \A f \in Feeds : WF_vars(Apply(f))
    /\ \A g \in Goroutines : WF_vars(Handle(g))
    /\ WF_vars(Expire)

----------------------------------------------------------------------------
(* Properties.                                                             *)

\* trust.go: an allocation given with strong trust stays until it is withdrawn,
\* outlives its grace or makes room for another: no flood of names, goodbye, expiry or
\* replacement in the volatile store removes it.  Each store makes room in itself, so both
\* keep their bounds.
TrustedSurvives ==
    /\ Cardinality(Present(cache.hosts)) <= MaxHosts
    /\ MaxTrusted > 0 => Cardinality(Present(cache.trusted)) <= MaxTrusted
    /\ \A h \in Hosts :
          strong[h].addrs # {} /\ ~PastGrace(strong[h], clock) => cache.trusted[h].addrs # {}

\* What is in the trusted store came with strong trust since the last withdrawal,
\* although both stores fold announcements and share the addresses of a burst.
TrustedProvenance == \A h \in Hosts : cache.trusted[h].addrs \subseteq strong[h].addrs

\* Views are stored in another order than they were built; once packets cease and
\* time has passed, what is served is what the stores hold.
ViewConverges == <>[](view = View(cache, clock))

\* cache.go:87-88: "a TrustWeak-or-stronger announcement additionally fires onChange
\* (the DDNS write-back trigger, D7)".  When the last announcement of a host was of
\* that kind and no call is due, onChange was told of the addresses.
Due(h) == \E g \in Goroutines : \E i \in DOMAIN gor[g].calls : gor[g].calls[i].host = h
TrustedIsTold ==
    \A h \in Present(cache.hosts) :
       from[h] # "none" /\ ~Due(h) => sent[h] = cache.hosts[h].addrs
=============================================================================
