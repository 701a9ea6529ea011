------------------------------ MODULE MdnsCache ------------------------------
(***************************************************************************)
(* internal/mdns/cache.go and trust.go: the two host stores, as operators  *)
(* on a record.  The volatile store follows announcements and their TTLs;  *)
(* the trusted store holds allocations that came with strong trust.        *)
(* Services and descriptors, the wire TTLs and the reverse names of a view *)
(* are left out.                                                           *)
(***************************************************************************)
EXTENDS Integers, FiniteSets

CONSTANTS
    Hosts, Addrs,
    MaxHosts,       \* maxHosts
    MaxTrusted,     \* c.maxTrusted
    BurstWindow,    \* burstWindow
    MaxTTL,         \* maxTTL
    CoercedTTL,     \* the 120 s of a goodbye without a grace
    StaleGrace, GoodbyeGrace, TrustedGrace      \* zero for none

ASSUME CacheAssumption ==
    /\ MaxHosts \in Nat \ {0} /\ MaxTrusted \in Nat
    /\ {BurstWindow, MaxTTL, CoercedTTL, StaleGrace, GoodbyeGrace, TrustedGrace} \subseteq Nat

Unset == -1
Time == Nat \cup {Unset}

\* entry and trustedEntry; an absent host has no address.
Entry == [addrs : SUBSET Addrs, notified : SUBSET Addrs,
          freshUntil : Time, expiry : Time, lastSeen : Time]
NoEntry == [addrs |-> {}, notified |-> {},
            freshUntil |-> Unset, expiry |-> Unset, lastSeen |-> Unset]
TrustedEntry == [addrs : SUBSET Addrs, seen : Time]
NoTrusted == [addrs |-> {}, seen |-> Unset]

CacheType == [hosts : [Hosts -> Entry], trusted : [Hosts -> TrustedEntry]]
NewCache == [hosts |-> [h \in Hosts |-> NoEntry], trusted |-> [h \in Hosts |-> NoTrusted]]

Present(store) == {h \in Hosts : store[h].addrs # {}}

Announcement == [host : Hosts, addrs : SUBSET Addrs, ttl : Nat]
Trust == {"none", "weak", "strong"}

----------------------------------------------------------------------------
(* The volatile store.                                                     *)

\* Whom evictOldestLocked may choose: map order decides between equals.
Oldest(hosts) ==
    {h \in Present(hosts) : \A g \in Present(hosts) : hosts[h].lastSeen <= hosts[g].lastSeen}

\* The host that makes room for h, if one has to.
Evicted(hosts, h) ==
    IF h \notin Present(hosts) /\ Cardinality(Present(hosts)) >= MaxHosts
    THEN {{g} : g \in Oldest(hosts)}
    ELSE {{}}

Lesser(m, n) == IF m < n THEN m ELSE n

\* A goodbye keeps a cushion when one is configured.
FreshFor(a) == Lesser(MaxTTL, IF a.ttl = 0 THEN CoercedTTL ELSE a.ttl)
IsGoodbye(a) == a.ttl = 0 /\ GoodbyeGrace > 0

\* Addresses of one burst are united; a later announcement replaces them.
Folded(old, seen, a, now) ==
    IF now - seen > BurstWindow THEN a.addrs ELSE old \cup a.addrs

\* The entry after an announcement, diffLocked included.
Announced(e, a, now) ==
    LET addrs == Folded(e.addrs, e.lastSeen, a, now)
        fresh == IF IsGoodbye(a) THEN now ELSE now + FreshFor(a)
    IN [addrs |-> addrs, notified |-> addrs, freshUntil |-> fresh,
        expiry |-> fresh + (IF IsGoodbye(a) THEN GoodbyeGrace ELSE StaleGrace),
        lastSeen |-> now]

AppliedHosts(hosts, a, now, evicted) ==
    [h \in Hosts |-> CASE h = a.host    -> Announced(hosts[h], a, now)
                       [] h \in evicted -> NoEntry
                       [] OTHER         -> hosts[h]]

\* diffLocked: the set differs from the one marked as notified.
AddrsDiffer(hosts, a, now) ==
    Announced(hosts[a.host], a, now).addrs # hosts[a.host].notified

----------------------------------------------------------------------------
(* The trusted store.                                                      *)

OldestTrusted(trusted) ==
    {h \in Present(trusted) : \A g \in Present(trusted) : trusted[h].seen <= trusted[g].seen}

EvictedTrusted(trusted, a) ==
    IF a.ttl # 0 /\ a.host \notin Present(trusted)
       /\ MaxTrusted > 0 /\ Cardinality(Present(trusted)) >= MaxTrusted
    THEN {{g} : g \in OldestTrusted(trusted)}
    ELSE {{}}

\* Mutant: a withdrawal is folded in like any announcement.
AllocatedAlways(te, a, now) ==
    [addrs |-> Folded(te.addrs, te.seen, a, now), seen |-> now]

\* applyTrustedLocked: a TTL of zero withdraws.
Allocated(te, a, now) ==
    IF a.ttl = 0 THEN NoTrusted
    ELSE [addrs |-> Folded(te.addrs, te.seen, a, now), seen |-> now]

AppliedTrusted(trusted, a, now, evicted) ==
    [h \in Hosts |-> CASE h = a.host    -> Allocated(trusted[h], a, now)
                       [] h \in evicted -> NoTrusted
                       [] OTHER         -> trusted[h]]

PastGrace(te, now) == TrustedGrace > 0 /\ now - te.seen > TrustedGrace

----------------------------------------------------------------------------
(* Expiry and views.                                                       *)

Expired(hosts, now) == {h \in Present(hosts) : now > hosts[h].expiry}

\* Mutant: a host that goes takes its allocation with it.
AfterExpireBoth(c, now) ==
    [hosts   |-> [h \in Hosts |-> IF h \in Expired(c.hosts, now) THEN NoEntry ELSE c.hosts[h]],
     trusted |-> [h \in Hosts |-> IF h \in Expired(c.hosts, now) \/ PastGrace(c.trusted[h], now)
                                  THEN NoTrusted ELSE c.trusted[h]]]

AfterExpire(c, now) ==
    [hosts   |-> [h \in Hosts |-> IF h \in Expired(c.hosts, now) THEN NoEntry ELSE c.hosts[h]],
     trusted |-> [h \in Hosts |-> IF PastGrace(c.trusted[h], now) THEN NoTrusted ELSE c.trusted[h]]]

\* View: the trusted addresses of each host and its other addresses.
TrustedAddrs(c, h, now) ==
    IF PastGrace(c.trusted[h], now) THEN {} ELSE c.trusted[h].addrs
VolatileAddrs(c, h, now) ==
    IF now > c.hosts[h].expiry THEN {} ELSE c.hosts[h].addrs \ TrustedAddrs(c, h, now)
View(c, now) ==
    [h \in Hosts |-> [trusted |-> TrustedAddrs(c, h, now), other |-> VolatileAddrs(c, h, now)]]
=============================================================================
