------------------------------ MODULE Horizon -------------------------------
(***************************************************************************)
(* The resolver over what it is published: the snapshot that the mirror    *)
(* builds from the Cloudflare account and the configuration, with the      *)
(* vhost set and the DDR advert folded in (internal/mirror/builder.go),    *)
(* and the view of the hosts on the LAN (internal/mdns/cache.go, view).    *)
(*                                                                         *)
(* Zones are edited, tunnels resolve or do not, virtual hosts come and go, *)
(* the encrypted listeners go up and down and hosts announce themselves,   *)
(* one change at a time; the properties quantify over every query that a   *)
(* client may send next.  How the pointers get published, in which order   *)
(* and late, is the subject of Mirror and MdnsSource.                      *)
(***************************************************************************)
EXTENDS Resolver, ZoneBuild, ReverseZones

CONSTANTS
    Cfg,            \* the zones, stubs and policies of the configuration
    Networks,       \* configurations of reverse zones and interfaces to start with
    Accounts,       \* what the account may hold: the records of each of its zones
    Resolutions,    \* what the lookups of tunnel names may return
    VHostSets,      \* sets of the vhost feed
    Adverts,        \* DDR adverts, and no advert
    Hosts,          \* labels of hosts on the LAN
    Announcements,  \* for each host the addresses it may be known by
    Services,       \* the services of each host, while it is known
    IpOf,           \* the address in the reverse tree of an address
    Upstream,       \* the records an upstream may answer a forwarded query with
    Queries         \* the questions of clients

VARIABLES
    net,        \* the network the process started on
    snap,       \* the published snapshot
    view        \* the published view

vars == <<net, snap, view>>

\* The view of known hosts: addresses, PTRs and services.
ViewOf(known) ==
    LET hosts == DOMAIN known
        names(h) == {ReverseName(IpOf[r.data]) : r \in known[h]}
    IN  [forward |-> known,
         reverse |-> [n \in UNION {names(h) : h \in hosts} |->
                        {<<h, "local">> : h \in {h \in hosts : n \in names(h)}}],
         services |-> [h \in hosts |-> Services[h]]]

\* A cold start: no zones yet, nobody known.
Init ==
    /\ net \in Networks
    /\ snap = BaseSnapshot(Cfg, ResolveReverseZones(net.explicit, net.addrs, net.scope))
    /\ view = ViewOf(<<>>)

\* refresh: a new snapshot with the vhost set and the advert of the day.
Refresh(account, resolve) ==
    /\ snap' = [BuildSnapshot(Cfg, snap.reverse, account, resolve) EXCEPT
                  !.vhosts = snap.vhosts, !.ddr = snap.ddr]
    /\ UNCHANGED <<net, view>>

\* republish, for the vhost feed and for the DDR advert.
ApplyVHosts(vhosts) == snap' = [snap EXCEPT !.vhosts = vhosts] /\ UNCHANGED <<net, view>>
ApplyDDR(ddr) == snap' = [snap EXCEPT !.ddr = ddr] /\ UNCHANGED <<net, view>>

\* A host announces addresses, changes them or is forgotten.
Announce(h, rrs) ==
    LET hosts == IF rrs = {} THEN DOMAIN view.forward \ {h} ELSE DOMAIN view.forward \cup {h}
    IN  /\ view' = ViewOf([k \in hosts |-> IF k = h THEN rrs ELSE view.forward[k]])
        /\ UNCHANGED <<net, snap>>

Next ==
    \/ \E account \in Accounts, resolve \in Resolutions : Refresh(account, resolve)
    \/ \E vhosts \in VHostSets : ApplyVHosts(vhosts)
    \/ \E ddr \in Adverts : ApplyDDR(ddr)
    \/ \E h \in Hosts : \E rrs \in Announcements[h] : Announce(h, rrs)

Spec == Init /\ [][Next]_vars

----------------------------------------------------------------------------
(* server.go: what is left of a forwarded answer.                          *)

\* IsForwardBlocked: addresses of a LAN and of special ranges; IPv4's loopback is let by.
IsForwardBlocked(r) ==
    /\ r.type \in AddressTypes
    /\ Scope(r) \in {"private", "linklocal", "special"} \/ (Scope(r) = "loopback" /\ r.type = "AAAA")

underAllow(name, allow) == \E suffix \in allow : isSuffixLabel(name, suffix)

applyRebindFilter(name, rrs) ==
    IF underAllow(name, snap.allowSuffix) THEN rrs ELSE {r \in rrs : ~IsForwardBlocked(r)}

----------------------------------------------------------------------------
(* Properties.                                                             *)

Ask(q) == Resolve(snap, view, <<q>>)
QueriesFor == [name \in {q.name : q \in Queries} |-> {q \in Queries : q.name = name}]

UnderLocal(name) == localLabel(snap, name) # <<>>
UnderResolverArpa(name) == isSuffixLabel(name, <<"resolver", "arpa">>)
ZoneOf(name) == longestSuffix(name, DOMAIN snap.zones)
ReverseOf(name) == longestSuffix(name, snap.reverse)
HasNoZone(name) ==
    \/ UnderResolverArpa(name) \/ UnderLocal(name)
    \/ name \in DOMAIN snap.static \/ \E d \in snap.ddr : name = d.adn

\* A name exists for every type or for none (RFC 2308, RFC 8020): no type of a name
\* is answered NXDOMAIN while another is answered, through redirect, overlay, recovery,
\* CNAMEs, wildcards, empty non-terminals and service discovery alike.
ExistenceConsistent ==
    \A name \in DOMAIN QueriesFor :
       LET outcomes == {Ask(q) : q \in QueriesFor[name]}
           rcodes == {o.msg.rcode : o \in {o \in outcomes : o.kind = "msg"}}
       IN  "NXDOMAIN" \in rcodes => rcodes = {"NXDOMAIN"}

\* An empty answer carries the SOA of the zone it is about, so that it is cached no
\* longer than that zone says: the longest managed zone of the name, for a reverse name
\* the longest reverse zone, never another's; the planes without a zone carry none.
NegativeSOA ==
    \A q \in Queries :
       LET out == Ask(q)
       IN  out.kind = "msg" /\ out.msg.answer = {}
             => out.msg.authority = (IF HasNoZone(q.name) THEN {}
                                     ELSE IF isArpa(q.name) THEN {ReverseOf(q.name)}
                                     ELSE {ZoneOf(q.name)})

\* An address that a host only claims for itself is never the answer for a managed
\* name: not for a vhost, www or a DDNS name in any spelling of the local plane, and
\* not in its zone for a DDNS name or one that has records.
ManagedNotSpoofed ==
    LET announced == UNION {view.forward[h] : h \in DOMAIN view.forward}
        claimed == {r.data : r \in {r \in announced : ~r.trusted}}
        managed(name) ==
            LET meant == recoverLocalHost(snap, name)
                zone == ZoneOf(name)
            IN  \/ meant.tainted /\ \E h \in meant.host : restrictedLabel(snap, h)
                \/ name \in snap.ddnsEligible
                \/ zone # <<>> /\ At(snap.zones[zone].records, relativeOwner(name, zone)) # {}
    IN  claimed # {} =>
          \A q \in Queries :
             managed(q.name) => \A a \in Ask(q).msg.answer : a.data \notin claimed

\* What a LAN client means locally stays local: a name under a local suffix, a managed
\* zone or a managed reverse zone is not forwarded, and the public wildcard of a zone
\* answers no address for a known LAN host or for a name that carries a local label.  A
\* name that is forwarded is given an address of a LAN exactly if it is under a zone of
\* the configuration, which may not have been fetched yet.
LanStaysLocal ==
    \A q \in Queries :
       LET out == Ask(q)
           zone == ZoneOf(q.name)
           owner == relativeOwner(q.name, zone)
           z == snap.zones[zone]
           exact == At(z.records, owner) \cup At(z.tunnel, owner) # {}
           lanHost == /\ Len(owner) = 1 /\ q.name \notin snap.ddnsEligible
                      /\ \E r \in At(view.forward, owner[1]) : isServable(r)
           tainted == recoverLocalHost(snap, q.name).tainted /\ owner \notin z.ent
           public == {r.data : r \in WildcardRRset(z, "ANY")}
           own == \E apex \in Cfg.local \cup DOMAIN Cfg.stubs : isSuffixLabel(q.name, apex)
           lanAddr(r) == r.type \in AddressTypes /\ Scope(r) \in {"private", "linklocal"}
       IN  /\ HasNoZone(q.name) \/ zone # <<>> \/ ReverseOf(q.name) # <<>>
                => out.kind # "forward"
           /\ zone # <<>> /\ out.kind = "msg" /\ ~exact /\ (lanHost \/ tainted)
                => \A a \in out.msg.answer :
                      a.type \in {"A", "AAAA", "CNAME"} => a.data \notin public
           /\ out.kind = "forward" =>
                \A r \in Upstream : lanAddr(r) => (r \in applyRebindFilter(q.name, Upstream)) = own

\* The server is authoritative for the reverse name of an address exactly if a listed
\* zone holds it or an aligned prefix of an interface in scope does: no address that is
\* not managed is claimed and none that is managed is forwarded.
ReverseExact ==
    \A ip \in Addresses :
       (Ask([name |-> ReverseName(ip), type |-> "PTR"]).kind # "forward")
          <=> \/ \E z \in net.explicit : isSuffixLabel(ReverseName(ip), z)
              \/ \E a \in net.addrs : /\ InScope(a.class, net.scope) /\ a.ones % Width = 0
                                      /\ InPrefix(ip, [ip |-> a.ip, bits |-> a.ones])
=============================================================================
