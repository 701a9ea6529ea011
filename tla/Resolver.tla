------------------------------ MODULE Resolver ------------------------------
(***************************************************************************)
(* internal/resolver: Resolve, a pure function of the published snapshot,  *)
(* the published mDNS view and a request.  Operators only; Horizon runs    *)
(* them over snapshots that the mirror builds and views that hosts change. *)
(*                                                                         *)
(* A name is the sequence of its labels in lower case.  An RR has a type   *)
(* and data: a target name, or an address, which is reduced to its scope   *)
(* and an identity.  The RRsets of an owner, an answer and an authority    *)
(* section are sets: order, TTLs, SVCB parameters and MX preferences are   *)
(* left out.  "MX" stands for every type without a rule of its own.  The   *)
(* zone pointer is never nil here, nor is the view.                        *)
(***************************************************************************)
EXTENDS Integers, Sequences
LOCAL INSTANCE SequencesExt

CONSTANTS
    ServiceLabels,  \* the labels that begin with an underscore
    IdLabels,       \* the labels that look like a machine id
    LexOrder        \* the host labels in lexical order, as a sequence

AddressTypes == {"A", "AAAA"}
OverrideStripped == {"A", "AAAA", "CNAME", "HTTPS", "SVCB"}
MaxCNAMEChain == 8
MaxStrips == 8

----------------------------------------------------------------------------
(* helpers.go: names, RRsets and replies.                                  *)

isSuffixLabel(name, apex) ==
    Len(apex) <= Len(name) /\ SubSeq(name, Len(name) - Len(apex) + 1, Len(name)) = apex

\* The longest of the apexes that are a suffix of name, <<>> if there is none.
longestSuffix(name, apexes) ==
    LET matches == {a \in apexes : isSuffixLabel(name, a)}
    IN  IF matches = {} THEN <<>>
        ELSE CHOOSE a \in matches : \A b \in matches : Len(b) <= Len(a)

relativeOwner(name, apex) == SubSeq(name, 1, Len(name) - Len(apex))

isArpa(name) ==
    \E zone \in {<<"in-addr", "arpa">>, <<"ip6", "arpa">>} :
       isSuffixLabel(name, zone) /\ name # zone

\* A nil map entry and an empty RRset read alike.
At(map, key) == IF key \in DOMAIN map THEN map[key] ELSE {}

OfType(rrs, qtype) == {r \in rrs : r.type = qtype}
Matching(rrs, qtype) == {r \in rrs : qtype = "ANY" \/ r.type = qtype}
Owned(rrs, name) == {[owner |-> name, type |-> r.type, data |-> r.data] : r \in rrs}

Reply(rcode, answer, authority) ==
    [rcode |-> rcode, answer |-> answer, authority |-> authority]
Found(rrs, name) == Reply("NOERROR", Owned(rrs, name), {})

\* setNegativeSOA.  Every zone has a SOA.
Negative(rcode, apex) == Reply(rcode, {}, {apex})

\* Outcome: a message, a stub query or a forwarded one; miss is LocalLabel of a
\* LocalMiss.
Answered(msg) == [kind |-> "msg", msg |-> msg, miss |-> {}]
Unanswered(kind) == [kind |-> kind, msg |-> Reply("", {}, {}), miss |-> {}]

----------------------------------------------------------------------------
(* zone.go: the authoritative zone.                                        *)

\* The wildcard's RRset of a type; ANY does not show a flattened CNAME.
WildcardRRset(zone, qtype) ==
    LET wc == zone.wildcards
        wt == At(zone.tunnel, <<"*">>)
    IN  IF qtype = "ANY" THEN {r \in wc : r.type # "CNAME" \/ wt = {}} \cup wt
        ELSE IF qtype \in AddressTypes /\ OfType(wt, qtype) # {} THEN OfType(wt, qtype)
        ELSE OfType(wc, qtype)

\* Mutant: a wildcard without the type is taken for no wildcard.
wildcardOrNXByType(zone, name, qtype) ==
    IF WildcardRRset(zone, qtype) # {} THEN Found(WildcardRRset(zone, qtype), name)
    ELSE Negative("NXDOMAIN", zone.apex)

wildcardOrNX(zone, name, qtype) ==
    IF WildcardRRset(zone, qtype) # {} THEN Found(WildcardRRset(zone, qtype), name)
    ELSE Negative(IF WildcardRRset(zone, "ANY") = {} THEN "NXDOMAIN" ELSE "NOERROR", zone.apex)

\* The RRset of a type at an owner: a real address wins over a flattened one.
RRset(zone, owner, qtype) ==
    LET real == OfType(At(zone.records, owner), qtype)
    IN  IF real = {} /\ qtype \in AddressTypes THEN OfType(At(zone.tunnel, owner), qtype)
        ELSE real

\* chaseCNAME: the chain in the zone and the RRset it ends in.
RECURSIVE chaseCNAME(_, _, _, _, _)
chaseCNAME(zone, owner, name, qtype, depth) ==
    LET cname == RRset(zone, owner, "CNAME")
        target == (CHOOSE r \in cname : TRUE).data
        tOwner == relativeOwner(target, zone.apex)
    IN  IF depth > MaxCNAMEChain \/ cname = {} THEN {}
        ELSE Owned(cname, name) \cup
             (IF ~isSuffixLabel(target, zone.apex) THEN {}
              ELSE IF RRset(zone, tOwner, qtype) # {} THEN Owned(RRset(zone, tOwner, qtype), target)
              ELSE chaseCNAME(zone, tOwner, target, qtype, depth + 1))

answerAuthoritative(zone, name, owner, qtype) ==
    LET recs == At(zone.records, owner)
        tunnel == At(zone.tunnel, owner)
        exactExists == recs \cup tunnel # {}
    IN  IF qtype = "ANY" /\ exactExists
        THEN Found({r \in recs : r.type # "CNAME" \/ tunnel = {}} \cup tunnel, name)
        ELSE IF RRset(zone, owner, qtype) # {} THEN Found(RRset(zone, owner, qtype), name)
        ELSE IF OfType(recs, "CNAME") # {} /\ (qtype \in AddressTypes \/ owner # <<>>)
        THEN Reply("NOERROR", chaseCNAME(zone, owner, name, qtype, 0), {})
        ELSE IF exactExists \/ owner \in zone.ent THEN Negative("NOERROR", zone.apex)
        ELSE wildcardOrNX(zone, name, qtype)

----------------------------------------------------------------------------
(* Addresses, and names with a local meaning.                              *)

Scope(r) == r.data[1]
isServable(r) == Scope(r) # "linklocal"

\* A private address, or a routed IPv6 one.
isLocalScope(r) == Scope(r) = "private" \/ (Scope(r) = "global" /\ r.type = "AAAA")

\* localScopeAddrs: for each family the local ones, if there are any.
localScopeAddrs(rrs) ==
    LET usable(t) == {r \in OfType(rrs, t) : isServable(r)}
        local(t) == {r \in usable(t) : isLocalScope(r)}
    IN  UNION {IF local(t) # {} THEN local(t) ELSE usable(t) : t \in AddressTypes}

\* The suffixes of the local plane.
LocalSuffixes(snap) == {<<"local">>} \cup ({<<snap.localDomain>>} \ {<<"">>})

\* stripMember: a label must remain.
stripMember(name, member) ==
    IF Len(name) > Len(member) /\ isSuffixLabel(name, member)
    THEN relativeOwner(name, member) ELSE name

\* localLabel: what precedes the local suffix, <<>> for a name that has none.
localLabel(snap, name) ==
    LET stripped == {stripMember(name, s) : s \in LocalSuffixes(snap)} \ {name}
    IN  IF stripped = {} THEN <<>> ELSE CHOOSE l \in stripped : TRUE

\* One pass of recoverLocalHost's loop after another: local suffixes come before
\* the longest zone apex.
RECURSIVE Strip(_, _, _)
Strip(snap, cur, n) ==
    LET apex == longestSuffix(cur.name, DOMAIN snap.zones)
        rest == stripMember(cur.name, apex)
    IN  IF n = 0 THEN cur
        ELSE IF localLabel(snap, cur.name) # <<>>
        THEN Strip(snap, [name |-> localLabel(snap, cur.name), tainted |-> TRUE], n - 1)
        ELSE IF apex # <<>> /\ rest # cur.name
        THEN Strip(snap, [cur EXCEPT !.name = rest], n - 1)
        ELSE cur

\* recoverLocalHost: host is the set of the one label left, {} if not ok.
recoverLocalHost(snap, name) ==
    LET left == Strip(snap, [name |-> name, tainted |-> FALSE], MaxStrips)
        isHost == /\ left.name # name /\ Len(left.name) = 1
                  /\ left.name[1] \notin ServiceLabels
                  /\ left.name \notin LocalSuffixes(snap)
    IN  [host |-> IF isHost THEN {left.name[1]} ELSE {}, tainted |-> left.tainted]

restrictedLabel(snap, host) ==
    \/ host = "www" \/ host \in snap.vhosts
    \/ \E apex \in DOMAIN snap.zones : <<host>> \o apex \in snap.ddnsEligible

\* Mutant: a managed name is served from what anybody announced.
localServeAddrsAny(view, host, qtype, restricted, localScopeOnly) ==
    LET usable == {r \in OfType(At(view.forward, host), qtype) :
                      isServable(r) /\ (localScopeOnly => isLocalScope(r))}
        trusted == {r \in usable : r.trusted}
    IN  IF trusted # {} THEN trusted ELSE usable

localServeAddrs(view, host, qtype, restricted, localScopeOnly) ==
    LET usable == {r \in OfType(At(view.forward, host), qtype) :
                      isServable(r) /\ (localScopeOnly => isLocalScope(r))}
        trusted == {r \in usable : r.trusted}
    IN  IF trusted # {} \/ restricted THEN trusted ELSE usable

localHostAddrs(snap, view, host, localScopeOnly) ==
    UNION {localServeAddrs(view, host, t, restrictedLabel(snap, host), localScopeOnly) :
              t \in AddressTypes}

\* fillLocalAddrs: ANY is both families.
LocalAnswer(addrs, name, qtype) == Owned(Matching(addrs, qtype), name)

----------------------------------------------------------------------------
(* vhostReply and mdnsZoneReply: an address that overrides the zone's, the *)
(* other types inherited, except those that point at a public endpoint.    *)

Overridden(zone, name, addrs, inherited, qtype) ==
    LET rrs == addrs \cup {r \in inherited : r.type \notin OverrideStripped}
    IN  IF Matching(rrs, qtype) = {} THEN Negative("NOERROR", zone.apex)
        ELSE Found(Matching(rrs, qtype), name)

isVHostCandidate(snap, apex, owner) ==
    /\ apex \notin snap.excluded
    /\ snap.proxy # {}
    /\ owner = <<>> \/ (Len(owner) = 1 /\ (owner[1] = "www" \/ owner[1] \in snap.vhosts))

vhostReply(snap, zone, name, owner, qtype) ==
    Overridden(zone, name, snap.proxy,
               IF owner = <<>> THEN At(zone.records, <<>>) ELSE zone.wildcards, qtype)

mdnsZoneReply(zone, name, addrs, qtype) ==
    Overridden(zone, name, addrs, zone.wildcards, qtype)

localRecoveredZoneReply(snap, view, zone, name, host, qtype) ==
    LET addrs == localHostAddrs(snap, view, host, TRUE)
    IN  IF addrs = {} THEN Negative("NXDOMAIN", zone.apex)
        ELSE IF LocalAnswer(addrs, name, qtype) = {} THEN Negative("NOERROR", zone.apex)
        ELSE Reply("NOERROR", LocalAnswer(addrs, name, qtype), {})

----------------------------------------------------------------------------
(* dnssd.go: services that hosts announced, read only.                     *)

DnssdMeta == <<"_services", "_dns-sd", "_udp">>

\* parseDNSSD: type is the last two labels, host the labels before.
parseDNSSD(label) ==
    LET n == Len(label)
        isNode == n >= 2 /\ label[n] \in {"_tcp", "_udp"} /\ label[n - 1] \in ServiceLabels
    IN  IF label = DnssdMeta THEN [kind |-> "meta", host |-> <<>>, type |-> <<>>]
        ELSE IF ~isNode THEN [kind |-> "", host |-> <<>>, type |-> <<>>]
        ELSE [kind |-> IF n = 2 THEN "type" ELSE "instance",
              host |-> SubSeq(label, 1, n - 2), type |-> SubSeq(label, n - 1, n)]

\* The records of a node; suffix is the local suffix of the query.
answerDNSSD(view, label, suffix) ==
    LET node == parseDNSSD(label)
        hosts == DOMAIN view.services
        ptr(target) == [type |-> "PTR", data |-> target \o suffix]
    IN  CASE node.kind = "meta" ->
               {ptr(s.type) : s \in UNION {view.services[h] : h \in hosts}}
          [] node.kind = "type" ->
               {ptr(<<h>> \o node.type) :
                  h \in {h \in hosts : \E s \in view.services[h] : s.type = node.type}}
          [] node.kind = "instance" ->
               UNION {{[type |-> "SRV", data |-> node.host \o suffix]}
                        \cup (IF s.text THEN {[type |-> "TXT", data |-> s.type]} ELSE {}) :
                      s \in {s \in At(view.services, node.host[1]) :
                               s.type = node.type /\ Len(node.host) = 1}}

----------------------------------------------------------------------------
(* Resolve, step by step.                                                  *)

\* resolverArpa and ddrSVCB: one designation per transport that is up.
resolverArpa(snap, name, qtype) ==
    IF name = <<"_dns", "resolver", "arpa">> /\ qtype \in {"SVCB", "ANY"}
    THEN Found(UNION {{[type |-> "SVCB", data |-> <<t>> \o d.adn] : t \in d.transports} :
                         d \in snap.ddr}, name)
    ELSE Found({}, name)

\* ddrADNReply: the same addresses as the hints of the designations.
ddrADNReply(d, name, qtype) == Found(Matching(d.hints, qtype), name)

\* answerStatic: a static name without the type has no data, and no SOA.
answerStatic(snap, name, qtype) == Found(Matching(snap.static[name], qtype), name)

minimalANY(name) == Found({[type |-> "HINFO", data |-> <<"rfc8482">>]}, name)

\* betterCanonical: a hostname before an id, then lexical order.
BetterCanonical(a, b) ==
    IF (a \in IdLabels) # (b \in IdLabels) THEN b \in IdLabels
    ELSE \E i, j \in 1 .. Len(LexOrder) : i < j /\ LexOrder[i] = a /\ LexOrder[j] = b

\* canonicalReversePTR: one PTR at most, under the local domain.
canonicalReversePTR(snap, targets) ==
    LET hosts == {t[1] : t \in {t \in targets : Len(t) > 1 /\ t[Len(t)] = "local"}}
        best == CHOOSE h \in hosts : \A o \in hosts \ {h} : BetterCanonical(h, o)
        suffix == IF snap.localDomain = "" THEN "local" ELSE snap.localDomain
    IN  IF hosts = {} THEN {} ELSE {[type |-> "PTR", data |-> <<best, suffix>>]}

\* Mutant: the zone is any that matches, not the longest.
answerReverseAnyZone(snap, view, name, qtype) ==
    LET zones == {a \in snap.reverse : isSuffixLabel(name, a)}
        ptr == canonicalReversePTR(snap, At(view.reverse, name))
    IN  IF zones = {} THEN Unanswered("forward")
        ELSE IF qtype \in {"PTR", "ANY"} /\ ptr # {} THEN Answered(Found(ptr, name))
        ELSE Answered(Negative("NOERROR", CHOOSE a \in zones : \A b \in zones : Len(a) <= Len(b)))

\* A static PTR was answered by an earlier step.
answerReverse(snap, view, name, qtype) ==
    LET apex == longestSuffix(name, snap.reverse)
        ptr == canonicalReversePTR(snap, At(view.reverse, name))
    IN  IF apex = <<>> THEN Unanswered("forward")
        ELSE IF qtype \in {"PTR", "ANY"} /\ ptr # {} THEN Answered(Found(ptr, name))
        ELSE Answered(Negative("NOERROR", apex))

\* The local plane has no SOA.  A miss of an address of an unmanaged host may be
\* solicited.
answerLocal(snap, view, name, label, qtype) ==
    LET hosts == recoverLocalHost(snap, name).host
        host == CHOOSE h \in hosts : TRUE
        addrs == IF hosts = {} THEN {} ELSE localHostAddrs(snap, view, host, FALSE)
        suffix == SubSeq(name, Len(label) + 1, Len(name))
    IN  IF snap.serveDNSSD /\ parseDNSSD(label).kind # ""
        THEN Answered(Found(Matching(answerDNSSD(view, label, suffix), qtype), name))
        ELSE IF addrs # {} THEN Answered(Reply("NOERROR", LocalAnswer(addrs, name, qtype), {}))
        ELSE [Answered(Reply("NXDOMAIN", {}, {})) EXCEPT
                !.miss = {h \in hosts : ~restrictedLabel(snap, h)
                                         /\ qtype \in AddressTypes \cup {"ANY"}}]

\* Mutant: without step 6c, the recovery of search-list artifacts.
answerZoneOrVHostNoRecovery(snap, view, name, apex, qtype) ==
    LET zone == snap.zones[apex]
        owner == relativeOwner(name, apex)
        exact == At(zone.records, owner) \cup At(zone.tunnel, owner) # {}
        mdns == IF Len(owner) = 1 THEN localScopeAddrs(At(view.forward, owner[1])) ELSE {}
    IN  IF isVHostCandidate(snap, apex, owner) THEN vhostReply(snap, zone, name, owner, qtype)
        ELSE IF ~exact /\ name \notin snap.ddnsEligible /\ mdns # {}
        THEN mdnsZoneReply(zone, name, mdns, qtype)
        ELSE answerAuthoritative(zone, name, owner, qtype)

\* vhost redirect, mDNS overlay, recovery of a name that carries a local label, zone.
answerZoneOrVHost(snap, view, name, apex, qtype) ==
    LET zone == snap.zones[apex]
        owner == relativeOwner(name, apex)
        exact == At(zone.records, owner) \cup At(zone.tunnel, owner) # {}
        mdns == IF Len(owner) = 1 THEN localScopeAddrs(At(view.forward, owner[1])) ELSE {}
        meant == recoverLocalHost(snap, name)
    IN  IF isVHostCandidate(snap, apex, owner) THEN vhostReply(snap, zone, name, owner, qtype)
        ELSE IF ~exact /\ name \notin snap.ddnsEligible /\ mdns # {}
        THEN mdnsZoneReply(zone, name, mdns, qtype)
        ELSE IF ~meant.tainted \/ exact \/ owner \in zone.ent
        THEN answerAuthoritative(zone, name, owner, qtype)
        ELSE IF meant.host = {} THEN Negative("NXDOMAIN", apex)
        ELSE localRecoveredZoneReply(snap, view, zone, name,
                                     CHOOSE h \in meant.host : TRUE, qtype)

\* stubMatch: the longest stub zone; one without targets does not count.
stubMatch(snap, name) ==
    LET apex == longestSuffix(name, DOMAIN snap.stubs)
    IN  IF apex = <<>> THEN {} ELSE snap.stubs[apex]

\* Resolve: questions is the request's question section, of name and type.
Resolve(snap, view, questions) ==
    LET name == questions[1].name
        qtype == questions[1].type
        adn == {d \in snap.ddr : name = d.adn}
        apex == longestSuffix(name, DOMAIN snap.zones)
    IN  IF Len(questions) # 1 THEN Answered(Reply("FORMERR", {}, {}))
        ELSE IF isSuffixLabel(name, <<"resolver", "arpa">>)
        THEN Answered(resolverArpa(snap, name, qtype))
        ELSE IF adn # {} THEN Answered(ddrADNReply(CHOOSE d \in adn : TRUE, name, qtype))
        ELSE IF name \in DOMAIN snap.static
        THEN Answered(answerStatic(snap, name, qtype))
        ELSE IF isArpa(name) THEN answerReverse(snap, view, name, qtype)
        ELSE IF localLabel(snap, name) # <<>>
        THEN answerLocal(snap, view, name, localLabel(snap, name), qtype)
        ELSE IF stubMatch(snap, name) # {} THEN Unanswered("stub")
        ELSE IF apex # <<>> THEN Answered(answerZoneOrVHost(snap, view, name, apex, qtype))
        ELSE IF qtype = "ANY" THEN Answered(minimalANY(name))
        ELSE Unanswered("forward")
=============================================================================
