----------------------------- MODULE MCHorizon ------------------------------
(***************************************************************************)
(* A zone z with a sub zone sub.z, which is excluded from the redirect, a  *)
(* stub zone below z and one without targets, a LAN with a host that is a  *)
(* vhost and one whose name is a DDNS name, which shares an address.       *)
(***************************************************************************)
EXTENDS Horizon, TLC

MCLexOrder == <<"e", "h", "v">>
MCTunnelSuffix == <<"tun">>
MCArpa == <<"in-addr", "arpa">>
MCLabelOf == [d \in 0 .. 3 |-> <<"0", "1", "2", "3">>[d + 1]]

Z == <<"z">>
SubZ == <<"sub", "z">>
Tunnel == <<"id", "tun">>

MCCfg == [local |-> {Z, SubZ}, stubs |-> (<<"stub", "z">> :> {"t1"}) @@ (<<"idle", "z">> :> {}),
          excluded |-> {SubZ}, eligible |-> {<<"e">> \o Z}, localDomain |-> "lan",
          serveDNSSD |-> TRUE, proxy |-> {[type |-> "A", data |-> <<"private", "proxy">>, trusted |-> FALSE]}]

Net(explicit, addrs, scope) == [explicit |-> explicit, addrs |-> addrs, scope |-> scope]
If(ip, ones, class) == [ip |-> ip, ones |-> ones, class |-> class]
MCNetworks ==
    {Net({<<"2", "1", "in-addr", "arpa">>}, {If(5, 2, "private"), If(9, 3, "private"), If(14, 2, "global")}, "all"),
     Net({<<"1", "in-addr", "arpa">>}, {If(5, 4, "private"), If(0, 1, "global"), If(13, 4, "global")}, "global"),
     Net({}, {If(9, 2, "private"), If(6, 4, "global")}, "private")}

Rec(name, type, data) == [name |-> name \o Z, type |-> type, data |-> data]
Pub(id) == <<"public", id>>
Plain == {Rec(<<"a">>, "A", Pub("a")), Rec(<<>>, "MX", Z), Rec(<<>>, "A", Pub("apex")), Rec(<<"q">>, "SOA", Z)}
Chains == {Rec(<<"c">>, "CNAME", <<"a">> \o Z), Rec(<<"d">>, "CNAME", <<"c">> \o Z),
           Rec(<<"k">>, "CNAME", <<"m">> \o Z), Rec(<<"m">>, "CNAME", <<"k">> \o Z),
           Rec(<<"o">>, "CNAME", <<"far">>), Rec(<<"x", "n">>, "A", Pub("x")),
           Rec(<<"t">>, "CNAME", Tunnel), Rec(<<"e">>, "A", Pub("e"))}
LanNames == {Rec(<<"h">>, "A", Pub("h")), Rec(<<"v", "lan">>, "MX", Z), Rec(<<"w", "local">>, "A", Pub("w"))}
Wild == {{}, {Rec(<<"*">>, "A", Pub("wild")), Rec(<<"*">>, "MX", Z)},
         {Rec(<<"*">>, "CNAME", <<"a">> \o Z)}, {Rec(<<"*">>, "CNAME", Tunnel)}}
SubRecs == {[name |-> <<"*">> \o SubZ, type |-> "AAAA", data |-> Pub("sub")]}
MCAccounts ==
    {(Z :> (Plain \cup extra \cup wild)) : extra \in {{}, Chains}, wild \in Wild}
      \cup {(Z :> (Plain \cup LanNames \cup wild)) @@ (SubZ :> SubRecs) : wild \in Wild}

Flat(addrs) == [n \in {<<"t", "z">>, <<"__probe", "z">>} |-> addrs]
MCResolutions == {Flat({}), Flat({[type |-> "A", data |-> Pub("flat"), trusted |-> FALSE]})}

MCVHostSets == {{}, {"v"}}
MCAdverts == {{}, {[adn |-> <<"dns">> \o Z, transports |-> {"dot", "doh"},
                    hints |-> {[type |-> "A", data |-> <<"private", "me">>, trusted |-> FALSE]}]}}

Addr(type, scope, id, trusted) == [type |-> type, data |-> <<scope, id>>, trusted |-> trusted]
MCHosts == {"h", "v", "e"}
MCAnnouncements ==
    [h |-> {{}, {Addr("A", "private", "h1", FALSE)},
            {Addr("A", "global", "h2", FALSE), Addr("AAAA", "linklocal", "h3", FALSE)}},
     v |-> {{}, {Addr("A", "private", "v1", FALSE)},
            {Addr("A", "private", "v1", FALSE), Addr("A", "private", "v2", TRUE)}},
     e |-> {{}, {Addr("A", "private", "h1", FALSE), Addr("AAAA", "global", "e1", FALSE)}}]
MCIpOf == (<<"private", "h1">> :> 5) @@ (<<"global", "h2">> :> 6) @@ (<<"linklocal", "h3">> :> 7)
            @@ (<<"private", "v1">> :> 9) @@ (<<"private", "v2">> :> 2) @@ (<<"global", "e1">> :> 13)
MCUpstream == {Addr("A", "private", "u1", FALSE), Addr("AAAA", "linklocal", "u2", FALSE),
               Addr("A", "loopback", "u3", FALSE), Addr("A", "global", "u4", FALSE),
               [type |-> "CNAME", data |-> <<"far", "away">>, trusted |-> FALSE]}
Ipp == <<"_ipp", "_tcp">>
MCServices == [h |-> {[type |-> Ipp, text |-> TRUE]}, v |-> {[type |-> Ipp, text |-> FALSE]}, e |-> {}]

Spellings(h) == {<<h>> \o s : s \in {Z, SubZ, <<"lan">>, <<"local">>, <<"lan", "z">>, <<"z", "lan">>,
                                    <<"lan", "sub", "z">>}}
MCNames ==
    UNION {Spellings(h) : h \in {"h", "v", "e"}}
      \cup {<<l>> \o Z : l \in {"www", "a", "d", "k", "o", "n", "t", "q", "stub", "idle", "dns"}}
      \cup {<<"x", "n">> \o Z, <<"y", "n">> \o Z, <<"w", "local">> \o Z, <<"y", "lan">> \o Z, Z, <<"far">>, <<"lan", "z">>}
ServiceNodes == {<<"h">> \o Ipp \o <<"local">>, Ipp \o <<"lan">>, <<"y">> \o Ipp \o <<"lan">>, DnssdMeta \o <<"local">>}
Special == {<<"health", "splitdnsd", "local">>, <<"_dns", "resolver", "arpa">>, <<"resolver", "arpa">>}
Reversed == {ReverseName(ip) : ip \in {5, 6, 9}} \cup {<<"1", "in-addr", "arpa">>}
MCQueries ==
    [name : MCNames, type : {"A", "AAAA", "MX", "ANY"}]
      \cup [name : ServiceNodes \cup Special \cup Reversed, type : {"A", "PTR", "SVCB"}]
      \cup [name : {<<l>> \o Z : l \in {"h", "d", "o", "n"}}, type : {"CNAME"}]
=============================================================================
