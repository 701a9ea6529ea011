----------------------------- MODULE ZoneBuild ------------------------------
(***************************************************************************)
(* internal/mirror/mirror.go: a snapshot from the configuration and from   *)
(* the records of the Cloudflare account.  Operators only.                 *)
(*                                                                         *)
(* A record of the API has a full name, a type and data.  Conversions of   *)
(* rdata are left out; a record whose conversion fails has the type "BAD". *)
(***************************************************************************)
EXTENDS Integers, Sequences
LOCAL INSTANCE SequencesExt

CONSTANTS
    TunnelSuffix    \* the suffix of the targets of tunnel CNAMEs

\* toModelRR: the API's HTTPS, SVCB and SOA records are skipped, like malformed ones.
SupportedTypes == {"A", "AAAA", "CNAME", "MX", "NS"}
ToModelRR(r) == [type |-> r.type, data |-> r.data, trusted |-> FALSE]

isTunnelTarget(name) == IsSuffix(TunnelSuffix, name) /\ name # TunnelSuffix

relOwner(name, apex) == SubSeq(name, 1, Len(name) - Len(apex))

\* ownerFQDN: the wildcard is resolved by way of a name that nobody uses.
ownerFQDN(owner, apex) == (IF owner = <<"*">> THEN <<"__probe">> ELSE owner) \o apex

\* deriveENT: the ancestors of the owners of records that own none.
deriveENT(owners) ==
    UNION {{SubSeq(o, i, Len(o)) : i \in 2 .. Len(o)} : o \in owners} \ owners

\* BuildZone.  resolve gives the addresses of a name, none for a failed lookup.
BuildZone(apex, recs, resolve) ==
    LET kept == {r \in recs : r.type \in SupportedTypes}
        tunnels == {r \in kept : r.type = "CNAME" /\ isTunnelTarget(r.data)}
        rrs(owner) == {ToModelRR(r) : r \in {r \in kept \ tunnels : relOwner(r.name, apex) = owner}}
        owners == {relOwner(r.name, apex) : r \in kept \ tunnels} \ {<<"*">>}
        flat == {o \in {relOwner(r.name, apex) : r \in tunnels} : resolve[ownerFQDN(o, apex)] # {}}
    IN  [apex |-> apex,
         records |-> [o \in owners |-> rrs(o)],
         wildcards |-> rrs(<<"*">>),
         tunnel |-> [o \in flat |-> resolve[ownerFQDN(o, apex)]],
         ent |-> deriveENT(owners)]

\* BaseSnapshot: everything but the zones.
BaseSnapshot(cfg, reverse) ==
    [zones |-> <<>>, stubs |-> cfg.stubs, reverse |-> reverse,
     static |-> [n \in {<<"health", "splitdnsd", "local">>} |->
                   {[type |-> "A", data |-> <<"loopback">>, trusted |-> FALSE]}],
     excluded |-> cfg.excluded, ddnsEligible |-> cfg.eligible,
     localDomain |-> cfg.localDomain, serveDNSSD |-> cfg.serveDNSSD, proxy |-> cfg.proxy,
     allowSuffix |-> reverse \cup DOMAIN cfg.stubs \cup cfg.local,
     vhosts |-> {}, ddr |-> {}]

\* BuildSnapshot: a configured zone that the account does not have is not served.
BuildSnapshot(cfg, reverse, account, resolve) ==
    [BaseSnapshot(cfg, reverse) EXCEPT
        !.zones = [z \in cfg.local \cap DOMAIN account |-> BuildZone(z, account[z], resolve)]]
=============================================================================
