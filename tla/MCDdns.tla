------------------------------- MODULE MCDdns -------------------------------
(* Ddns for TLC: a host with a name in each of two zones and a host with   *)
(* one name; two public IPv4 addresses, a private one, and an IPv6 address. *)
EXTENDS Ddns, TLC

CONSTANTS h1, h2, n1, n2, n3

MCHostOf == n1 :> h1 @@ n2 :> h1 @@ n3 :> h2

Rec(id, n, a) == [id |-> id, name |-> n, addr |-> a]

\* The first host has one address in both zones, one in each, or two in one zone;
\* the second host's name is not eligible in the runs.
MCFirstRecords ==
    {{Rec(1, n1, 1), Rec(2, n2, 1), Rec(3, n3, 1)},
     {Rec(1, n1, 1), Rec(2, n2, 2)},
     {Rec(1, n1, 1), Rec(2, n1, 2)},
     {Rec(1, n1, 1), Rec(2, n1, 7)}}
=============================================================================
