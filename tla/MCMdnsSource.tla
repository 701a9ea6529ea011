---------------------------- MODULE MCMdnsSource ----------------------------
(* MdnsSource for TLC.                                                     *)
EXTENDS MdnsSource

CONSTANTS h1, h2, h3

Ann(h, addrs, ttl) == [host |-> h, addrs |-> addrs, ttl |-> ttl]
Packet(anns, trust) == [anns |-> anns, trust |-> trust]

\* A host that announces itself, and the same from a trusted source; one packet with two
\* hosts; a goodbye that names a second address; allocations of strong trust and a withdrawal.
MCPackets ==
    {Packet(<<Ann(h1, {1}, 1)>>, "none"),
     Packet(<<Ann(h1, {1}, 1)>>, "weak"),
     Packet(<<Ann(h2, {1}, 1), Ann(h3, {1}, 1)>>, "none"),
     Packet(<<Ann(h1, {2}, 0)>>, "none"),
     Packet(<<Ann(h1, {1}, 1)>>, "strong"),
     Packet(<<Ann(h1, {2}, 0)>>, "strong"),
     Packet(<<Ann(h2, {2}, 1)>>, "strong")}
=============================================================================
