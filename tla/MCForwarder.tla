---------------------------- MODULE MCForwarder ----------------------------
(* Forwarder for TLC: two DoT upstreams, one of them without a server name *)
(* in some runs, their cleartext fallbacks, and a stub target that shares  *)
(* the address of a fallback.                                              *)
EXTENDS Forwarder, TLC

CONSTANTS p1, p2, f1

MCPrimary == <<p1, p2>>
MCFallback == <<f1>>
MCStub == <<f1>>

QuerySymmetry == Permutations(Queries)
=============================================================================
