---------------------------- MODULE ReverseZones ----------------------------
(***************************************************************************)
(* internal/revzone and config.ResolveReverseZones: the reverse zones the  *)
(* server is authoritative for, from the zones the operator lists and the  *)
(* prefixes of the local interfaces.  Operators only.                      *)
(*                                                                         *)
(* An address has Digits digits of Width bits; a digit stands for an octet *)
(* of IPv4 or a nibble of IPv6.  An interface address is [ip, ones, class].*)
(***************************************************************************)
EXTENDS Integers, Sequences
LOCAL INSTANCE SequencesExt

CONSTANTS
    Width,      \* bits of a label of a reverse name: 8 or 4 in the code
    Digits,     \* labels of a full reverse name: 4 or 32 in the code
    Arpa,       \* the root of the reverse tree
    LabelOf     \* the label of each digit

ASSUME ReverseAssumption ==
    /\ Width \in Nat \ {0} /\ Digits \in Nat \ {0}
    /\ DOMAIN LabelOf = 0 .. (2^Width - 1)

Bits == Width * Digits
Addresses == 0 .. (2^Bits - 1)

\* Digit i of an address, the most significant first.
Digit(ip, i) == (ip \div 2^(Width * (Digits - i))) % 2^Width

Masked(p) == [p EXCEPT !.ip = (@ \div 2^(Bits - p.bits)) * 2^(Bits - p.bits)]

\* netip.Prefix.Contains.
InPrefix(ip, p) == Masked([p EXCEPT !.ip = ip]) = Masked(p)

\* ZoneFor: the leading digits reversed; a prefix that is not aligned has no zone.
Aligned(p) == p.bits % Width = 0
ZoneFor(p) == Reverse([i \in 1 .. (p.bits \div Width) |-> LabelOf[Digit(p.ip, i)]]) \o Arpa

\* Derive: the second component is what is refused.
Derive(prefixes) ==
    [zones |-> {ZoneFor(Masked(p)) : p \in {p \in prefixes : Aligned(p)}},
     unaligned |-> {Masked(p) : p \in {p \in prefixes : ~Aligned(p)}}]

\* classifyAndFilter: loopback and link-local addresses have no class here.
InScope(class, scope) ==
    CASE scope = "off" -> FALSE
      [] scope = "private" -> class = "private"
      [] scope = "global" -> class = "global"
      [] scope = "all" -> class \in {"private", "global"}

classifyAndFilter(addrs, scope) ==
    {Masked([ip |-> a.ip, bits |-> a.ones]) : a \in {a \in addrs : InScope(a.class, scope)}}

\* Contains: the child is the parent or below it.
Covers(parent, child) == IsSuffix(parent, child)

\* Mutant: an unaligned prefix is rounded to the enclosing boundary.
ResolveReverseZonesRounded(explicit, addrs, scope) ==
    LET detected == {ZoneFor(Masked([p EXCEPT !.bits = @ - (@ % Width)])) :
                        p \in classifyAndFilter(addrs, scope)}
    IN  explicit \cup {z \in detected : \A e \in explicit : ~Covers(e, z)}

\* Listed zones are taken as they are; a detected one is left out when a listed one
\* covers it.
ResolveReverseZones(explicit, addrs, scope) ==
    LET detected == Derive(classifyAndFilter(addrs, scope)).zones
    IN  explicit \cup {z \in detected : \A e \in explicit : ~Covers(e, z)}

\* The name of an address in the reverse tree.
ReverseName(ip) == ZoneFor([ip |-> ip, bits |-> Bits])
=============================================================================
