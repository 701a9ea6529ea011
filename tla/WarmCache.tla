------------------------------ MODULE WarmCache ------------------------------
(***************************************************************************)
(* internal/mirror/serial.go and internal/mirror/cache.go: when an         *)
(* observed SOA serial calls for a fetch, and the warm cache on disk, one  *)
(* file per zone and an index, each replaced atomically by a rename.       *)
(* Operators only; Mirror runs them under polls, faults and crashes.       *)
(*                                                                         *)
(* A zone's records are reduced to a version number; version 0 is a zone   *)
(* without records.  JSON, file modes and the age of synthetic tunnel data *)
(* are left out.                                                           *)
(***************************************************************************)
EXTENDS Integers

CONSTANTS
    Zones,      \* cfg.Zones.Local
    Modulus     \* 2^32 in the code: the width of a serial

ASSUME WarmAssumption == Modulus \in Nat /\ Modulus % 2 = 0 /\ Modulus > 2

\* Mutant: a plain integer comparison.
SerialLtPlain(a, b) == a < b

\* RFC 1982 order.
SerialLt(a, b) == a # b /\ (b - a) % Modulus < Modulus \div 2

\* SerialState: the zero value is that of a zone missing from the map.
ZeroState == [last |-> 0, fetched |-> FALSE]

ShouldFetch(s, observed) == ~s.fetched \/ SerialLt(s.last, observed)

\* model.Zone is [ver, serial, stale, flat]: ver stands for the records, serial is
\* LastFetchedSerial (0 when the zone's serial was not observed by the cycle that
\* fetched it), flat says that TunnelAddr has the addresses of all tunnels.
NoZone == [ver |-> -1]

NoZones == [z \in Zones |-> NoZone]
Present(zones) == {z \in Zones : zones[z] # NoZone}

----------------------------------------------------------------------------
(* The files.  A file that does not parse is Corrupt.                      *)

Corrupt == [ver |-> -2]
NotIndexed == [serial |-> -1]

\* A missing index reads like one that names no zone.
EmptyDisk == [file |-> NoZones, index |-> [z \in Zones |-> NotIndexed]]

\* zoneHasRecords: a version of at least one record has one that is no tunnel.
HasRecords(zone) == zone.ver # 0

\* One iteration of Save's loop, and its last write.
WriteZone(d, z, zone) == [d EXCEPT !.file[z] = zone]
WriteIndex(d, zones) ==
    [d EXCEPT !.index =
        [z \in Zones |-> IF zones[z] = NoZone THEN NotIndexed
                         ELSE [serial |-> zones[z].serial,
                               hasRecords |-> HasRecords(zones[z])]]]

Readable(d, z) == d.file[z] \notin {NoZone, Corrupt}

\* Load: the zones that parse, marked stale, and a serial state for every zone of
\* the index; one that does not parse is to be fetched again.
LoadZones(d) ==
    [z \in Zones |-> IF d.index[z] # NotIndexed /\ Readable(d, z)
                     THEN [d.file[z] EXCEPT !.stale = TRUE] ELSE NoZone]

\* Mutant: the state of an unreadable zone keeps its fetched mark.
LoadStatesTrusting(d) ==
    [z \in Zones |-> IF d.index[z] = NotIndexed THEN ZeroState
                     ELSE [last |-> d.index[z].serial, fetched |-> d.index[z].hasRecords]]

LoadStates(d) ==
    [z \in Zones |-> IF d.index[z] = NotIndexed THEN ZeroState
                     ELSE [last |-> d.index[z].serial,
                           fetched |-> d.index[z].hasRecords /\ Readable(d, z)]]
=============================================================================
