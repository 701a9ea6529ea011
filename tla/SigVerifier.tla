---------------------------- MODULE SigVerifier -----------------------------
(***************************************************************************)
(* internal/mdns/tsig.go and the signer of splitdns-notify: announcements  *)
(* are signed once, over the signer's clock, and their packets may reach   *)
(* the resolver late, never, out of order and more than once, in several   *)
(* read loops at the same time.                                            *)
(*                                                                         *)
(* A signature is stamped and verified in whole seconds, while the set of  *)
(* accepted MACs goes by the exact time: a moment is a second and a part   *)
(* of it.  Verify reads the clock twice, and the lock comes later still.   *)
(* A MAC is unique to its announcement.  All signers use the fudge of      *)
(* splitdns-notify, and the resolver prunes by that of the packet.         *)
(***************************************************************************)
EXTENDS Integers, FiniteSets

CONSTANTS
    Ids,            \* announcements
    Loops,          \* read loops of the resolver
    Parts,          \* moments in a second
    Fudge,          \* how far the clocks may be apart, in seconds
    RetainMin,      \* bounds on how long a MAC is remembered
    RetainMax,
    SeenCap         \* tsigSeenCap

\* splitdns-notify signs with 300 s, and a MAC is remembered for at most 600 s.
ASSUME SigAssumption ==
    /\ Parts \in Nat \ {0} /\ Fudge \in Nat
    /\ RetainMin \in Nat /\ RetainMax \in Nat /\ 2 * Fudge <= RetainMax

VARIABLES
    sec, part,      \* the resolver's clock
    signed,         \* announcements with a signature
    stamp,          \* the second in each signature, by the signer's clock
    seen, seenPart, \* when each MAC was accepted; the second is -1 if it is not in the set
    loop,           \* Verify in each loop: [pc, id, checked, now, nowPart]
    kept,           \* history: announcements whose last strong grading recorded the MAC
    lead            \* history: the signer's lead at the check of that grading

sigVars == <<sec, part, signed, stamp, seen, seenPart, loop, kept, lead>>

Resting == [pc |-> "idle", id |-> CHOOSE i \in Ids : TRUE, checked |-> 0, now |-> 0, nowPart |-> 0]

SInit ==
    /\ sec = 0 /\ part = 0 /\ signed = {}
    /\ stamp = [i \in Ids |-> 0] /\ lead = [i \in Ids |-> 0] /\ kept = {}
    /\ seen = [i \in Ids |-> -1] /\ seenPart = [i \in Ids |-> 0]
    /\ loop = [l \in Loops |-> Resting]

STick ==
    /\ IF part + 1 < Parts THEN part' = part + 1 /\ sec' = sec ELSE part' = 0 /\ sec' = sec + 1
    /\ UNCHANGED <<signed, stamp, seen, seenPart, loop, kept, lead>>

\* pack: the signature has the second of its call.
Sign(id, ahead) ==
    /\ id \notin signed
    /\ signed' = signed \cup {id}
    /\ stamp' = [stamp EXCEPT ![id] = sec + ahead]
    /\ UNCHANGED <<sec, part, seen, seenPart, loop, kept, lead>>

\* dns.TsigVerify: the seconds are at most the fudge apart.
InWindow(id) == sec - stamp[id] <= Fudge /\ stamp[id] - sec <= Fudge

\* Verify, of one copy of the packet: the signature is checked, ...
TsigVerify(l, id) ==
    /\ loop[l].pc = "idle" /\ id \in signed /\ InWindow(id)
    /\ loop' = [loop EXCEPT ![l] = [pc |-> "checked", id |-> id, checked |-> sec,
                                    now |-> 0, nowPart |-> 0]]
    /\ UNCHANGED <<sec, part, signed, stamp, seen, seenPart, kept, lead>>

\* ... freshMAC reads the clock ...
ReadNow(l) ==
    /\ loop[l].pc = "checked"
    /\ loop' = [loop EXCEPT ![l].pc = "timed", ![l].now = sec, ![l].nowPart = part]
    /\ UNCHANGED <<sec, part, signed, stamp, seen, seenPart, kept, lead>>

\* Mutant: a MAC is remembered for the fudge only.
RetainFudge == IF Fudge > RetainMax THEN RetainMax ELSE Fudge

\* Twice the fudge, between a floor and a ceiling.
Retain ==
    IF 2 * Fudge < RetainMin THEN RetainMin
    ELSE IF 2 * Fudge > RetainMax THEN RetainMax ELSE 2 * Fudge

\* now.Sub(ts) > retain, with the time that the loop read.
Expired(l, i) ==
    LET age == loop[l].now - seen[i] IN
    age > Retain \/ (age = Retain /\ loop[l].nowPart > seenPart[i])
Pruned(l) == [i \in Ids |-> IF Expired(l, i) THEN -1 ELSE seen[i]]
Room(table) == Cardinality({i \in Ids : table[i] # -1}) < SeenCap

Done(l) == loop' = [loop EXCEPT ![l] = Resting]

\* ... and looks for the MAC under the lock.  Above the cap a MAC is accepted and not
\* recorded.
FreshMAC(l) ==
    LET id == loop[l].id IN
    /\ loop[l].pc = "timed" /\ Pruned(l)[id] = -1
    /\ IF Room(Pruned(l))
       THEN /\ seen' = [Pruned(l) EXCEPT ![id] = loop[l].now]
            /\ seenPart' = [seenPart EXCEPT ![id] = loop[l].nowPart]
            /\ kept' = kept \cup {id}
            /\ lead' = [lead EXCEPT ![id] = stamp[id] - loop[l].checked]
       ELSE /\ seen' = Pruned(l)
            /\ kept' = kept \ {id}
            /\ UNCHANGED <<seenPart, lead>>
    /\ Done(l)
    /\ UNCHANGED <<sec, part, signed, stamp>>
Replayed(l) ==
    /\ loop[l].pc = "timed" /\ Pruned(l)[loop[l].id] # -1
    /\ seen' = Pruned(l)
    /\ Done(l)
    /\ UNCHANGED <<sec, part, signed, stamp, seenPart, kept, lead>>

SNext ==
    \/ STick
    \/ \E id \in Ids, ahead \in Int : Sign(id, ahead)
    \/ \E l \in Loops : ReadNow(l) \/ FreshMAC(l) \/ Replayed(l) \/ \E id \in Ids : TsigVerify(l, id)
SSpec == SInit /\ [][SNext]_sigVars

\* A signature that earned strong trust and was recorded does not earn it again, however
\* often, late and in whichever loops its packet arrives, unless the signer's clock led
\* the resolver's by the fudge, less the seconds that passed within Verify: up to that
\* edge freshMAC forgets a MAC only when the second in the signature has left the window.
SignedOnce ==
    [][\A l \in Loops :
          FreshMAC(l) /\ loop[l].id \in kept =>
             lead[loop[l].id] + (sec - loop[l].checked) >= Fudge]_sigVars
=============================================================================
