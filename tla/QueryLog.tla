------------------------------ MODULE QueryLog ------------------------------
(***************************************************************************)
(* internal/qlog: the telemetry of queries, a ring of entries, counters    *)
(* and a table of clients with decaying scores.  Every method runs under   *)
(* the log's mutex, so a call is one step.                                 *)
(*                                                                         *)
(* An entry has the fields client, xport, name, dec and rcode, and         *)
(* NoClient stands for an address that is not valid.  A client's score     *)
(* decays with time, and when it falls under the floor the client is       *)
(* forgotten: whose has is a choice here.  What is only shown, scores,     *)
(* times, a client's names and transports and the order of the top lists,  *)
(* is left out.                                                            *)
(***************************************************************************)
EXTENDS Integers, FiniteSets

CONSTANTS
    Size,           \* entries of the ring
    MaxClients,     \* clients in the table
    Decisions, Transports, Entries, NoClient, NoEntry

ASSUME QueryLogAssumption == Size \in Nat \ {0}

VARIABLES
    ring,       \* slots 0 .. Size - 1
    next,       \* the slot of the next entry
    count,      \* slots in use
    total,      \* entries ever recorded
    byDec, byXport,
    clients     \* the clients in the table

logVars == <<ring, next, count, total, byDec, byXport, clients>>

QInit ==
    /\ ring = [i \in 0 .. Size - 1 |-> NoEntry]
    /\ next = 0 /\ count = 0 /\ total = 0
    /\ byDec = [d \in Decisions |-> 0]
    /\ byXport = [t \in Transports |-> 0]
    /\ clients = {}

\* A client that the full table does not know is not tracked.
Tracked(table, client) ==
    IF client = NoClient \/ Cardinality(table) >= MaxClients THEN table ELSE table \cup {client}

\* l.next = (l.next + 1) % len(l.ring)
Advance(slot) == IF slot + 1 = Size THEN 0 ELSE slot + 1

Record(e) ==
    /\ total' = total + 1
    /\ ring' = [ring EXCEPT ![next] = [seq |-> total + 1, entry |-> e]]
    /\ next' = Advance(next)
    /\ count' = IF count < Size THEN count + 1 ELSE count
    /\ byDec' = [byDec EXCEPT ![e.dec] = @ + 1]
    /\ byXport' = [byXport EXCEPT ![e.xport] = @ + 1]
    /\ clients' = Tracked(clients, e.client)

\* Mutant: the slots in their order, as if the ring never wrapped.
SlotUnwrapped(i) == count - i

\* Recent(0): the newest entry first; the index wraps below zero.
Slot(i) == IF next - i < 0 THEN next - i + Size ELSE next - i
Recent == [i \in 1 .. count |-> ring[Slot(i)]]

\* TopClients: the clients that have gone cold lose their place.
TopClients(cold) ==
    /\ clients' = clients \ cold
    /\ UNCHANGED <<ring, next, count, total, byDec, byXport>>

\* decayTo: time alone decides who has gone cold.
Cold == SUBSET clients

QNext == (\E e \in Entries : Record(e)) \/ (\E cold \in Cold : TopClients(cold))
QSpec == QInit /\ [][QNext]_logVars

----------------------------------------------------------------------------
Promise == INSTANCE RecentLog WITH recent <- Recent

\* The ring implements the log of the last Size queries: Recent never shows a slot that
\* was not filled, never one that was overwritten, and numbers them without a gap, also
\* when the ring has wrapped.
LogKeepsRecent == Promise!Spec
=============================================================================
