--------------------------- MODULE FrontEndProofs ---------------------------
(***************************************************************************)
(* The ring of the query log implements RecentLog for every size, and the  *)
(* log tells what clients were told, for any number of requests, slots and *)
(* entries.                                                                *)
(***************************************************************************)
EXTENDS FrontEnd, FiniteSetTheorems, TLAPS

\* The ring is filled from slot 0: next is the count until the ring is full, and the
\* count is the number of entries there are to keep.
RingInv ==
    /\ total \in Nat /\ next \in 0 .. Size - 1 /\ count \in 0 .. Size
    /\ DOMAIN ring = 0 .. Size - 1
    /\ ring = [i \in 0 .. Size - 1 |-> ring[i]]
    /\ count < Size => next = count
    /\ count = IF total < Size THEN total ELSE Size

\* RingInv holds at the start, when New makes an empty ring.
LEMMA RingInit == QInit => RingInv
BY QueryLogAssumption DEF QInit, RingInv

\* Record keeps RingInv, whatever it records.
LEMMA RecordKeepsRing ==
    ASSUME RingInv, NEW e, Record(e)
    PROVE  RingInv'
<1>1. /\ total' = total + 1 /\ next' = Advance(next)
      /\ count' = IF count < Size THEN count + 1 ELSE count
      /\ ring' = [ring EXCEPT ![next] = [seq |-> total + 1, entry |-> e]]
  BY DEF Record
<1>2. /\ DOMAIN ring' = 0 .. Size - 1
      /\ ring' = [i \in 0 .. Size - 1 |-> ring'[i]]
  BY <1>1 DEF RingInv
<1>3. /\ total' \in Nat /\ next' \in 0 .. Size - 1 /\ count' \in 0 .. Size
      /\ count' < Size => next' = count'
      /\ count' = IF total' < Size THEN total' ELSE Size
  BY <1>1, QueryLogAssumption DEF RingInv, Advance
<1> QED
  BY <1>2, <1>3 DEF RingInv

\* No other method touches the ring.
LEMMA RingStep == RingInv /\ [QNext]_logVars => RingInv'
<1> SUFFICES ASSUME RingInv, [QNext]_logVars PROVE RingInv'
  OBVIOUS
<1>1. CASE \E e \in Entries : Record(e)
  BY <1>1, RecordKeepsRing
<1>2. CASE \E cold \in Cold : TopClients(cold)
  BY <1>2 DEF RingInv, TopClients
<1>3. CASE UNCHANGED logVars
  BY <1>3 DEF RingInv, logVars
<1> QED
  BY <1>1, <1>2, <1>3 DEF QNext

\* What Recent shows after Record is the new entry before what it showed, cut to Size:
\* slot Size - 1 follows slot 0 backwards, and only the oldest entry is overwritten.
LEMMA RecordIsLog ==
    ASSUME RingInv, NEW e \in Entries, Record(e)
    PROVE  Promise!Log(e)
<1> DEFINE new == [seq |-> total + 1, entry |-> e]
           after == Promise!Kept(total + 1)
<1>1. count' = after
  BY QueryLogAssumption DEF RingInv, Record, Promise!Kept
<1>2. total' = total + 1
  BY DEF Record
<1>3. \A i \in 1 .. count' : ring'[Slot(i)'] = IF i = 1 THEN new ELSE Recent[i - 1]
  <2> SUFFICES ASSUME NEW i \in 1 .. count'
               PROVE  ring'[Slot(i)'] = IF i = 1 THEN new ELSE Recent[i - 1]
    OBVIOUS
  <2>1. ring' = [ring EXCEPT ![next] = new] /\ next' = Advance(next)
    BY DEF Record
  <2>2. count' \in 1 .. Size /\ count' <= count + 1
    BY QueryLogAssumption DEF RingInv, Record
  <2>3. CASE i = 1
    <3>1. Slot(1)' = next
      BY <2>1, QueryLogAssumption DEF RingInv, Slot, Advance
    <3> HIDE DEF new
    <3> QED
      BY <2>1, <2>3, <3>1 DEF RingInv
  <2>4. CASE i # 1
    <3>1. i - 1 \in 1 .. count /\ i <= Size
      BY <2>2, <2>4, QueryLogAssumption DEF RingInv
    <3>2. Slot(i)' = Slot(i - 1)
      BY <2>1, <3>1, QueryLogAssumption DEF RingInv, Slot, Advance
    <3>3. Slot(i - 1) # next /\ Slot(i - 1) \in 0 .. Size - 1
      BY <3>1, QueryLogAssumption DEF RingInv, Slot
    <3>4. Recent[i - 1] = ring[Slot(i - 1)]
      BY <3>1 DEF Recent
    <3> HIDE DEF new
    <3> QED
      BY <2>1, <2>4, <3>2, <3>3, <3>4 DEF RingInv
  <2> QED
    BY <2>3, <2>4
<1>4. Recent' = [i \in 1 .. after |-> IF i = 1 THEN new ELSE Recent[i - 1]]
  <2>1. Recent' = [i \in 1 .. count' |-> ring'[Slot(i)']]
    BY DEF Recent
  <2> HIDE DEF new, after
  <2> QED
    BY <1>1, <1>3, <2>1
<1> QED
  BY <1>2, <1>4 DEF Promise!Log

\* The query log of internal/qlog implements RecentLog, for every size of the ring and
\* every sequence of Record and TopClients.
THEOREM LogKeepsRecentHolds == QSpec => LogKeepsRecent
<1>1. QInit => Promise!Init
  BY QueryLogAssumption DEF QInit, Promise!Init, Recent
<1>2. RingInv /\ [QNext]_logVars => [\E e \in Entries : Promise!Log(e)]_<<Recent, total>>
  <2> SUFFICES ASSUME RingInv, [QNext]_logVars
               PROVE  [\E e \in Entries : Promise!Log(e)]_<<Recent, total>>
    OBVIOUS
  <2>1. CASE \E e \in Entries : Record(e)
    BY <2>1, RecordIsLog
  <2>2. CASE \E cold \in Cold : TopClients(cold)
    BY <2>2 DEF TopClients, Recent, Slot
  <2>3. CASE UNCHANGED logVars
    BY <2>3 DEF logVars, Recent, Slot
  <2> QED
    BY <2>1, <2>2, <2>3 DEF QNext
<1> QED
  BY <1>1, <1>2, RingInit, RingStep, PTL DEF QSpec, LogKeepsRecent, Promise!Spec

----------------------------------------------------------------------------
(* The ledger.                                                             *)

Logged == {r \in Requests : pc[r] = "done" /\ req[r].questions = 1}
Decided(d) == {r \in Logged : res[r].dec = d}
Via(t) == {r \in Logged : req[r].xport = t}
Holding == {r \in Requests : pc[r] \in {"slot", "held"}}
Waiting == {r \in Requests : pc[r] = "wait"}

Shapes ==
    /\ pc = [r \in Requests |-> pc[r]] /\ res = [r \in Requests |-> res[r]]
    /\ sent = [r \in Requests |-> sent[r]]
    /\ byDec = [d \in Decisions |-> byDec[d]] /\ byXport = [t \in Transports |-> byXport[t]]

\* What was sent is what will be recorded, unless a datagram was dropped.
Told(r) ==
    \/ sent[r] = res[r].rcode
    \/ sent[r] = "none" /\ res[r].dec = "dropped" /\ req[r].xport = "udp"

\* The entry e is that of r, and tells what r was told.
Entered(r, e) ==
    /\ e.name = req[r].name /\ e.client = req[r].client /\ e.xport = req[r].xport
    /\ sent[r] = e.rcode \/ (sent[r] = "none" /\ e.dec = "dropped" /\ e.xport = "udp")

\* The counters count the requests that were logged; every slot of the ring in use has the
\* entry of one, and what has been answered awaits its record unchanged.
LogInv ==
    /\ Shapes /\ RingInv
    /\ IsFiniteSet(Logged) /\ total = Cardinality(Logged)
    /\ \A d \in Decisions : byDec[d] = Cardinality(Decided(d))
    /\ \A t \in Transports : byXport[t] = Cardinality(Via(t))
    /\ \A j \in 0 .. Size - 1 : j < count => \E r \in Logged : Entered(r, ring[j].entry)
    /\ clients \subseteq {req[r].client : r \in Logged} \ {NoClient}
    /\ \A r \in Requests : pc[r] \in {"held", "free"} => Told(r)

SlotInv ==
    /\ IsFiniteSet(Holding) /\ sem = Cardinality(Holding)
    /\ IsFiniteSet(Waiting) /\ odSem = Cardinality(Waiting)

\* The log and the limiters start empty.
LEMMA LedgerInit == Init => LogInv /\ SlotInv
<1> SUFFICES ASSUME Init PROVE LogInv /\ SlotInv
  OBVIOUS
<1>1. \A r \in Requests : pc[r] = "new"
  BY DEF Init
<1>2. Logged = {} /\ Holding = {} /\ Waiting = {}
  BY <1>1 DEF Logged, Holding, Waiting
<1>3. /\ \A d : Decided(d) = {}
      /\ \A t : Via(t) = {}
  BY <1>2 DEF Decided, Via
<1>4. Shapes
  BY Zenon DEF Init, QInit, Shapes
<1>5. /\ total = 0 /\ count = 0 /\ clients = {} /\ sem = 0 /\ odSem = 0
      /\ \A d \in Decisions : byDec[d] = 0
      /\ \A t \in Transports : byXport[t] = 0
  BY DEF Init, QInit
<1>6. RingInv
  BY RingInit DEF Init
<1>7. Cardinality({}) = 0 /\ IsFiniteSet({})
  BY FS_EmptySet
<1>8. LogInv
  BY <1>1, <1>2, <1>3, <1>4, <1>5, <1>6, <1>7 DEF LogInv
<1> QED
  BY <1>2, <1>5, <1>7, <1>8 DEF SlotInv

\* A request that is on its way moves, and the log stays as it is.
LEMMA MoveKeepsLog ==
    ASSUME LogInv, NEW r \in Requests, NEW p, pc' = [pc EXCEPT ![r] = p], pc[r] # "done",
           p # "done" \/ req[r].questions # 1, UNCHANGED <<logVars, req>>,
           res' = [q \in Requests |-> res'[q]], sent' = [q \in Requests |-> sent'[q]],
           \A q \in Requests \ {r} : res'[q] = res[q] /\ sent'[q] = sent[q],
           p \in {"held", "free"} => Told(r)'
    PROVE  LogInv'
<1>1. /\ pc' = [q \in Requests |-> pc'[q]]
      /\ \A q \in Requests : pc'[q] = IF q = r THEN p ELSE pc[q]
  BY DEF LogInv, Shapes
<1>2. Logged' = Logged /\ r \notin Logged
  BY <1>1 DEF Logged
<1>3. /\ \A d : Decided(d)' = Decided(d)
      /\ \A t : Via(t)' = Via(t)
  BY <1>2 DEF Decided, Via, Logged
<1>4. \A q \in Logged : \A e : Entered(q, e) => Entered(q, e)'
  BY <1>2 DEF Entered, Logged
<1>5. \A q \in Requests : pc'[q] \in {"held", "free"} => Told(q)'
  <2> SUFFICES ASSUME NEW q \in Requests, pc'[q] \in {"held", "free"} PROVE Told(q)'
    OBVIOUS
  <2>1. CASE q = r
    BY <1>1, <2>1
  <2>2. CASE q # r
    BY <1>1, <2>2 DEF LogInv, Told
  <2> QED
    BY <2>1, <2>2
<1>6. UNCHANGED <<ring, next, count, total, byDec, byXport, clients>>
  BY DEF logVars
<1>7. Shapes' /\ RingInv'
  BY <1>1, <1>6 DEF LogInv, Shapes, RingInv
<1>8. \A j \in 0 .. Size - 1 : j < count => \E q \in Logged : Entered(q, ring[j].entry)'
  BY <1>4, <1>6 DEF LogInv
<1>9. (\A j \in 0 .. Size - 1 : j < count => \E q \in Logged : Entered(q, ring[j].entry))'
  BY <1>2, <1>6, <1>8
<1> QED
  BY <1>2, <1>3, <1>5, <1>6, <1>7, <1>9 DEF LogInv

\* A request that ends with one question is counted once, under its decision and its
\* transport, and its entry takes a slot of the ring.
LEMMA RecordKeepsLog ==
    ASSUME LogInv, NEW r \in Requests, pc' = [pc EXCEPT ![r] = "done"], pc[r] \in {"held", "free"},
           req[r].questions = 1, UNCHANGED <<req, res, sent>>,
           Record([client |-> req[r].client, xport |-> req[r].xport, name |-> req[r].name,
                   dec |-> res[r].dec, rcode |-> res[r].rcode])
    PROVE  LogInv'
<1> DEFINE e == [client |-> req[r].client, xport |-> req[r].xport, name |-> req[r].name,
                 dec |-> res[r].dec, rcode |-> res[r].rcode]
<1>1. /\ pc' = [q \in Requests |-> pc'[q]]
      /\ \A q \in Requests : pc'[q] = IF q = r THEN "done" ELSE pc[q]
  BY DEF LogInv, Shapes
<1>2. Logged' = Logged \cup {r} /\ r \notin Logged
  BY <1>1 DEF Logged
<1>3. IsFiniteSet(Logged') /\ Cardinality(Logged') = Cardinality(Logged) + 1
  BY <1>2, FS_AddElement DEF LogInv
<1>4. /\ e.client = req[r].client /\ e.xport = req[r].xport /\ e.name = req[r].name
      /\ e.dec = res[r].dec /\ e.rcode = res[r].rcode
  OBVIOUS
<1>5. Record(e)
  OBVIOUS
<1> HIDE DEF e
<1>6. RingInv'
  BY <1>5, RecordKeepsRing DEF LogInv
<1>7. /\ total' = total + 1
      /\ byDec' = [byDec EXCEPT ![res[r].dec] = @ + 1]
      /\ byXport' = [byXport EXCEPT ![req[r].xport] = @ + 1]
      /\ clients' = Tracked(clients, req[r].client)
      /\ ring' = [ring EXCEPT ![next] = [seq |-> total + 1, entry |-> e]]
      /\ count' = IF count < Size THEN count + 1 ELSE count
  BY <1>4, <1>5 DEF Record
<1>8. Shapes'
  BY <1>1, <1>7 DEF LogInv, Shapes
<1>9. ASSUME NEW d \in Decisions PROVE byDec'[d] = Cardinality(Decided(d)')
  <2>0. Decided(d) \subseteq Logged /\ r \notin Decided(d)
    BY <1>2 DEF Decided
  <2>1. IsFiniteSet(Decided(d)) /\ byDec[d] = Cardinality(Decided(d)) /\ r \notin Decided(d)
    <3>1. IsFiniteSet(Logged) /\ byDec[d] = Cardinality(Decided(d))
      BY DEF LogInv
    <3> QED
      BY <2>0, <3>1, FS_Subset
  <2>2. Decided(d)' = IF res[r].dec = d THEN Decided(d) \cup {r} ELSE Decided(d)
    BY <1>2 DEF Decided
  <2>3. byDec'[d] = IF res[r].dec = d THEN byDec[d] + 1 ELSE byDec[d]
    BY <1>7 DEF LogInv, Shapes
  <2>4. Cardinality(Decided(d) \cup {r}) = Cardinality(Decided(d)) + 1
    BY <2>1, FS_AddElement
  <2> QED
    BY <2>1, <2>2, <2>3, <2>4
<1>10. ASSUME NEW t \in Transports PROVE byXport'[t] = Cardinality(Via(t)')
  <2>0. Via(t) \subseteq Logged /\ r \notin Via(t)
    BY <1>2 DEF Via
  <2>1. IsFiniteSet(Via(t)) /\ byXport[t] = Cardinality(Via(t)) /\ r \notin Via(t)
    <3>1. IsFiniteSet(Logged) /\ byXport[t] = Cardinality(Via(t))
      BY DEF LogInv
    <3> QED
      BY <2>0, <3>1, FS_Subset
  <2>2. Via(t)' = IF req[r].xport = t THEN Via(t) \cup {r} ELSE Via(t)
    BY <1>2 DEF Via
  <2>3. byXport'[t] = IF req[r].xport = t THEN byXport[t] + 1 ELSE byXport[t]
    BY <1>7 DEF LogInv, Shapes
  <2>4. Cardinality(Via(t) \cup {r}) = Cardinality(Via(t)) + 1
    BY <2>1, FS_AddElement
  <2> QED
    BY <2>1, <2>2, <2>3, <2>4
<1>11. Entered(r, e)'
  <2>1. Told(r)
    BY DEF LogInv
  <2>2. /\ sent'[r] = sent[r] /\ req'[r] = req[r] /\ e' = e
    BY DEF e
  <2>3. \/ sent[r] = e.rcode
        \/ sent[r] = "none" /\ e.dec = "dropped" /\ e.xport = "udp"
    BY <1>4, <2>1 DEF Told
  <2> QED
    BY <1>4, <2>2, <2>3 DEF Entered
<1>12. \A q, f : Entered(q, f) => /\ f.name = req'[q].name /\ f.client = req'[q].client
                                /\ f.xport = req'[q].xport
                                /\ \/ sent'[q] = f.rcode
                                   \/ sent'[q] = "none" /\ f.dec = "dropped" /\ f.xport = "udp"
  BY DEF Entered
<1>13. ASSUME NEW j \in 0 .. Size - 1, j < count' PROVE (\E q \in Logged : Entered(q, ring[j].entry))'
  <2>1. CASE j = next
    <3>1. ring'[j] = [seq |-> total + 1, entry |-> e]
      BY <1>7, <2>1 DEF LogInv, RingInv
    <3>2. ring'[j].entry = e
      BY <3>1
    <3>3. e' = e
      BY DEF e
    <3> QED
      BY <1>2, <1>11, <3>2, <3>3 DEF Entered
  <2>2. CASE j # next
    <3>1. ring'[j] = ring[j] /\ j < count
      BY <1>7, <1>13, <2>2, QueryLogAssumption DEF LogInv, RingInv
    <3>2. PICK q \in Logged : Entered(q, ring[j].entry)
      BY <3>1 DEF LogInv
    <3> QED
      BY <1>2, <1>12, <3>1, <3>2 DEF Entered
  <2> QED
    BY <2>1, <2>2
<1>14. clients' \subseteq {req'[q].client : q \in Logged'} \ {NoClient}
  BY <1>2, <1>7 DEF Tracked, LogInv
<1>15. \A q \in Requests : pc'[q] \in {"held", "free"} => Told(q)'
  BY <1>1 DEF LogInv, Told
<1>16. total' = Cardinality(Logged')
  BY <1>3, <1>7 DEF LogInv
<1> QED
  BY <1>3, <1>6, <1>8, <1>9, <1>10, <1>13, <1>14, <1>15, <1>16 DEF LogInv

\* TopClients drops clients only.
LEMMA BrowseKeepsLog ==
    ASSUME LogInv, Browse
    PROVE  LogInv'
<1>1. /\ UNCHANGED <<pc, req, res, sent, ring, next, count, total, byDec, byXport>>
      /\ clients' \subseteq clients
  BY DEF Browse, TopClients, reqVars
<1>2. /\ Logged' = Logged
      /\ \A d : Decided(d)' = Decided(d)
      /\ \A t : Via(t)' = Via(t)
  BY <1>1 DEF Logged, Decided, Via
<1> QED
  BY <1>1, <1>2 DEF LogInv, Shapes, RingInv, Entered, Told

\* A request moves, and each limiter follows it in or out of its section.
LEMMA SlotMove ==
    ASSUME Shapes, SlotInv, NEW r \in Requests, NEW p, pc' = [pc EXCEPT ![r] = p],
           LET in == pc[r] \in {"slot", "held"} IN
           LET out == p \in {"slot", "held"} IN
           \/ (in <=> out) /\ sem' = sem
           \/ ~in /\ out /\ sem' = sem + 1
           \/ in /\ ~out /\ sem' = sem - 1,
           \/ (pc[r] = "wait" <=> p = "wait") /\ odSem' = odSem
           \/ pc[r] # "wait" /\ p = "wait" /\ odSem' = odSem + 1
           \/ pc[r] = "wait" /\ p # "wait" /\ odSem' = odSem - 1
    PROVE  SlotInv'
<1>1. \A q \in Requests : pc'[q] = IF q = r THEN p ELSE pc[q]
  BY DEF Shapes
<1>2. Holding' = IF p \in {"slot", "held"} THEN Holding \cup {r} ELSE Holding \ {r}
  BY <1>1 DEF Holding
<1>3. Waiting' = IF p = "wait" THEN Waiting \cup {r} ELSE Waiting \ {r}
  BY <1>1 DEF Waiting
<1>4. /\ r \in Holding <=> pc[r] \in {"slot", "held"}
      /\ r \in Waiting <=> pc[r] = "wait"
  BY DEF Holding, Waiting
<1>5. Cardinality(Holding) \in Nat /\ Cardinality(Waiting) \in Nat
  BY FS_CardinalityType DEF SlotInv
<1>6. IsFiniteSet(Holding') /\ sem' = Cardinality(Holding')
  BY <1>2, <1>4, <1>5, FS_AddElement, FS_RemoveElement DEF SlotInv
<1>7. IsFiniteSet(Waiting') /\ odSem' = Cardinality(Waiting')
  BY <1>3, <1>4, <1>5, FS_AddElement, FS_RemoveElement DEF SlotInv
<1> QED
  BY <1>6, <1>7 DEF SlotInv

LedgerInv == LogInv /\ SlotInv

\* Every reply leaves a request with what it was told, in the slot it had.
LEMMA ReplyKeeps ==
    ASSUME LedgerInv, NEW r \in Requests, NEW result, NEW rcode, Reply(r, result, rcode),
           pc[r] \in {"new", "slot", "again"}, UNCHANGED <<sem, odSem>>,
           \/ rcode = result.rcode
           \/ rcode = "none" /\ result.dec = "dropped" /\ req[r].xport = "udp"
    PROVE  LedgerInv'
<1> DEFINE p == IF pc[r] = "slot" THEN "held" ELSE "free"
<1>1. /\ pc' = [pc EXCEPT ![r] = p]
      /\ res' = [res EXCEPT ![r] = result] /\ sent' = [sent EXCEPT ![r] = rcode]
      /\ UNCHANGED <<logVars, req>>
  BY DEF Reply
<1>2. /\ res' = [q \in Requests |-> res'[q]] /\ sent' = [q \in Requests |-> sent'[q]]
      /\ \A q \in Requests \ {r} : res'[q] = res[q] /\ sent'[q] = sent[q]
      /\ res'[r] = result /\ sent'[r] = rcode
  BY <1>1 DEF LedgerInv, LogInv, Shapes
<1>3. Told(r)'
  BY <1>1, <1>2 DEF Told
<1>4. LogInv'
  <2>1. LogInv /\ pc[r] # "done" /\ p # "done"
    BY DEF LedgerInv
  <2> HIDE DEF p
  <2> QED
    BY <1>1, <1>2, <1>3, <2>1, MoveKeepsLog
<1>5. SlotInv'
  BY <1>1, SlotMove DEF LedgerInv, LogInv
<1> QED
  BY <1>4, <1>5 DEF LedgerInv

\* A request goes from one queue to another before it is answered, or gives its slot back after.
LEMMA QueueKeeps ==
    ASSUME LedgerInv, NEW r \in Requests, Admit(r) \/ Miss(r) \/ Wake(r) \/ Release(r)
    PROVE  LedgerInv'
<1>1. Shapes /\ LogInv /\ SlotInv
  BY DEF LedgerInv, LogInv
<1>2. UNCHANGED <<logVars, req, res, sent>>
  BY DEF Admit, Miss, Wake, Release
<1>3. /\ res' = [q \in Requests |-> res'[q]] /\ sent' = [q \in Requests |-> sent'[q]]
      /\ \A q \in Requests \ {r} : res'[q] = res[q] /\ sent'[q] = sent[q]
  BY <1>1, <1>2 DEF Shapes
<1>4. CASE Admit(r)
  <2>1. pc[r] = "new" /\ pc' = [pc EXCEPT ![r] = "slot"] /\ sem' = sem + 1 /\ odSem' = odSem
    BY <1>4 DEF Admit, Arrives
  <2>2. LogInv'
    BY <1>1, <1>2, <1>3, <2>1, MoveKeepsLog
  <2>3. SlotInv'
    BY <1>1, <2>1, SlotMove
  <2> QED
    BY <2>2, <2>3 DEF LedgerInv
<1>5. CASE Miss(r)
  <2>1. /\ pc[r] = "slot" /\ sem' = sem - 1
        /\ \/ pc' = [pc EXCEPT ![r] = "wait"] /\ odSem' = odSem + 1
           \/ pc' = [pc EXCEPT ![r] = "again"] /\ odSem' = odSem
    BY <1>5 DEF Miss
  <2>2. LogInv'
    BY <1>1, <1>2, <1>3, <2>1, MoveKeepsLog
  <2>3. SlotInv'
    BY <1>1, <2>1, SlotMove
  <2> QED
    BY <2>2, <2>3 DEF LedgerInv
<1>6. CASE Wake(r)
  <2>1. pc[r] = "wait" /\ pc' = [pc EXCEPT ![r] = "again"] /\ sem' = sem /\ odSem' = odSem - 1
    BY <1>6 DEF Wake
  <2>2. LogInv'
    BY <1>1, <1>2, <1>3, <2>1, MoveKeepsLog
  <2>3. SlotInv'
    BY <1>1, <2>1, SlotMove
  <2> QED
    BY <2>2, <2>3 DEF LedgerInv
<1>7. CASE Release(r)
  <2>1. pc[r] = "held" /\ pc' = [pc EXCEPT ![r] = "free"] /\ sem' = sem - 1 /\ odSem' = odSem
    BY <1>7 DEF Release
  <2>2. Told(r)'
    BY <1>1, <1>2, <2>1 DEF LogInv, Told
  <2>3. LogInv'
    BY <1>1, <1>2, <1>3, <2>1, <2>2, MoveKeepsLog
  <2>4. SlotInv'
    BY <1>1, <2>1, SlotMove
  <2> QED
    BY <2>3, <2>4 DEF LedgerInv
<1> QED
  BY <1>4, <1>5, <1>6, <1>7

\* dohHandler turns a request away before ServeDNS sees it.
LEMMA RejectKeeps ==
    ASSUME LedgerInv, NEW r \in Requests, NEW h, RejectHTTP(r, h)
    PROVE  LedgerInv'
<1>1. /\ pc[r] = "new" /\ pc' = [pc EXCEPT ![r] = "rejected"]
      /\ sent' = [sent EXCEPT ![r] = dohHandler(h)]
      /\ UNCHANGED <<logVars, req, res, sem, odSem>>
  BY DEF RejectHTTP, Arrives
<1>2. /\ res' = [q \in Requests |-> res'[q]] /\ sent' = [q \in Requests |-> sent'[q]]
      /\ \A q \in Requests \ {r} : res'[q] = res[q] /\ sent'[q] = sent[q]
  BY <1>1 DEF LedgerInv, LogInv, Shapes
<1>3. LogInv'
  BY <1>1, <1>2, MoveKeepsLog DEF LedgerInv
<1>4. SlotInv'
  BY <1>1, SlotMove DEF LedgerInv, LogInv
<1> QED
  BY <1>3, <1>4 DEF LedgerInv

\* The last deferred call of ServeDNS records the query.
LEMMA ReturnKeeps ==
    ASSUME LedgerInv, NEW r \in Requests, Return(r)
    PROVE  LedgerInv'
<1>1. /\ pc[r] = "free" /\ pc' = [pc EXCEPT ![r] = "done"]
      /\ UNCHANGED <<req, res, sent, sem, odSem>>
  BY DEF Return
<1>2. LogInv /\ SlotInv /\ Shapes
  BY DEF LedgerInv, LogInv
<1>3. CASE req[r].questions # 1
  <2>1. UNCHANGED logVars
    BY <1>3 DEF Return
  <2>2. /\ res' = [q \in Requests |-> res'[q]] /\ sent' = [q \in Requests |-> sent'[q]]
        /\ \A q \in Requests \ {r} : res'[q] = res[q] /\ sent'[q] = sent[q]
    BY <1>1, <1>2 DEF Shapes
  <2> QED
    BY <1>1, <1>2, <1>3, <2>1, <2>2, MoveKeepsLog, SlotMove DEF LedgerInv
<1>4. CASE req[r].questions = 1
  <2>1. LogInv'
    BY <1>1, <1>2, <1>4, RecordKeepsLog DEF Return
  <2>2. SlotInv'
    BY <1>1, <1>2, SlotMove
  <2> QED
    BY <2>1, <2>2 DEF LedgerInv
<1> QED
  BY <1>3, <1>4

\* Every step of the front end keeps the ledger, whatever the certificates do.
LEMMA LedgerStep == LedgerInv /\ [Next]_vars => LedgerInv'
<1> SUFFICES ASSUME LedgerInv, [Next]_vars PROVE LedgerInv'
  OBVIOUS
<1>1. ASSUME NEW r \in Requests, Handle(r) PROVE LedgerInv'
  <2>1. CASE Refuse(r)
    <3>1. /\ pc[r] = "new" /\ Reply(r, Result("refused", "REFUSED"), "REFUSED")
          /\ UNCHANGED <<sem, odSem>>
      BY <2>1 DEF Refuse, Arrives
    <3> QED
      BY <3>1, ReplyKeeps DEF Result
  <2>2. CASE Shed(r)
    <3> DEFINE rcode == IF req[r].xport = "udp" THEN "none" ELSE "SERVFAIL"
    <3>1. /\ pc[r] = "new" /\ Reply(r, Result("dropped", "SERVFAIL"), rcode)
          /\ UNCHANGED <<sem, odSem>>
      BY <2>2 DEF Shed, Arrives
    <3>2. \/ rcode = Result("dropped", "SERVFAIL").rcode
          \/ /\ rcode = "none" /\ req[r].xport = "udp"
             /\ Result("dropped", "SERVFAIL").dec = "dropped"
      BY DEF Result
    <3> HIDE DEF rcode
    <3> QED
      BY <3>1, <3>2, ReplyKeeps
  <2>3. CASE Admit(r) \/ Miss(r) \/ Wake(r) \/ Release(r)
    BY <2>3, QueueKeeps
  <2>4. CASE \E rcode \in {"NOERROR", "FORMERR"} : Local(r, rcode)
    <3>1. PICK rcode : Local(r, rcode)
      BY <2>4
    <3>2. /\ pc[r] \in {"slot", "again"} /\ Reply(r, Result("local", rcode), rcode)
          /\ UNCHANGED <<sem, odSem>>
      BY <3>1 DEF Local
    <3> QED
      BY <3>2, ReplyKeeps DEF Result
  <2>5. CASE \E answer \in {"NOERROR", "SERVFAIL"} : Stub(r, answer)
    <3>1. PICK answer : Stub(r, answer)
      BY <2>5
    <3>2. pc[r] = "slot" /\ Reply(r, Result("stub", answer), answer) /\ UNCHANGED <<sem, odSem>>
      BY <3>1 DEF Stub
    <3> QED
      BY <3>2, ReplyKeeps DEF Result
  <2>6. CASE \E hit \in {"none", "fresh", "fail", "stale"}, live \in {"NOERROR", "error"} :
               Forward(r, hit, live)
    <3>1. PICK hit, live : Forward(r, hit, live)
      BY <2>6
    <3> DEFINE f == Forwarded(hit, live)
    <3>2. pc[r] = "slot" /\ Reply(r, f.res, f.sent) /\ UNCHANGED <<sem, odSem>>
      BY <3>1 DEF Forward
    <3>3. f.sent = f.res.rcode
      BY DEF Forwarded, Result
    <3> HIDE DEF f
    <3> QED
      BY <3>2, <3>3, ReplyKeeps
  <2>7. CASE \E h \in HTTPRequests : RejectHTTP(r, h)
    BY <2>7, RejectKeeps
  <2>8. CASE Return(r)
    BY <2>8, ReturnKeeps
  <2> QED
    BY <1>1, <2>1, <2>2, <2>3, <2>4, <2>5, <2>6, <2>7, <2>8 DEF Handle
<1>2. CASE Browse
  <2>1. UNCHANGED <<pc, sem, odSem>>
    BY <1>2 DEF Browse, reqVars
  <2> QED
    BY <1>2, <2>1, BrowseKeepsLog DEF LedgerInv, SlotInv, Holding, Waiting
<1>3. CASE UNCHANGED <<logVars, reqVars>>
  <2>1. UNCHANGED <<ring, next, count, total, byDec, byXport, clients, req, pc, res, sent, sem, odSem>>
    BY <1>3 DEF logVars, reqVars
  <2>2. /\ Logged' = Logged /\ Holding' = Holding /\ Waiting' = Waiting
        /\ \A d : Decided(d)' = Decided(d)
        /\ \A t : Via(t)' = Via(t)
    BY <2>1 DEF Logged, Holding, Waiting, Decided, Via
  <2> QED
    BY <2>1, <2>2 DEF LedgerInv, LogInv, SlotInv, Shapes, RingInv, Entered, Told
<1> QED
  BY <1>1, <1>2, <1>3 DEF Next, vars

\* For any number of requests, of slots and of entries, whatever the planes, the cache
\* and the upstreams answer and whichever requests are shed, missed or turned away: the
\* log counts every single question once and keeps what its client was told, and the
\* limiters of ServeDNS count the requests that hold a slot.
THEOREM LedgerExactHolds == Spec => []LedgerExact
<1>1. LedgerInv => LedgerExact
  <2> SUFFICES ASSUME LedgerInv PROVE LedgerExact
    OBVIOUS
  <2>1. ASSUME NEW i \in 1 .. count PROVE \E r \in Logged : Entered(r, Recent[i].entry)
    <3>1. Slot(i) \in 0 .. Size - 1 /\ Slot(i) < count
      BY QueryLogAssumption DEF Slot, LedgerInv, LogInv, RingInv
    <3>2. Recent[i] = ring[Slot(i)]
      BY DEF Recent
    <3> QED
      BY <3>1, <3>2 DEF LedgerInv, LogInv
  <2> QED
    BY <2>1 DEF LedgerExact, LedgerInv, LogInv, SlotInv, Logged, Decided, Via, Holding, Waiting,
                Entered
<1> QED
  BY <1>1, LedgerInit, LedgerStep, PTL DEF Spec, LedgerInv
=============================================================================
