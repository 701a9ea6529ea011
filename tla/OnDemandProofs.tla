--------------------------- MODULE OnDemandProofs ---------------------------
(***************************************************************************)
(* The table of flights and the outbound budget of on-demand resolution,   *)
(* for any number of clients, labels and packets and every capacity, rate  *)
(* and window.                                                             *)
(***************************************************************************)
EXTENDS OnDemand, FiniteSetTheorems, TLAPS

Req == {IdleReq} \cup ReqType

\* The request leads a flight and has not cleaned up after it.
Leads(q) == q.at \in {"wait", "clean"} /\ q.leads

----------------------------------------------------------------------------
(* Types of the requests, and the times they hold.                         *)

\* What the invariants below need to know of the types; no request holds a time that
\* is still to come.
ReqInv ==
    /\ clock \in Nat /\ flights \in Nat /\ pending \in [Labels -> Nat]
    /\ req \in [Clients -> Req]
    /\ \A r \in Clients : req[r] # IdleReq => req[r].now <= clock

\* A request whose place is not "idle" has all its fields.
LEMMA ActiveReq ==
    ASSUME ReqInv, NEW r \in Clients, req[r].at # "idle"
    PROVE  req[r] \in ReqType /\ req[r] # IdleReq
BY DEF ReqInv, Req, IdleReq

\* A step that gives one request a typed value and time leaves ReqInv.
LEMMA ReqInvUpdate ==
    ASSUME ReqInv, NEW r \in Clients, NEW x \in Req, x # IdleReq => x.now <= clock,
           req' = [req EXCEPT ![r] = x], clock' = clock,
           flights' \in Nat, pending' \in [Labels -> Nat]
    PROVE  ReqInv'
BY DEF ReqInv

\* Nothing has started.
LEMMA ReqInvInit == Init => ReqInv
BY DEF Init, ReqInv, Req, NoFlight

\* The timer's end is a time.
LEMMA UntilNat ==
    ASSUME clock \in Nat
    PROVE  Smaller(clock + Wait, MaxTime) \in Nat
BY OnDemandAssumption DEF Smaller

\* Every step of a request keeps its type and does not read the clock ahead.
LEMMA ReqInvNext == ReqInv /\ [Next]_vars => ReqInv'
<1> SUFFICES ASSUME ReqInv, [Next]_vars PROVE ReqInv'
  OBVIOUS
<1>1. ASSUME UNCHANGED <<req, clock, pending, flights>> PROVE ReqInv'
  BY <1>1 DEF ReqInv
<1>2. ASSUME NEW r \in Clients, NEW l \in Labels, Arrive(r, l) PROVE ReqInv'
  <2> DEFINE x == [at |-> "lookup", label |-> l, now |-> 0, flight |-> NoFlight, leads |-> FALSE,
                   until |-> 0]
  <2>1. x \in Req /\ x.now <= clock
    BY DEF Req, ReqType, ReqAt, NoFlight, ReqInv
  <2>2. CASE req' = [req EXCEPT ![r] = x]
    BY <1>2, <2>1, <2>2, ReqInvUpdate DEF Arrive, ReqInv, odVars
  <2>3. CASE req' = req
    BY <1>1, <1>2, <2>3 DEF Arrive, odVars
  <2>4. QED
    BY <1>2, <2>2, <2>3 DEF Arrive
<1>3. ASSUME NEW r \in Clients, Lookup(r) PROVE ReqInv'
  <2> DEFINE x == IF req[r].label \in view THEN IdleReq ELSE [req[r] EXCEPT !.at = "slot"]
  <2>1. req[r] \in ReqType /\ req[r] # IdleReq
    BY <1>3, ActiveReq DEF Lookup, At
  <2>2. x \in Req /\ (x # IdleReq => x.now <= clock)
    <3>1. CASE req[r].label \in view
      BY <3>1 DEF Req
    <3>2. CASE req[r].label \notin view
      <4>1. x = [req[r] EXCEPT !.at = "slot"]
        BY <3>2
      <4>2. QED
        BY <2>1, <4>1 DEF ReqInv, Req, ReqType, ReqAt
    <3>3. QED
      BY <3>1, <3>2
  <2>3. req' = [req EXCEPT ![r] = x]
    BY <1>3 DEF Lookup, At
  <2>4. QED
    BY <1>3, <2>2, <2>3, ReqInvUpdate DEF Lookup, At, ReqInv, odVars
<1>4. ASSUME NEW r \in Clients, TakeSlot(r) PROVE ReqInv'
  <2> DEFINE x == IF odSem < ODWaiters THEN [req[r] EXCEPT !.at = "solicit", !.now = clock]
               ELSE [req[r] EXCEPT !.at = "again"]
  <2>1. req[r] \in ReqType /\ req[r] # IdleReq
    BY <1>4, ActiveReq DEF TakeSlot, At
  <2>2. x \in Req /\ (x # IdleReq => x.now <= clock)
    <3>1. CASE odSem < ODWaiters
      <4>1. x = [req[r] EXCEPT !.at = "solicit", !.now = clock] /\ clock \in Nat
        BY <3>1 DEF ReqInv
      <4>2. x \in ReqType /\ x.now = clock
        BY <2>1, <4>1, Zenon DEF ReqType, ReqAt
      <4>3. QED
        BY <4>1, <4>2 DEF Req
    <3>2. CASE ~(odSem < ODWaiters)
      <4>1. x = [req[r] EXCEPT !.at = "again"] /\ req[r].now <= clock
        BY <2>1, <3>2 DEF ReqInv
      <4>2. x \in ReqType /\ x.now = req[r].now
        BY <2>1, <4>1, Zenon DEF ReqType, ReqAt
      <4>3. QED
        BY <4>1, <4>2 DEF Req
    <3>3. QED
      BY <3>1, <3>2
  <2>3. req' = [req EXCEPT ![r] = x]
    BY <1>4, Zenon DEF TakeSlot, At
  <2>4. QED
    BY <1>4, <2>2, <2>3, ReqInvUpdate DEF TakeSlot, At, ReqInv, odVars
<1>5. ASSUME NEW r \in Clients, Again(r) PROVE ReqInv'
  <2> DEFINE x == IdleReq
  <2>1. req[r] \in ReqType /\ req[r] # IdleReq
    BY <1>5, ActiveReq DEF Again, At
  <2>2. x \in Req /\ (x # IdleReq => x.now <= clock)
    BY <2>1 DEF ReqInv, Req, ReqType, ReqAt
  <2>3. req' = [req EXCEPT ![r] = x]
    BY <1>5 DEF Again, At
  <2>4. QED
    BY <1>5, <2>2, <2>3, ReqInvUpdate DEF Again, At, ReqInv, odVars
<1>6. ASSUME NEW r \in Clients, Join(r) PROVE ReqInv'
  <2> DEFINE x == [req[r] EXCEPT !.at = "wait", !.flight = pending[req[r].label], !.leads = FALSE,
                           !.until = Smaller(clock + Wait, MaxTime)]
  <2>1. req[r] \in ReqType /\ req[r] # IdleReq
    BY <1>6, ActiveReq DEF Join, Waiting, At
  <2>2. x \in Req /\ (x # IdleReq => x.now <= clock)
    BY <2>1, UntilNat, Zenon DEF ReqInv, Req, ReqType, ReqAt
  <2>3. req' = [req EXCEPT ![r] = x]
    BY <1>6, Zenon DEF Join, Waiting, At
  <2>4. QED
    BY <1>6, <2>2, <2>3, ReqInvUpdate, Zenon DEF Join, Waiting, At, ReqInv, odVars
<1>7. ASSUME NEW r \in Clients, Suppressed(r) PROVE ReqInv'
  <2> DEFINE x == [req[r] EXCEPT !.at = "again"]
  <2>1. req[r] \in ReqType /\ req[r] # IdleReq
    BY <1>7, ActiveReq DEF Suppressed, Return, At
  <2>2. x \in Req /\ (x # IdleReq => x.now <= clock)
    BY <2>1 DEF ReqInv, Req, ReqType, ReqAt
  <2>3. req' = [req EXCEPT ![r] = x]
    BY <1>7 DEF Suppressed, Return, At
  <2>4. QED
    BY <1>7, <2>2, <2>3, ReqInvUpdate DEF Suppressed, Return, At, ReqInv, odVars
<1>8. ASSUME NEW r \in Clients, Limited(r) PROVE ReqInv'
  <2> DEFINE x == [req[r] EXCEPT !.at = "again"]
  <2>1. req[r] \in ReqType /\ req[r] # IdleReq
    BY <1>8, ActiveReq DEF Limited, MayLead, Return, At
  <2>2. x \in Req /\ (x # IdleReq => x.now <= clock)
    BY <2>1 DEF ReqInv, Req, ReqType, ReqAt
  <2>3. req' = [req EXCEPT ![r] = x]
    BY <1>8 DEF Limited, MayLead, Return, At
  <2>4. QED
    BY <1>8, <2>2, <2>3, ReqInvUpdate DEF Limited, MayLead, Return, At, ReqInv, odVars
<1>9. ASSUME NEW r \in Clients, Lead(r) PROVE ReqInv'
  <2> DEFINE x == [req[r] EXCEPT !.at = "wait", !.flight = flights + 1, !.leads = TRUE,
                           !.until = Smaller(clock + Wait, MaxTime)]
  <2>1. req[r] \in ReqType /\ req[r] # IdleReq
    BY <1>9, ActiveReq DEF Lead, MayLead, Waiting, At
  <2>2. x \in Req /\ (x # IdleReq => x.now <= clock)
    <3>1. Smaller(clock + Wait, MaxTime) \in Nat /\ flights + 1 \in Nat /\ req[r].now <= clock
      BY <2>1, UntilNat DEF ReqInv
    <3>2. x \in ReqType /\ x.now = req[r].now
      BY <2>1, <3>1, Zenon DEF ReqType, ReqAt
    <3>3. QED
      BY <3>1, <3>2 DEF Req
  <2>3. req' = [req EXCEPT ![r] = x]
    BY <1>9, Zenon DEF Lead, MayLead, Waiting, At
  <2>4. /\ clock' = clock /\ flights' = flights + 1
        /\ pending' = [pending EXCEPT ![req[r].label] = flights + 1]
    BY <1>9 DEF Lead
  <2>5. flights' \in Nat /\ pending' \in [Labels -> Nat]
    <3>1. flights \in Nat /\ flights + 1 \in Nat /\ pending \in [Labels -> Nat]
      BY DEF ReqInv
    <3>2. req[r].label \in Labels
      BY <2>1 DEF ReqType
    <3>3. QED
      BY <2>4, <3>1, <3>2
  <2>6. QED
    BY <2>2, <2>3, <2>4, <2>5, ReqInvUpdate, Zenon
<1>10. ASSUME NEW r \in Clients, At(r, "wait"), EndWait(r), UNCHANGED <<odVars, clock>> PROVE ReqInv'
  <2> DEFINE x == [req[r] EXCEPT !.at = IF req[r].leads THEN "clean" ELSE "again"]
  <2>1. req[r] \in ReqType /\ req[r] # IdleReq
    BY <1>10, ActiveReq DEF At
  <2>2. x \in Req /\ (x # IdleReq => x.now <= clock)
    BY <2>1 DEF ReqInv, Req, ReqType, ReqAt
  <2>3. req' = [req EXCEPT ![r] = x]
    BY <1>10 DEF EndWait, Return
  <2>4. QED
    BY <1>10, <2>2, <2>3, ReqInvUpdate DEF ReqInv, odVars
<1>11. ASSUME NEW r \in Clients, Wake(r) \/ Timeout(r) \/ Cancel(r) PROVE ReqInv'
  BY <1>10, <1>11 DEF Wake, Timeout, Cancel
<1>12. ASSUME NEW r \in Clients, Clean(r) PROVE ReqInv'
  <2> DEFINE x == [req[r] EXCEPT !.at = "again"]
  <2>1. req[r] \in ReqType /\ req[r] # IdleReq
    BY <1>12, ActiveReq DEF Clean, Return, At
  <2>2. x \in Req /\ (x # IdleReq => x.now <= clock)
    BY <2>1 DEF ReqInv, Req, ReqType, ReqAt
  <2>3. req' = [req EXCEPT ![r] = x]
    BY <1>12 DEF Clean, Return, At
  <2>4. /\ clock' = clock /\ flights' = flights
        /\ pending' = [pending EXCEPT ![req[r].label] = IF @ = req[r].flight THEN NoFlight ELSE @]
    BY <1>12 DEF Clean
  <2>5. flights' \in Nat /\ pending' \in [Labels -> Nat]
    BY <2>1, <2>4 DEF ReqInv, ReqType, NoFlight
  <2>6. QED
    BY <2>2, <2>3, <2>4, <2>5, ReqInvUpdate, Zenon
<1>13. ASSUME NEW f \in Feeds, NEW l \in Labels, Learn(f, l) \/ Forget(f, l) PROVE ReqInv'
  BY <1>1, <1>13 DEF Learn, Forget, odVars
<1>14. ASSUME NEW f \in Feeds, Build(f) \/ Store(f) PROVE ReqInv'
  BY <1>1, <1>14 DEF Build, Store, odVars
<1>15. ASSUME NEW f \in Feeds, Complete(f) PROVE ReqInv'
  BY <1>15 DEF Complete, ReqInv, NoFlight
<1>16. CASE Tick
  BY <1>16 DEF Tick, ReqInv, odVars, Req, ReqType
<1>17. CASE Terminating \/ UNCHANGED vars
  BY <1>1, <1>17 DEF Terminating, vars, odVars
<1>18. QED
  BY <1>2, <1>3, <1>4, <1>5, <1>6, <1>7, <1>8, <1>9, <1>10, <1>11, <1>12, <1>13, <1>14,
     <1>15, <1>16, <1>17 DEF Next

----------------------------------------------------------------------------
(* The outbound budget.                                                    *)

\* What was sent and what is left never exceed the burst and what was refilled up to
\* the last use, even when that use came with an earlier time than the one before.
Balanced(b, n) ==
    \/ b = NoBucket /\ n = 0
    \/ b.last \in Nat /\ b.tokens \in Int /\ n + b.tokens <= GlobalBurst + b.last * GlobalRate

BudgetInv == Balanced(global, flights) /\ OutboundBudget

\* odBucket.allow keeps the balance, and pays for a query that it allows.
LEMMA BucketUse ==
    ASSUME NEW b, NEW n \in Nat, NEW now \in Nat, Balanced(b, n)
    PROVE  LET a == AfterBucket(b, now, GlobalRate, GlobalBurst)
               allows == BucketAllows(b, now, GlobalRate, GlobalBurst)
           IN /\ Balanced(a, n)
              /\ allows => Balanced(a, n + 1) /\ n + 1 <= GlobalBurst + now * GlobalRate
<1> DEFINE full == Filled(b, now, GlobalRate, GlobalBurst)
<1>1. GlobalRate \in Nat /\ GlobalBurst \in Nat
  BY OnDemandAssumption
<1>2. now * GlobalRate \in Nat
  BY <1>1
<1>3. full \in Int /\ n + full <= GlobalBurst + now * GlobalRate
  <2>1. CASE b = NoBucket /\ n = 0
    BY <1>1, <1>2, <2>1 DEF Filled, NoBucket, Unset
  <2>2. CASE b.last \in Nat /\ b.tokens \in Int
             /\ n + b.tokens <= GlobalBurst + b.last * GlobalRate
    <3>1. b.last * GlobalRate \in Int /\ (now - b.last) * GlobalRate \in Int
      BY <1>1, <2>2
    <3>2. (now - b.last) * GlobalRate = now * GlobalRate - b.last * GlobalRate
      BY <1>1, <2>2
    <3>3. full = Smaller(GlobalBurst, b.tokens + (now - b.last) * GlobalRate)
      BY <2>2 DEF Filled, Unset
    <3>4. full \in Int /\ full <= b.tokens + (now - b.last) * GlobalRate
      BY <1>1, <2>2, <3>1, <3>3 DEF Smaller
    <3>5. QED
      BY <1>1, <1>2, <2>2, <3>1, <3>2, <3>4
  <2>3. QED
    BY <2>1, <2>2 DEF Balanced
<1> DEFINE a == AfterBucket(b, now, GlobalRate, GlobalBurst)
<1>4. a.last = now /\ a.tokens = IF full >= 1 THEN full - 1 ELSE full
  BY DEF AfterBucket, BucketAllows
<1>5. BucketAllows(b, now, GlobalRate, GlobalBurst) <=> full >= 1
  BY DEF BucketAllows
<1> HIDE DEF full, a
<1>6. QED
  BY <1>1, <1>2, <1>3, <1>4, <1>5 DEF Balanced, a

\* The bucket starts full with the first use.
LEMMA BudgetInvInit == Init => BudgetInv
<1> SUFFICES ASSUME Init PROVE BudgetInv
  OBVIOUS
<1>1. GlobalBurst \in Nat /\ GlobalRate \in Nat /\ clock = 0 /\ flights = 0 /\ global = NoBucket
  BY OnDemandAssumption DEF Init
<1>2. QED
  BY <1>1 DEF BudgetInv, Balanced, OutboundBudget

\* Only Limited and Lead use the bucket, and only Lead sends.
LEMMA BudgetInvNext == ReqInv /\ BudgetInv /\ [Next]_vars => BudgetInv'
<1> SUFFICES ASSUME ReqInv, BudgetInv, [Next]_vars PROVE BudgetInv'
  OBVIOUS
<1>1. GlobalRate \in Nat /\ GlobalBurst \in Nat
  BY OnDemandAssumption
<1>2. ASSUME UNCHANGED <<global, flights, clock>> PROVE BudgetInv'
  BY <1>2 DEF BudgetInv, Balanced, OutboundBudget
<1>3. ASSUME NEW r \in Clients, MayLead(r)
      PROVE  req[r].now \in Nat /\ req[r].now <= clock
  <2>1. req[r] \in ReqType /\ req[r] # IdleReq
    BY <1>3, ActiveReq DEF MayLead, At
  <2>2. QED
    BY <2>1 DEF ReqInv, ReqType
<1>4. ASSUME NEW r \in Clients, Limited(r) PROVE BudgetInv'
  <2>1. /\ global' = AfterBucket(global, req[r].now, GlobalRate, GlobalBurst)
        /\ flights' = flights /\ clock' = clock /\ MayLead(r)
    BY <1>4 DEF Limited, Charge
  <2>2. Balanced(global', flights)
    BY <1>3, <2>1, BucketUse DEF BudgetInv, ReqInv
  <2>3. QED
    BY <2>1, <2>2 DEF BudgetInv, OutboundBudget, Balanced
<1>5. ASSUME NEW r \in Clients, Lead(r) PROVE BudgetInv'
  <2>1. /\ global' = AfterBucket(global, req[r].now, GlobalRate, GlobalBurst)
        /\ BucketAllows(global, req[r].now, GlobalRate, GlobalBurst)
        /\ flights' = flights + 1 /\ clock' = clock /\ MayLead(r)
    BY <1>5 DEF Lead, Charge, GlobalAllows
  <2>2. req[r].now \in Nat /\ req[r].now <= clock /\ clock \in Nat
    BY <1>3, <2>1 DEF ReqInv
  <2>3. /\ Balanced(global', flights + 1)
        /\ flights + 1 <= GlobalBurst + req[r].now * GlobalRate
    BY <2>1, <2>2, BucketUse DEF BudgetInv, ReqInv
  <2>4. req[r].now * GlobalRate <= clock * GlobalRate
    BY <1>1, <2>2
  <2>5. req[r].now * GlobalRate \in Nat /\ clock * GlobalRate \in Nat /\ flights \in Nat
    BY <1>1, <2>2 DEF ReqInv
  <2>6. flights + 1 <= GlobalBurst + clock * GlobalRate
    BY <1>1, <2>3, <2>4, <2>5
  <2>7. QED
    BY <2>1, <2>3, <2>6 DEF BudgetInv, OutboundBudget, Balanced
<1>6. CASE Tick
  <2>1. clock' = clock + 1 /\ global' = global /\ flights' = flights
    BY <1>6 DEF Tick, odVars
  <2>2. (clock + 1) * GlobalRate = clock * GlobalRate + GlobalRate /\ clock * GlobalRate \in Nat
    BY <1>1 DEF ReqInv
  <2>3. QED
    BY <1>1, <2>1, <2>2 DEF BudgetInv, OutboundBudget, Balanced, ReqInv
<1>7. ASSUME NEW r \in Clients, NEW l \in Labels, Arrive(r, l) PROVE BudgetInv'
  BY <1>2, <1>7 DEF Arrive, odVars
<1>8. ASSUME NEW r \in Clients,
             Lookup(r) \/ TakeSlot(r) \/ Join(r) \/ Suppressed(r) \/ Wake(r) \/ Timeout(r) \/ Cancel(r)
             \/ Clean(r) \/ Again(r)
      PROVE  BudgetInv'
  BY <1>2, <1>8, Zenon DEF Lookup, TakeSlot, Join, Suppressed, Wake, Timeout, Cancel, Clean, Again,
     odVars
<1>9. ASSUME NEW f \in Feeds, NEW l \in Labels, Learn(f, l) \/ Forget(f, l) PROVE BudgetInv'
  BY <1>2, <1>9 DEF Learn, Forget, odVars
<1>10. ASSUME NEW f \in Feeds, Build(f) \/ Store(f) \/ Complete(f) PROVE BudgetInv'
  BY <1>2, <1>10 DEF Build, Store, Complete, odVars
<1>11. CASE Terminating \/ UNCHANGED vars
  BY <1>2, <1>11 DEF Terminating, vars, odVars
<1>12. QED
  BY <1>4, <1>5, <1>6, <1>7, <1>8, <1>9, <1>10, <1>11 DEF Next

\* Whoever asks, and whatever tables were trimmed or reset, the queries that Resolve has
\* multicast stay within the burst and the rate of odGlobal.
THEOREM OutboundBudgetHolds == Spec => []OutboundBudget
<1>1. Init => ReqInv /\ BudgetInv
  BY ReqInvInit, BudgetInvInit
<1>2. ReqInv /\ BudgetInv /\ [Next]_vars => ReqInv' /\ BudgetInv'
  BY ReqInvNext, BudgetInvNext
<1>3. BudgetInv => OutboundBudget
  BY DEF BudgetInv
<1>4. QED
  BY <1>1, <1>2, <1>3, PTL DEF Spec

----------------------------------------------------------------------------
(* The table of flights.                                                   *)

\* A flight has one leader, only leaders clean up, and what the table or a leader holds
\* was started.  Without the first two a clean-up could remove another's flight.
FlightInv ==
    /\ closed \subseteq 1 .. flights
    /\ \A r \in Clients : req[r].at = "clean" => Leads(req[r])
    /\ \A r \in Clients : Leads(req[r]) => req[r].flight \in 1 .. flights
    /\ \A r, s \in Clients :
          Leads(req[r]) /\ Leads(req[s]) /\ req[r].flight = req[s].flight => r = s
    /\ \A l \in Labels : pending[l] # NoFlight =>
          /\ pending[l] \notin closed
          /\ \E r \in Clients : Leads(req[r]) /\ req[r].flight = pending[l] /\ req[r].label = l
    /\ \A r \in Clients : req[r].at = "wait" /\ Leads(req[r]) /\ req[r].flight \notin closed
                             => pending[req[r].label] = req[r].flight

\* FlightInv says what the two properties say.
LEMMA FlightInvImplies == FlightInv => FlightsOwned /\ NoLostWake
<1> SUFFICES ASSUME FlightInv PROVE FlightsOwned /\ NoLostWake
  OBVIOUS
<1>1. FlightsOwned
  BY DEF FlightInv, FlightsOwned, Pending, Active, Leads
<1>2. NoLostWake
  BY DEF FlightInv, NoLostWake, Active, At, Leads
<1>3. QED
  BY <1>1, <1>2

\* There are no flights.
LEMMA FlightInvInit == Init => FlightInv
BY DEF Init, FlightInv, Leads, IdleReq, NoFlight

\* A step of a request that does not lead and does not come to lead.
LEMMA FollowerStep ==
    ASSUME FlightInv, req \in [Clients -> Req], NEW r \in Clients, NEW x,
           req' = [req EXCEPT ![r] = x],
           ~Leads(req[r]), ~Leads(x), x.at # "clean", UNCHANGED <<pending, closed, flights>>
    PROVE  FlightInv'
<1>1. \A s \in Clients : req'[s] = IF s = r THEN x ELSE req[s]
  OBVIOUS
<1>2. \A s \in Clients : Leads(req'[s]) => s # r /\ Leads(req[s]) /\ req'[s] = req[s]
  BY <1>1
<1>3. \A s \in Clients : Leads(req[s]) => s # r /\ req'[s] = req[s]
  BY <1>1
<1>4. \A s \in Clients : req'[s].at = "clean" => Leads(req'[s])
  BY <1>1 DEF FlightInv
<1>5. \A s \in Clients : Leads(req'[s]) => req'[s].flight \in 1 .. flights'
  BY <1>2 DEF FlightInv
<1>6. \A s, u \in Clients :
         Leads(req'[s]) /\ Leads(req'[u]) /\ req'[s].flight = req'[u].flight => s = u
  BY <1>2 DEF FlightInv
<1>7. ASSUME NEW l \in Labels, pending'[l] # NoFlight
      PROVE  /\ pending'[l] \notin closed'
             /\ \E s \in Clients : /\ Leads(req'[s]) /\ req'[s].flight = pending'[l]
                                   /\ req'[s].label = l
  <2>1. /\ pending[l] \notin closed
        /\ \E s \in Clients : Leads(req[s]) /\ req[s].flight = pending[l] /\ req[s].label = l
    BY <1>7 DEF FlightInv
  <2>2. QED
    BY <1>3, <2>1
<1>8. ASSUME NEW s \in Clients, req'[s].at = "wait", Leads(req'[s]), req'[s].flight \notin closed'
      PROVE  pending'[req'[s].label] = req'[s].flight
  BY <1>2, <1>8, Zenon DEF FlightInv
<1>9. closed' \subseteq 1 .. flights'
  BY DEF FlightInv
<1>10. QED
  BY <1>4, <1>5, <1>6, <1>7, <1>8, <1>9, Zenon DEF FlightInv

\* A leader's wait ends.
LEMMA LeaderWakes ==
    ASSUME FlightInv, req \in [Clients -> Req], NEW r \in Clients, req[r] \in ReqType,
           Leads(req[r]), req' = [req EXCEPT ![r] = [req[r] EXCEPT !.at = "clean"]],
           UNCHANGED <<pending, closed, flights>>
    PROVE  FlightInv'
<1>1. /\ Leads(req'[r]) /\ req'[r].at = "clean"
      /\ req'[r].flight = req[r].flight /\ req'[r].label = req[r].label
  BY DEF Leads, ReqType
<1>2. \A s \in Clients : s # r => req'[s] = req[s]
  OBVIOUS
<1>3. \A s \in Clients : /\ Leads(req'[s]) <=> Leads(req[s])
                         /\ Leads(req[s]) => /\ req'[s].flight = req[s].flight
                                             /\ req'[s].label = req[s].label
  BY <1>1, <1>2
<1>4. \A s \in Clients : req'[s].at = "clean" => Leads(req'[s])
  BY <1>1, <1>2 DEF FlightInv
<1>5. \A s \in Clients : req'[s].at = "wait" => s # r /\ req'[s] = req[s]
  BY <1>1, <1>2
<1>6. \A s \in Clients : Leads(req'[s]) => req'[s].flight \in 1 .. flights'
  BY <1>3 DEF FlightInv
<1>7. \A s, u \in Clients :
         Leads(req'[s]) /\ Leads(req'[u]) /\ req'[s].flight = req'[u].flight => s = u
  BY <1>3 DEF FlightInv
<1>8. ASSUME NEW l \in Labels, pending'[l] # NoFlight
      PROVE  /\ pending'[l] \notin closed'
             /\ \E s \in Clients : /\ Leads(req'[s]) /\ req'[s].flight = pending'[l]
                                   /\ req'[s].label = l
  <2>1. /\ pending[l] \notin closed
        /\ \E s \in Clients : Leads(req[s]) /\ req[s].flight = pending[l] /\ req[s].label = l
    BY <1>8 DEF FlightInv
  <2>2. QED
    BY <1>3, <2>1
<1>9. ASSUME NEW s \in Clients, req'[s].at = "wait", Leads(req'[s]), req'[s].flight \notin closed'
      PROVE  pending'[req'[s].label] = req'[s].flight
  BY <1>5, <1>9 DEF FlightInv
<1>10. closed' \subseteq 1 .. flights'
  BY DEF FlightInv
<1>11. QED
  BY <1>4, <1>6, <1>7, <1>8, <1>9, <1>10, Zenon DEF FlightInv

\* A new leader has the newest flight, and its label had none.
LEMMA LeadStep ==
    ASSUME ReqInv, FlightInv, NEW r \in Clients, Lead(r)
    PROVE  FlightInv'
<1> DEFINE n == flights + 1
           l == req[r].label
<1>1. req[r] \in ReqType /\ ~Leads(req[r]) /\ pending[l] = NoFlight
  BY ActiveReq, Zenon DEF Lead, MayLead, At, Leads
<1>2. /\ req' = [req EXCEPT ![r].at = "wait", ![r].flight = n, ![r].leads = TRUE,
                            ![r].until = Smaller(clock + Wait, MaxTime)]
      /\ pending' = [pending EXCEPT ![l] = n] /\ flights' = n /\ closed' = closed
  BY DEF Lead, Waiting
<1>3. /\ Leads(req'[r]) /\ req'[r].flight = n /\ req'[r].label = l /\ req'[r].at = "wait"
  BY <1>1, <1>2 DEF ReqInv, Leads, ReqType
<1>4. \A s \in Clients : s # r => req'[s] = req[s]
  BY <1>2 DEF ReqInv
<1>5. l \in Labels /\ flights \in Nat /\ n \in Nat /\ n > flights /\ pending \in [Labels -> Nat]
  BY <1>1 DEF ReqType, ReqInv
<1>6. pending'[l] = n /\ \A k \in Labels : k # l => pending'[k] = pending[k]
  BY <1>2, <1>5
<1>7. closed' \subseteq 1 .. flights' /\ n \notin closed'
  BY <1>2, <1>5 DEF FlightInv
<1>8. \A s \in Clients : req'[s].at = "clean" => Leads(req'[s])
  BY <1>3, <1>4, Zenon DEF FlightInv
<1>9. \A s \in Clients : Leads(req'[s]) => /\ req'[s].flight \in 1 .. flights'
                                           /\ s # r => req'[s].flight # n
  <2> SUFFICES ASSUME NEW s \in Clients, Leads(req'[s])
               PROVE  /\ req'[s].flight \in 1 .. flights'
                      /\ s # r => req'[s].flight # n
    OBVIOUS
  <2>1. flights' = n
    BY <1>2
  <2>2. CASE s = r
    BY <1>3, <1>5, <2>1, <2>2
  <2>3. CASE s # r
    <3>1. req'[s] = req[s] /\ req[s].flight \in 1 .. flights
      BY <1>4, <2>3 DEF FlightInv
    <3>2. QED
      BY <1>5, <2>1, <3>1
  <2>4. QED
    BY <2>2, <2>3
<1>10. \A s, u \in Clients :
          Leads(req'[s]) /\ Leads(req'[u]) /\ req'[s].flight = req'[u].flight => s = u
  BY <1>3, <1>4, <1>9 DEF FlightInv
<1>11. ASSUME NEW k \in Labels, pending'[k] # NoFlight
       PROVE  /\ pending'[k] \notin closed'
              /\ \E s \in Clients : /\ Leads(req'[s]) /\ req'[s].flight = pending'[k]
                                    /\ req'[s].label = k
  <2>1. CASE k = l
    BY <1>3, <1>6, <1>7, <2>1
  <2>2. CASE k # l
    <3>1. pending'[k] = pending[k] /\ closed' = closed
      BY <1>2, <1>6, <2>2
    <3>2. PICK s \in Clients : Leads(req[s]) /\ req[s].flight = pending[k] /\ req[s].label = k
      BY <1>11, <3>1 DEF FlightInv
    <3>3. s # r /\ pending[k] \notin closed
      BY <1>1, <1>11, <3>1, <3>2, Zenon DEF FlightInv
    <3>4. QED
      BY <1>4, <3>1, <3>2, <3>3
  <2>3. QED
    BY <2>1, <2>2
<1>12. ASSUME NEW s \in Clients, req'[s].at = "wait", Leads(req'[s]), req'[s].flight \notin closed'
       PROVE  pending'[req'[s].label] = req'[s].flight
  <2>1. CASE s = r
    BY <1>3, <1>6, <2>1, Zenon
  <2>2. CASE s # r
    <3>1. /\ req'[s] = req[s] /\ pending[req[s].label] = req[s].flight
          /\ req[s].flight \in 1 .. flights
      <4>1. closed' = closed /\ req'[s] = req[s]
        BY <1>2, <1>4, <2>2, Zenon
      <4>2. QED
        BY <1>12, <4>1 DEF FlightInv
    <3>2. req[s].label # l
      BY <1>1, <1>5, <3>1 DEF NoFlight
    <3>3. req[s].label \in Labels
      BY <1>12, <3>1, ActiveReq DEF ReqType
    <3>4. QED
      BY <1>6, <3>1, <3>2, <3>3
  <2>3. QED
    BY <2>1, <2>2
<1>13. QED
  BY <1>7, <1>8, <1>9, <1>10, <1>11, <1>12, Zenon DEF FlightInv

\* A clean-up removes the leader's own flight or nothing.
LEMMA CleanStep ==
    ASSUME ReqInv, FlightInv, NEW r \in Clients, Clean(r)
    PROVE  FlightInv'
<1> DEFINE l == req[r].label
<1>1. req[r] \in ReqType /\ Leads(req[r]) /\ l \in Labels
  BY ActiveReq, Zenon DEF Clean, At, FlightInv, ReqType
<1>2. /\ req' = [req EXCEPT ![r].at = "again"] /\ closed' = closed /\ flights' = flights
      /\ pending' = [pending EXCEPT ![l] = IF @ = req[r].flight THEN NoFlight ELSE @]
  BY DEF Clean, Return
<1>3. req'[r].at = "again" /\ ~Leads(req'[r])
  BY <1>1, <1>2 DEF ReqInv, Leads, ReqType
<1>4. \A s \in Clients : s # r => req'[s] = req[s]
  BY <1>2 DEF ReqInv
<1>5. \A k \in Labels : pending'[k] # NoFlight
                          => pending'[k] = pending[k] /\ pending[k] # req[r].flight
  <2> SUFFICES ASSUME NEW k \in Labels, pending'[k] # NoFlight
               PROVE  pending'[k] = pending[k] /\ pending[k] # req[r].flight
    OBVIOUS
  <2>1. CASE k = l
    BY <1>1, <1>2, <2>1 DEF ReqInv
  <2>2. CASE k # l
    <3>1. pending'[k] = pending[k]
      BY <1>2, <2>2 DEF ReqInv
    <3>2. PICK s \in Clients : Leads(req[s]) /\ req[s].flight = pending[k] /\ req[s].label = k
      BY <3>1, Zenon DEF FlightInv
    <3>3. s # r
      BY <2>2, <3>2
    <3>4. QED
      BY <1>1, <3>1, <3>2, <3>3, Zenon DEF FlightInv
  <2>3. QED
    BY <2>1, <2>2
<1>6. ASSUME NEW k \in Labels, pending'[k] # NoFlight
      PROVE  /\ pending'[k] \notin closed'
             /\ \E s \in Clients : /\ Leads(req'[s]) /\ req'[s].flight = pending'[k]
                                   /\ req'[s].label = k
  <2>1. PICK s \in Clients : Leads(req[s]) /\ req[s].flight = pending[k] /\ req[s].label = k
    BY <1>5, <1>6, Zenon DEF FlightInv
  <2>2. s # r
    BY <1>5, <1>6, <2>1
  <2>3. pending[k] \notin closed
    BY <1>5, <1>6 DEF FlightInv
  <2>4. QED
    BY <1>2, <1>4, <1>5, <1>6, <2>1, <2>2, <2>3
<1>7. ASSUME NEW s \in Clients, req'[s].at = "wait", Leads(req'[s]), req'[s].flight \notin closed'
      PROVE  pending'[req'[s].label] = req'[s].flight
  <2>1. s # r /\ req'[s] = req[s]
    BY <1>3, <1>4, <1>7
  <2>2. pending[req[s].label] = req[s].flight /\ req[s].flight # req[r].flight
    BY <1>1, <1>2, <1>7, <2>1 DEF FlightInv
  <2>3. req[s].label \in Labels
    BY <1>7, <2>1, ActiveReq DEF ReqType
  <2>4. QED
    BY <1>1, <1>2, <2>1, <2>2, <2>3 DEF ReqInv
<1>8. QED
  BY <1>2, <1>3, <1>4, <1>6, <1>7 DEF FlightInv

\* Closing the flights of the hosts of a packet takes them out of the table.
LEMMA CompleteStep ==
    ASSUME ReqInv, FlightInv, NEW f \in Feeds, Complete(f)
    PROVE  FlightInv'
<1> DEFINE H == feed[f].hosts
<1>1. /\ closed' = closed \cup {pending[l] : l \in H \cap Pending}
      /\ pending' = [l \in Labels |-> IF l \in H THEN NoFlight ELSE pending[l]]
      /\ req' = req /\ flights' = flights
  BY Zenon DEF Complete
<1>2. \A l \in Pending : pending[l] \in 1 .. flights
  BY Zenon DEF FlightInv, Pending
<1>3. closed' \subseteq 1 .. flights'
  <2>1. closed \subseteq 1 .. flights
    BY DEF FlightInv
  <2>2. {pending[l] : l \in H \cap Pending} \subseteq 1 .. flights
    BY <1>2
  <2>3. QED
    BY <1>1, <2>1, <2>2, Zenon
<1>4. \A k, l \in Pending : pending[k] = pending[l] => k = l
  BY DEF FlightInv, Pending
<1>5. ASSUME NEW k \in Labels, pending'[k] # NoFlight
      PROVE  /\ pending'[k] \notin closed'
             /\ \E s \in Clients : /\ Leads(req'[s]) /\ req'[s].flight = pending'[k]
                                   /\ req'[s].label = k
  <2>1. k \notin H /\ pending'[k] = pending[k] /\ k \in Pending
    BY <1>1, <1>5 DEF Pending
  <2>2. pending[k] \notin closed'
    BY <1>1, <1>4, <2>1 DEF FlightInv, Pending
  <2>3. QED
    BY <1>1, <2>1, <2>2, Zenon DEF FlightInv, Pending
<1>6. ASSUME NEW s \in Clients, req'[s].at = "wait", Leads(req'[s]), req'[s].flight \notin closed'
      PROVE  pending'[req'[s].label] = req'[s].flight
  <2>1. pending[req[s].label] = req[s].flight /\ req[s].flight \in 1 .. flights
    BY <1>1, <1>6, Zenon DEF FlightInv
  <2>2. req[s].label \in Labels
    BY <1>1, <1>6, ActiveReq, Zenon DEF ReqType
  <2>3. req[s].label \in Pending
    BY <2>1, <2>2 DEF Pending, NoFlight, ReqInv
  <2>4. req[s].label \notin H
    BY <1>1, <1>6, <2>1, <2>3
  <2>5. QED
    BY <1>1, <2>1, <2>2, <2>4, Zenon
<1>7. QED
  BY <1>1, <1>3, <1>5, <1>6, Zenon DEF FlightInv

\* Every step keeps the table of flights and its leaders in agreement.
LEMMA FlightInvNext == ReqInv /\ FlightInv /\ [Next]_vars => FlightInv'
<1> SUFFICES ASSUME ReqInv, FlightInv, [Next]_vars PROVE FlightInv'
  OBVIOUS
<1>1. req \in [Clients -> Req]
  BY DEF ReqInv
<1>2. ASSUME UNCHANGED <<req, pending, closed, flights>> PROVE FlightInv'
  BY <1>2 DEF FlightInv, Leads
<1>3. ASSUME NEW r \in Clients, NEW l \in Labels, Arrive(r, l) PROVE FlightInv'
  <2> DEFINE x == [at |-> "lookup", label |-> l, now |-> 0, flight |-> NoFlight, leads |-> FALSE,
                   until |-> 0]
  <2>1. ~Leads(req[r]) /\ ~Leads(x) /\ x.at # "clean" /\ UNCHANGED <<pending, closed, flights>>
    BY <1>3, Zenon DEF Arrive, At, Leads, odVars
  <2>2. CASE req' = [req EXCEPT ![r] = x]
    BY <1>1, <2>1, <2>2, FollowerStep, Zenon
  <2>3. CASE req' = req
    BY <1>2, <2>1, <2>3, Zenon
  <2>4. QED
    BY <1>3, <2>2, <2>3 DEF Arrive
<1>4. ASSUME NEW r \in Clients, Lookup(r) PROVE FlightInv'
  <2> DEFINE x == IF req[r].label \in view THEN IdleReq ELSE [req[r] EXCEPT !.at = "slot"]
  <2>1. req[r] \in ReqType /\ ~Leads(req[r])
    BY <1>4, ActiveReq DEF Lookup, At, Leads
  <2>2. ~Leads(x) /\ x.at # "clean"
    BY <2>1 DEF Leads, ReqType, IdleReq
  <2>3. req' = [req EXCEPT ![r] = x] /\ UNCHANGED <<pending, closed, flights>>
    BY <1>4 DEF Lookup, At, odVars
  <2>4. QED
    BY <1>1, <2>1, <2>2, <2>3, FollowerStep, Zenon
<1>5. ASSUME NEW r \in Clients, TakeSlot(r) PROVE FlightInv'
  <2> DEFINE x == IF odSem < ODWaiters THEN [req[r] EXCEPT !.at = "solicit", !.now = clock]
               ELSE [req[r] EXCEPT !.at = "again"]
  <2>1. req[r] \in ReqType /\ ~Leads(req[r])
    BY <1>5, ActiveReq DEF TakeSlot, At, Leads
  <2>2. ~Leads(x) /\ x.at # "clean"
    BY <2>1 DEF Leads, ReqType, IdleReq
  <2>3. req' = [req EXCEPT ![r] = x] /\ UNCHANGED <<pending, closed, flights>>
    BY <1>5, Zenon DEF TakeSlot, At, odVars
  <2>4. QED
    BY <1>1, <2>1, <2>2, <2>3, FollowerStep, Zenon
<1>6. ASSUME NEW r \in Clients, Again(r) PROVE FlightInv'
  <2> DEFINE x == IdleReq
  <2>1. req[r] \in ReqType /\ ~Leads(req[r])
    BY <1>6, ActiveReq DEF Again, At, Leads
  <2>2. ~Leads(x) /\ x.at # "clean"
    BY <2>1 DEF Leads, ReqType, IdleReq
  <2>3. req' = [req EXCEPT ![r] = x] /\ UNCHANGED <<pending, closed, flights>>
    BY <1>6 DEF Again, At, odVars
  <2>4. QED
    BY <1>1, <2>1, <2>2, <2>3, FollowerStep, Zenon
<1>7. ASSUME NEW r \in Clients, Join(r) PROVE FlightInv'
  <2> DEFINE x == [req[r] EXCEPT !.at = "wait", !.flight = pending[req[r].label], !.leads = FALSE,
                           !.until = Smaller(clock + Wait, MaxTime)]
  <2>1. req[r] \in ReqType /\ ~Leads(req[r])
    BY <1>7, ActiveReq DEF Join, Waiting, At, Leads
  <2>2. ~Leads(x) /\ x.at # "clean"
    BY <2>1 DEF Leads, ReqType, IdleReq
  <2>3. req' = [req EXCEPT ![r] = x] /\ UNCHANGED <<pending, closed, flights>>
    BY <1>7, Zenon DEF Join, Waiting, At, odVars
  <2>4. QED
    BY <1>1, <2>1, <2>2, <2>3, FollowerStep, Zenon
<1>8. ASSUME NEW r \in Clients, Suppressed(r) PROVE FlightInv'
  <2> DEFINE x == [req[r] EXCEPT !.at = "again"]
  <2>1. req[r] \in ReqType /\ ~Leads(req[r])
    BY <1>8, ActiveReq DEF Suppressed, Return, At, Leads
  <2>2. ~Leads(x) /\ x.at # "clean"
    BY <2>1 DEF Leads, ReqType, IdleReq
  <2>3. req' = [req EXCEPT ![r] = x] /\ UNCHANGED <<pending, closed, flights>>
    BY <1>8 DEF Suppressed, Return, At, odVars
  <2>4. QED
    BY <1>1, <2>1, <2>2, <2>3, FollowerStep, Zenon
<1>9. ASSUME NEW r \in Clients, Limited(r) PROVE FlightInv'
  <2> DEFINE x == [req[r] EXCEPT !.at = "again"]
  <2>1. req[r] \in ReqType /\ ~Leads(req[r])
    BY <1>9, ActiveReq DEF Limited, MayLead, Return, At, Leads
  <2>2. ~Leads(x) /\ x.at # "clean"
    BY <2>1 DEF Leads, ReqType, IdleReq
  <2>3. req' = [req EXCEPT ![r] = x] /\ UNCHANGED <<pending, closed, flights>>
    BY <1>9 DEF Limited, MayLead, Return, At, odVars
  <2>4. QED
    BY <1>1, <2>1, <2>2, <2>3, FollowerStep, Zenon
<1>10. ASSUME NEW r \in Clients, Wake(r) \/ Timeout(r) \/ Cancel(r) PROVE FlightInv'
  <2>1. /\ req[r] \in ReqType /\ req[r].at = "wait" /\ EndWait(r)
        /\ UNCHANGED <<pending, closed, flights>>
    BY <1>10, ActiveReq, Zenon DEF Wake, Timeout, Cancel, At, odVars
  <2>2. CASE req[r].leads
    <3>1. Leads(req[r]) /\ req' = [req EXCEPT ![r] = [req[r] EXCEPT !.at = "clean"]]
      BY <2>1, <2>2 DEF EndWait, Leads
    <3>2. QED
      BY <1>1, <2>1, <3>1, LeaderWakes, Zenon
  <2>3. CASE ~req[r].leads
    <3> DEFINE x == [req[r] EXCEPT !.at = "again"]
    <3>1. ~Leads(req[r]) /\ req' = [req EXCEPT ![r] = x]
      BY <2>1, <2>3 DEF EndWait, Return, Leads
    <3>2. ~Leads(x) /\ x.at # "clean"
      BY <2>1 DEF Leads, ReqType
    <3>3. QED
      BY <1>1, <2>1, <3>1, <3>2, FollowerStep, Zenon
  <2>4. QED
    BY <2>2, <2>3
<1>11. ASSUME NEW r \in Clients, Lead(r) \/ Clean(r) PROVE FlightInv'
  BY <1>11, LeadStep, CleanStep
<1>12. ASSUME NEW f \in Feeds, NEW l \in Labels, Learn(f, l) \/ Forget(f, l) PROVE FlightInv'
  BY <1>2, <1>12, Zenon DEF Learn, Forget, odVars
<1>13. ASSUME NEW f \in Feeds, Build(f) \/ Store(f) PROVE FlightInv'
  BY <1>2, <1>13 DEF Build, Store, odVars
<1>14. ASSUME NEW f \in Feeds, Complete(f) PROVE FlightInv'
  BY <1>14, CompleteStep
<1>15. CASE Tick \/ Terminating \/ UNCHANGED vars
  BY <1>2, <1>15 DEF Tick, Terminating, vars, odVars
<1>16. QED
  BY <1>3, <1>4, <1>5, <1>6, <1>7, <1>8, <1>9, <1>10, <1>11, <1>12, <1>13, <1>14, <1>15 DEF Next

\* For any number of queries and packets, each flight in odPending is open and has a
\* leader that will remove it.
THEOREM FlightsOwnedHolds == Spec => []FlightsOwned
<1>1. Init => ReqInv /\ FlightInv
  BY ReqInvInit, FlightInvInit
<1>2. ReqInv /\ FlightInv /\ [Next]_vars => ReqInv' /\ FlightInv'
  BY ReqInvNext, FlightInvNext
<1>3. FlightInv => FlightsOwned
  BY FlightInvImplies
<1>4. QED
  BY <1>1, <1>2, <1>3, PTL DEF Spec

\* For any number of queries and packets, a leader that waits can be woken: no clean-up
\* and no completion of another flight takes its flight out of odPending.
THEOREM NoLostWakeHolds == Spec => []NoLostWake
<1>1. Init => ReqInv /\ FlightInv
  BY ReqInvInit, FlightInvInit
<1>2. ReqInv /\ FlightInv /\ [Next]_vars => ReqInv' /\ FlightInv'
  BY ReqInvNext, FlightInvNext
<1>3. FlightInv => NoLostWake
  BY FlightInvImplies
<1>4. QED
  BY <1>1, <1>2, <1>3, PTL DEF Spec

----------------------------------------------------------------------------
(* The limiters' slots and the bounds of the tables.                       *)

Waits == {"solicit", "wait", "clean"}
InLookup == {r \in Clients : At(r, "lookup")}
InWait == {r \in Clients : req[r].at \in Waits}

\* Both semaphores count the requests in their sections.
SemInv ==
    /\ IsFiniteSet(InLookup) /\ sem = Cardinality(InLookup)
    /\ IsFiniteSet(InWait) /\ odSem = Cardinality(InWait)

\* The tables are finite and within their bounds.
TableInv ==
    /\ recent = [l \in Labels |-> recent[l]] /\ clients = [c \in Clients |-> clients[c]]
    /\ IsFiniteSet(Pending) /\ Cardinality(Pending) <= InflightCap
    /\ IsFiniteSet(Recent) /\ Cardinality(Recent) <= TableCap
    /\ IsFiniteSet(Tabled) /\ Cardinality(Tabled) <= TableCap + 1

\* A request moves, and each semaphore follows it in or out of its section.
LEMMA SemMove ==
    ASSUME ReqInv, SemInv, NEW r \in Clients, NEW x, req' = [req EXCEPT ![r] = x],
           \/ (x.at = "lookup" <=> At(r, "lookup")) /\ sem' = sem
           \/ x.at = "lookup" /\ ~At(r, "lookup") /\ sem' = sem + 1
           \/ x.at # "lookup" /\ At(r, "lookup") /\ sem' = sem - 1,
           \/ (x.at \in Waits <=> req[r].at \in Waits) /\ odSem' = odSem
           \/ x.at \in Waits /\ req[r].at \notin Waits /\ odSem' = odSem + 1
           \/ x.at \notin Waits /\ req[r].at \in Waits /\ odSem' = odSem - 1
    PROVE  SemInv'
<1>1. \A c \in Clients : req'[c] = IF c = r THEN x ELSE req[c]
  BY DEF ReqInv
<1>2. InLookup' = IF x.at = "lookup" THEN InLookup \cup {r} ELSE InLookup \ {r}
  BY <1>1 DEF InLookup, At
<1>3. InWait' = IF x.at \in Waits THEN InWait \cup {r} ELSE InWait \ {r}
  BY <1>1 DEF InWait
<1>4. /\ r \in InLookup <=> At(r, "lookup")
      /\ r \in InWait <=> req[r].at \in Waits
  BY DEF InLookup, InWait
<1>5. Cardinality(InLookup) \in Nat /\ Cardinality(InWait) \in Nat
  BY FS_CardinalityType DEF SemInv
<1>6. IsFiniteSet(InLookup') /\ sem' = Cardinality(InLookup')
  BY <1>2, <1>4, <1>5, FS_AddElement, FS_RemoveElement DEF SemInv
<1>7. IsFiniteSet(InWait') /\ odSem' = Cardinality(InWait')
  BY <1>3, <1>4, <1>5, FS_AddElement, FS_RemoveElement DEF SemInv
<1> QED
  BY <1>6, <1>7 DEF SemInv

\* Every path through ServeDNS and Resolve takes and releases each slot once.
LEMMA SemInvNext == ReqInv /\ SemInv /\ [Next]_vars => SemInv'
<1> SUFFICES ASSUME ReqInv, SemInv, [Next]_vars PROVE SemInv'
  OBVIOUS
<1>0. ASSUME UNCHANGED <<req, sem, odSem>> PROVE SemInv'
  BY <1>0 DEF SemInv, InLookup, InWait, At
<1>1. ASSUME NEW r \in Clients, NEW l \in Labels, Arrive(r, l) PROVE SemInv'
  <2> DEFINE x == [at |-> "lookup", label |-> l, now |-> 0, flight |-> NoFlight, leads |-> FALSE,
                   until |-> 0]
  <2>1. CASE sem < MaxInflight
    BY <1>1, <2>1, SemMove DEF Arrive, At, Waits
  <2> QED
    BY <1>0, <1>1, <2>1 DEF Arrive
<1>2. ASSUME NEW r \in Clients, Lookup(r) PROVE SemInv'
  <2> DEFINE x == IF req[r].label \in view THEN IdleReq ELSE [req[r] EXCEPT !.at = "slot"]
  <2>1. x.at \in {"idle", "slot"}
    BY <1>2, ActiveReq DEF Lookup, At, ReqType, IdleReq
  <2>2. req' = [req EXCEPT ![r] = x]
    BY <1>2 DEF Lookup
  <2> HIDE DEF x
  <2> QED
    BY <1>2, <2>1, <2>2, SemMove DEF Lookup, At, Waits
<1>3. ASSUME NEW r \in Clients, TakeSlot(r) PROVE SemInv'
  <2>1. req[r] \in ReqType
    BY <1>3, ActiveReq DEF TakeSlot, At
  <2>2. CASE odSem < ODWaiters
    <3> DEFINE x == [req[r] EXCEPT !.at = "solicit", !.now = clock]
    <3>1. x.at = "solicit" /\ req' = [req EXCEPT ![r] = x]
      BY <1>3, <2>1, <2>2 DEF TakeSlot, ReqType, ReqInv
    <3> HIDE DEF x
    <3> QED
      BY <1>3, <2>2, <3>1, SemMove DEF TakeSlot, At, Waits
  <2>3. CASE ~(odSem < ODWaiters)
    <3> DEFINE x == [req[r] EXCEPT !.at = "again"]
    <3>1. x.at = "again" /\ req' = [req EXCEPT ![r] = x]
      BY <1>3, <2>1, <2>3 DEF TakeSlot, ReqType, ReqInv
    <3> HIDE DEF x
    <3> QED
      BY <1>3, <2>3, <3>1, SemMove DEF TakeSlot, At, Waits
  <2> QED
    BY <2>2, <2>3
<1>4. ASSUME NEW r \in Clients, Again(r) PROVE SemInv'
  BY <1>4, SemMove DEF Again, At, Waits, IdleReq
<1>5. ASSUME NEW r \in Clients, NEW fl, NEW leads, At(r, "solicit"), Waiting(r, fl, leads),
             UNCHANGED <<sem, odSem>>
      PROVE  SemInv'
  <2> DEFINE x == [req[r] EXCEPT !.at = "wait", !.flight = fl, !.leads = leads,
                                 !.until = Smaller(clock + Wait, MaxTime)]
  <2>1. req[r] \in ReqType
    BY <1>5, ActiveReq DEF At
  <2>2. x.at = "wait" /\ req' = [req EXCEPT ![r] = x]
    BY <1>5, <2>1 DEF Waiting, ReqType, ReqInv
  <2> HIDE DEF x
  <2> QED
    BY <1>5, <2>2, SemMove DEF At, Waits
<1>6. ASSUME NEW r \in Clients, req[r].at \in Waits, Return(r), UNCHANGED sem PROVE SemInv'
  <2> DEFINE x == [req[r] EXCEPT !.at = "again"]
  <2>1. req[r] \in ReqType
    BY <1>6, ActiveReq DEF Waits
  <2>2. x.at = "again" /\ req' = [req EXCEPT ![r] = x]
    BY <1>6, <2>1 DEF Return, ReqType, ReqInv
  <2> HIDE DEF x
  <2> QED
    BY <1>6, <2>2, SemMove DEF Return, At, Waits
<1>7. ASSUME NEW r \in Clients, At(r, "wait"), EndWait(r), UNCHANGED sem PROVE SemInv'
  <2>1. CASE req[r].leads
    <3> DEFINE x == [req[r] EXCEPT !.at = "clean"]
    <3>1. req[r] \in ReqType
      BY <1>7, ActiveReq DEF At
    <3>2. x.at = "clean" /\ req' = [req EXCEPT ![r] = x]
      BY <1>7, <2>1, <3>1 DEF EndWait, ReqType, ReqInv
    <3> HIDE DEF x
    <3> QED
      BY <1>7, <2>1, <3>2, SemMove DEF EndWait, At, Waits
  <2>2. CASE ~req[r].leads
    BY <1>6, <1>7, <2>2 DEF EndWait, At, Waits
  <2> QED
    BY <2>1, <2>2
<1>8. ASSUME NEW r \in Clients, Join(r) \/ Lead(r) PROVE SemInv'
  BY <1>5, <1>8 DEF Join, Lead, MayLead
<1>9. ASSUME NEW r \in Clients, Suppressed(r) \/ Limited(r) \/ Clean(r) PROVE SemInv'
  BY <1>6, <1>9 DEF Suppressed, Limited, Clean, MayLead, At, Waits
<1>10. ASSUME NEW r \in Clients, Wake(r) \/ Timeout(r) \/ Cancel(r) PROVE SemInv'
  BY <1>7, <1>10 DEF Wake, Timeout, Cancel
<1>11. ASSUME NEW f \in Feeds, NEW l \in Labels, Learn(f, l) \/ Forget(f, l) PROVE SemInv'
  BY <1>0, <1>11 DEF Learn, Forget
<1>12. ASSUME NEW f \in Feeds, Build(f) \/ Store(f) \/ Complete(f) PROVE SemInv'
  BY <1>0, <1>12 DEF Build, Store, Complete
<1>13. CASE Tick \/ Terminating \/ UNCHANGED vars
  BY <1>0, <1>13 DEF Tick, Terminating, vars
<1> QED
  BY <1>1, <1>2, <1>3, <1>4, <1>8, <1>9, <1>10, <1>11, <1>12, <1>13 DEF Next

\* odClientAllow: at most TableCap buckets are left before the client's own is charged.
LEMMA TabledBound ==
    ASSUME TableInv, NEW r \in Clients, NEW now, NEW table \in Trimmed(now), ChargeClient(r, table)
    PROVE  /\ clients' = [c \in Clients |-> clients'[c]]
           /\ IsFiniteSet(Tabled') /\ Cardinality(Tabled') <= TableCap + 1
<1> DEFINE busy == {c \in Tabled : clients[c].last >= now - Suppress}
           keep == IF Cardinality(Tabled) <= TableCap THEN {Tabled}
                   ELSE IF Cardinality(busy) <= TableCap THEN {busy}
                   ELSE {S \in SUBSET busy : Cardinality(S) = TableCap}
<1>1. PICK S \in keep : table = [c \in Clients |-> IF c \in S THEN clients[c] ELSE NoBucket]
  BY Zenon DEF Trimmed
<1>2. S \subseteq Tabled /\ Cardinality(S) <= TableCap
  <2>1. TableCap <= TableCap
    BY OnDemandAssumption
  <2> QED
    BY <2>1
<1> HIDE DEF keep
<1>3. IsFiniteSet(S) /\ Cardinality(S) \in Nat
  BY <1>2, FS_Subset, FS_CardinalityType DEF TableInv
<1>4. /\ clients' = [c \in Clients |-> clients'[c]]
      /\ \A c \in Clients \ {r} : clients'[c] = table[c]
  BY <1>1 DEF ChargeClient
<1>5. Tabled' \subseteq S \cup {r}
  BY <1>1, <1>4 DEF Tabled
<1>6. /\ IsFiniteSet(S \cup {r})
      /\ Cardinality(S \cup {r}) <= TableCap + 1 /\ Cardinality(S \cup {r}) \in Nat
  <2>1. /\ IsFiniteSet(S \cup {r})
        /\ Cardinality(S \cup {r}) = Cardinality(S) \/ Cardinality(S \cup {r}) = Cardinality(S) + 1
    BY <1>3, FS_AddElement
  <2>2. TableCap \in Nat
    BY OnDemandAssumption
  <2> QED
    BY <1>2, <1>3, <2>1, <2>2
<1>7. /\ IsFiniteSet(Tabled') /\ Cardinality(Tabled') <= Cardinality(S \cup {r})
      /\ Cardinality(Tabled') \in Nat
  BY <1>5, <1>6, FS_Subset, FS_CardinalityType
<1> QED
  BY <1>4, <1>6, <1>7, OnDemandAssumption

\* odBoundRecent leaves at most TableCap labels.
LEMMA RecentBound ==
    ASSUME TableInv, NEW l \in Labels, NEW now, recent' = BoundedRecent(l, now)
    PROVE  /\ recent' = [k \in Labels |-> recent'[k]]
           /\ IsFiniteSet(Recent') /\ Cardinality(Recent') <= TableCap
<1> DEFINE all == [recent EXCEPT ![l] = now]
           young == [k \in Labels |-> IF all[k] < clock - Suppress THEN Unset ELSE all[k]]
           Set(t) == {k \in Labels : t[k] # Unset}
<1>1. /\ all = [k \in Labels |-> all[k]]
      /\ \A k \in Labels : all[k] = IF k = l THEN now ELSE recent[k]
  BY DEF TableInv
<1>2. Set(all) \subseteq Recent \cup {l} /\ Set(young) \subseteq Recent \cup {l}
  BY <1>1 DEF Recent
<1>3. IsFiniteSet(Recent \cup {l})
  BY FS_AddElement DEF TableInv
<1>4. IsFiniteSet(Set(all)) /\ IsFiniteSet(Set(young))
  BY <1>2, <1>3, FS_Subset
<1>5. Recent' = Set(recent')
  BY DEF Recent
<1>6. CASE Cardinality(Set(all)) <= TableCap
  <2>1. recent' = all
    BY <1>6 DEF BoundedRecent
  <2> QED
    BY <1>1, <1>4, <1>5, <1>6, <2>1
<1>7. CASE ~(Cardinality(Set(all)) <= TableCap) /\ Cardinality(Set(young)) <= TableCap
  <2>1. recent' = young
    BY <1>7 DEF BoundedRecent
  <2> QED
    BY <1>4, <1>5, <1>7, <2>1
<1>8. CASE ~(Cardinality(Set(all)) <= TableCap) /\ ~(Cardinality(Set(young)) <= TableCap)
  <2>1. recent' = [k \in Labels |-> Unset]
    BY <1>8 DEF BoundedRecent
  <2>2. Recent' = {}
    BY <1>5, <2>1
  <2> QED
    BY <2>1, <2>2, FS_EmptySet, OnDemandAssumption
<1> QED
  BY <1>6, <1>7, <1>8

\* Flights leave odPending when they complete or are cleaned up.
LEMMA PendingShrinks ==
    ASSUME TableInv, Pending' \subseteq Pending
    PROVE  IsFiniteSet(Pending') /\ Cardinality(Pending') <= InflightCap
<1>1. /\ IsFiniteSet(Pending') /\ Cardinality(Pending') <= Cardinality(Pending)
      /\ Cardinality(Pending') \in Nat /\ Cardinality(Pending) \in Nat
  BY FS_Subset, FS_CardinalityType DEF TableInv
<1> QED
  BY <1>1, OnDemandAssumption DEF TableInv

\* No step of Resolve or completeInflight takes a table past its bound.
LEMMA TableInvNext == ReqInv /\ TableInv /\ [Next]_vars => TableInv'
<1> SUFFICES ASSUME ReqInv, TableInv, [Next]_vars PROVE TableInv'
  OBVIOUS
<1>0. ASSUME UNCHANGED <<pending, recent, clients>> PROVE TableInv'
  BY <1>0 DEF TableInv, Pending, Recent, Tabled
<1>1. ASSUME UNCHANGED <<recent, clients>>, Pending' \subseteq Pending PROVE TableInv'
  BY <1>1, PendingShrinks DEF TableInv, Recent, Tabled
<1>2. ASSUME NEW r \in Clients, Limited(r) PROVE TableInv'
  <2>1. UNCHANGED <<pending, recent>> /\ Pending' = Pending /\ Recent' = Recent
    BY <1>2 DEF Limited, Pending, Recent
  <2>2. CASE UNCHANGED clients
    BY <1>0, <2>1, <2>2
  <2>3. ASSUME NEW table \in Trimmed(req[r].now), ChargeClient(r, table) PROVE TableInv'
    BY <2>1, <2>3, TabledBound DEF TableInv
  <2> QED
    BY <1>2, <2>2, <2>3 DEF Limited
<1>3. ASSUME NEW r \in Clients, Lead(r) PROVE TableInv'
  <2> DEFINE l == req[r].label
  <2>1. l \in Labels /\ flights + 1 # NoFlight
    BY <1>3, ActiveReq DEF Lead, MayLead, At, ReqType, ReqInv, NoFlight
  <2>2. PICK table \in Trimmed(req[r].now) : ChargeClient(r, table)
    BY <1>3 DEF Lead
  <2>3. recent' = BoundedRecent(l, req[r].now)
    BY <1>3 DEF Lead
  <2>4. Pending' = Pending \cup {l} /\ l \notin Pending /\ Cardinality(Pending) < InflightCap
    BY <1>3, <2>1 DEF Lead, MayLead, Pending, ReqInv
  <2> HIDE DEF l
  <2>5. Cardinality(Pending) \in Nat
    BY FS_CardinalityType DEF TableInv
  <2>6. IsFiniteSet(Pending') /\ Cardinality(Pending') <= InflightCap
    <3>1. /\ IsFiniteSet(Pending \cup {l})
          /\ Cardinality(Pending \cup {l}) = Cardinality(Pending) + 1
      BY <2>4, FS_AddElement DEF TableInv
    <3>2. InflightCap \in Nat
      BY OnDemandAssumption
    <3> QED
      BY <2>4, <2>5, <3>1, <3>2
  <2> QED
    BY <2>1, <2>2, <2>3, <2>6, TabledBound, RecentBound DEF TableInv
<1>4. ASSUME NEW r \in Clients, Clean(r) PROVE TableInv'
  BY <1>1, <1>4 DEF Clean, Pending, ReqInv
<1>5. ASSUME NEW f \in Feeds, Complete(f) PROVE TableInv'
  BY <1>1, <1>5 DEF Complete, Pending
<1>6. ASSUME NEW r \in Clients, NEW l \in Labels, Arrive(r, l) PROVE TableInv'
  BY <1>0, <1>6 DEF Arrive, odVars
<1>7. ASSUME NEW r \in Clients,
             Lookup(r) \/ TakeSlot(r) \/ Join(r) \/ Suppressed(r) \/ Wake(r) \/ Timeout(r)
             \/ Cancel(r) \/ Again(r)
      PROVE  TableInv'
  BY <1>0, <1>7 DEF Lookup, TakeSlot, Join, Suppressed, Wake, Timeout, Cancel, Again, odVars
<1>8. ASSUME NEW f \in Feeds, NEW l \in Labels, Learn(f, l) \/ Forget(f, l) PROVE TableInv'
  BY <1>0, <1>8 DEF Learn, Forget, odVars
<1>9. ASSUME NEW f \in Feeds, Build(f) \/ Store(f) PROVE TableInv'
  BY <1>0, <1>9 DEF Build, Store, odVars
<1>10. CASE Tick \/ Terminating \/ UNCHANGED vars
  BY <1>0, <1>10 DEF Tick, Terminating, vars, odVars
<1> QED
  BY <1>2, <1>3, <1>4, <1>5, <1>6, <1>7, <1>8, <1>9, <1>10 DEF Next

\* The daemon starts with free slots and empty tables.
LEMMA SlotsInit == Init => SemInv /\ TableInv
<1> SUFFICES ASSUME Init PROVE SemInv /\ TableInv
  OBVIOUS
<1>1. InLookup = {} /\ InWait = {} /\ sem = 0 /\ odSem = 0
  BY DEF Init, InLookup, InWait, At, Waits, IdleReq
<1>2. Pending = {} /\ Recent = {} /\ Tabled = {}
  BY DEF Init, Pending, Recent, Tabled
<1>3. recent = [l \in Labels |-> recent[l]] /\ clients = [c \in Clients |-> clients[c]]
  BY DEF Init
<1> QED
  BY <1>1, <1>2, <1>3, FS_EmptySet, OnDemandAssumption DEF SemInv, TableInv

\* For any number of clients and labels, no path through ServeDNS and Resolve leaks a
\* limiter's slot or releases one twice, and the tables keep their bounds.
THEOREM SlotsBalancedHolds == Spec => []SlotsBalanced
<1>1. Init => ReqInv /\ SemInv /\ TableInv
  BY ReqInvInit, SlotsInit
<1>2. ReqInv /\ SemInv /\ TableInv /\ [Next]_vars => (ReqInv /\ SemInv /\ TableInv)'
  BY ReqInvNext, SemInvNext, TableInvNext
<1>3. SemInv /\ TableInv => SlotsBalanced
  BY DEF SemInv, TableInv, SlotsBalanced, InLookup, InWait, Waits
<1> QED
  BY <1>1, <1>2, <1>3, PTL DEF Spec
=============================================================================
