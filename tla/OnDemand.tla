------------------------------ MODULE OnDemand ------------------------------
(***************************************************************************)
(* A query for a local name that nobody has announced: the limiter and the *)
(* on-demand branch of Server.ServeDNS (internal/server/server.go) with    *)
(* Source.Resolve (internal/mdns/resolve.go), against packets that make    *)
(* hosts known and wake the waiters.                                       *)
(***************************************************************************)
EXTENDS Integers, FiniteSets

CONSTANTS
    Clients,        \* each with one query at a time
    Labels, Feeds,
    MaxInflight,    \* capacity of s.sem
    ODWaiters,      \* capacity of s.odSem
    InflightCap,    \* odInflightCap
    TableCap,       \* odTableCap
    Suppress,       \* odSuppressWindow
    Wait,           \* onDemandWait
    GlobalRate, GlobalBurst, ClientRate, ClientBurst,
    StopAt,         \* the instant when s.baseCtx is done
    MaxStarts,      \* bound: queries
    MaxNews,        \* bound: hosts that become known or expire
    MaxTime         \* bound: the last instant of the clock

ASSUME OnDemandAssumption ==
    /\ {MaxInflight, ODWaiters, InflightCap, TableCap} \subseteq Nat \ {0}
    /\ {Suppress, Wait, GlobalRate, ClientRate, StopAt, MaxStarts, MaxNews, MaxTime} \subseteq Nat
    /\ {GlobalBurst, ClientBurst} \subseteq Nat \ {0}

VARIABLES
    req,                \* the goroutine of each client's query
    sem, odSem,         \* slots in use
    pending,            \* s.odPending: the flight of each label
    closed,             \* flights whose channel is closed
    flights,            \* flights so far
    recent,             \* s.odRecent
    global, clients,    \* s.odGlobal, s.odClients
    known,              \* the labels in the mDNS cache
    view,               \* the labels in the published view
    feed,               \* HandlePacket and the ticker, from Apply on
    clock, starts, news

odVars == <<pending, closed, flights, recent, global, clients>>
feedVars == <<known, view, feed, news>>
vars == <<req, sem, odSem, odVars, feedVars, clock, starts>>

Unset == -1
NoFlight == 0
NoBucket == [tokens |-> 0, last |-> Unset]

IdleReq == [at |-> "idle"]
ReqAt == {"lookup", "slot", "solicit", "wait", "clean", "again"}
ReqType == [at : ReqAt, label : Labels, now : Nat,
            flight : Nat, leads : BOOLEAN, until : Nat]
IdleFeed == [at |-> "idle"]

Active == {r \in Clients : req[r].at # "idle"}
At(r, where) == req[r].at = where
Pending == {l \in Labels : pending[l] # NoFlight}
Recent == {l \in Labels : recent[l] # Unset}
Tabled == {c \in Clients : clients[c] # NoBucket}

Init ==
    /\ req = [r \in Clients |-> IdleReq] /\ sem = 0 /\ odSem = 0
    /\ pending = [l \in Labels |-> NoFlight] /\ closed = {} /\ flights = 0
    /\ recent = [l \in Labels |-> Unset]
    /\ global = NoBucket /\ clients = [c \in Clients |-> NoBucket]
    /\ known = {} /\ view = {} /\ feed = [f \in Feeds |-> IdleFeed]
    /\ clock = 0 /\ starts = 0 /\ news = 0

----------------------------------------------------------------------------
(* The token buckets and the tables of Resolve.                            *)

Smaller(m, n) == IF m < n THEN m ELSE n

\* odBucket.allow: the first use starts full.
Filled(b, now, rate, burst) ==
    IF b.last = Unset THEN burst ELSE Smaller(burst, b.tokens + (now - b.last) * rate)
BucketAllows(b, now, rate, burst) == Filled(b, now, rate, burst) >= 1

\* Mutant: the token is not taken.
AfterBucketFree(b, now, rate, burst) ==
    [tokens |-> Filled(b, now, rate, burst), last |-> now]

AfterBucket(b, now, rate, burst) ==
    [tokens |-> IF BucketAllows(b, now, rate, burst)
                THEN Filled(b, now, rate, burst) - 1 ELSE Filled(b, now, rate, burst),
     last |-> now]

\* odClientAllow: a full table loses its idle buckets, then any until it is in bounds.
Trimmed(now) ==
    LET busy == {c \in Tabled : clients[c].last >= now - Suppress}
        keep == IF Cardinality(Tabled) <= TableCap THEN {Tabled}
                ELSE IF Cardinality(busy) <= TableCap THEN {busy}
                ELSE {S \in SUBSET busy : Cardinality(S) = TableCap}
    IN {[c \in Clients |-> IF c \in S THEN clients[c] ELSE NoBucket] : S \in keep}

\* odBoundRecent, after l was recorded at now: the old ones go, then all.
BoundedRecent(l, now) ==
    LET all == [recent EXCEPT ![l] = now]
        size(t) == Cardinality({k \in Labels : t[k] # Unset})
        young == [k \in Labels |-> IF all[k] < clock - Suppress THEN Unset ELSE all[k]]
    IN IF size(all) <= TableCap THEN all
       ELSE IF size(young) <= TableCap THEN young
       ELSE [k \in Labels |-> Unset]

----------------------------------------------------------------------------
(* ServeDNS.                                                               *)

\* A query is dropped, or refused over TCP, when the limiter is full.
Arrive(r, l) ==
    /\ At(r, "idle") /\ starts < MaxStarts /\ starts' = starts + 1
    /\ IF sem < MaxInflight
       THEN /\ sem' = sem + 1
            /\ req' = [req EXCEPT ![r] =
                         [at |-> "lookup", label |-> l, now |-> 0, flight |-> NoFlight, leads |-> FALSE,
                          until |-> 0]]
       ELSE UNCHANGED <<sem, req>>
    /\ UNCHANGED <<odSem, odVars, feedVars, clock>>

\* The name is in the view and is answered, or the slot is given up for the wait.
Lookup(r) ==
    /\ At(r, "lookup") /\ sem' = sem - 1
    /\ req' = [req EXCEPT ![r] = IF req[r].label \in view THEN IdleReq ELSE [@ EXCEPT !.at = "slot"]]
    /\ UNCHANGED <<odSem, odVars, feedVars, clock, starts>>

\* A waiter's slot, and the time Resolve reads before it takes the lock.
TakeSlot(r) ==
    /\ At(r, "slot")
    /\ IF odSem < ODWaiters
       THEN odSem' = odSem + 1 /\ req' = [req EXCEPT ![r].at = "solicit", ![r].now = clock]
       ELSE odSem' = odSem /\ req' = [req EXCEPT ![r].at = "again"]
    /\ UNCHANGED <<sem, odVars, feedVars, clock, starts>>

\* Mutant: a miss is solicited again.
AgainRetries(r) ==
    /\ At(r, "again")
    /\ req' = [req EXCEPT ![r] = IF req[r].label \in view THEN IdleReq ELSE [@ EXCEPT !.at = "slot"]]
    /\ UNCHANGED <<sem, odSem, odVars, feedVars, clock, starts>>

\* The view is read again, whatever Resolve returned.
Again(r) ==
    /\ At(r, "again") /\ req' = [req EXCEPT ![r] = IdleReq]
    /\ UNCHANGED <<sem, odSem, odVars, feedVars, clock, starts>>

----------------------------------------------------------------------------
(* Resolve.                                                                *)

\* odWait starts its timer; the bound on the clock cuts the last waits short.
Waiting(r, fl, leads) ==
    req' = [req EXCEPT ![r].at = "wait", ![r].flight = fl, ![r].leads = leads,
                       ![r].until = Smaller(clock + Wait, MaxTime)]

\* Resolve returns, and the waiter's slot is released.
Return(r) == odSem' = odSem - 1 /\ req' = [req EXCEPT ![r].at = "again"]

Join(r) ==
    LET l == req[r].label IN
    /\ At(r, "solicit") /\ pending[l] # NoFlight
    /\ Waiting(r, pending[l], FALSE)
    /\ UNCHANGED <<sem, odSem, odVars, feedVars, clock, starts>>

IsRecent(l, now) == recent[l] # Unset /\ now - recent[l] < Suppress

\* Queried recently, or too many in flight.
Suppressed(r) ==
    LET l == req[r].label IN
    /\ At(r, "solicit") /\ pending[l] = NoFlight
    /\ IsRecent(l, req[r].now) \/ Cardinality(Pending) >= InflightCap
    /\ Return(r)
    /\ UNCHANGED <<sem, odVars, feedVars, clock, starts>>

MayLead(r) ==
    /\ At(r, "solicit") /\ pending[req[r].label] = NoFlight
    /\ ~IsRecent(req[r].label, req[r].now) /\ Cardinality(Pending) < InflightCap

\* The client's bucket is looked at only when the global one allows.  Every caller has
\* an address: ServeDNS takes it from a UDP or TCP connection.
GlobalAllows(r) == BucketAllows(global, req[r].now, GlobalRate, GlobalBurst)
Charge(r) == global' = AfterBucket(global, req[r].now, GlobalRate, GlobalBurst)
ChargeClient(r, table) ==
    clients' = [table EXCEPT ![r] = AfterBucket(@, req[r].now, ClientRate, ClientBurst)]

Limited(r) ==
    /\ MayLead(r) /\ Charge(r)
    /\ \/ ~GlobalAllows(r) /\ UNCHANGED clients
       \/ /\ GlobalAllows(r)
          /\ \E table \in Trimmed(req[r].now) :
                /\ ~BucketAllows(table[r], req[r].now, ClientRate, ClientBurst)
                /\ ChargeClient(r, table)
    /\ Return(r)
    /\ UNCHANGED <<sem, pending, closed, flights, recent, feedVars, clock, starts>>

\* A new flight: the query goes out once the lock is released.
Lead(r) ==
    /\ MayLead(r) /\ GlobalAllows(r) /\ Charge(r)
    /\ \E table \in Trimmed(req[r].now) :
          /\ BucketAllows(table[r], req[r].now, ClientRate, ClientBurst)
          /\ ChargeClient(r, table)
    /\ flights' = flights + 1
    /\ pending' = [pending EXCEPT ![req[r].label] = flights + 1]
    /\ recent' = BoundedRecent(req[r].label, req[r].now)
    /\ Waiting(r, flights + 1, TRUE)
    /\ UNCHANGED <<sem, odSem, closed, feedVars, clock, starts>>

\* Mutant: the slot of one that joined is not released.
EndWaitLeaks(r) ==
    /\ req' = [req EXCEPT ![r].at = IF req[r].leads THEN "clean" ELSE "again"]
    /\ odSem' = odSem

\* odWait ends: the leader has to clean up, others return.
EndWait(r) ==
    IF req[r].leads
    THEN req' = [req EXCEPT ![r].at = "clean"] /\ odSem' = odSem
    ELSE Return(r)

Wake(r) ==
    /\ At(r, "wait") /\ req[r].flight \in closed /\ EndWait(r)
    /\ UNCHANGED <<sem, odVars, feedVars, clock, starts>>

Timeout(r) ==
    /\ At(r, "wait") /\ clock >= req[r].until /\ EndWait(r)
    /\ UNCHANGED <<sem, odVars, feedVars, clock, starts>>

\* ctx.Done, of the context that ends when the daemon is told to stop; select may still
\* take another case.
Cancel(r) ==
    /\ At(r, "wait") /\ clock >= StopAt /\ EndWait(r)
    /\ UNCHANGED <<sem, odVars, feedVars, clock, starts>>

\* Mutant: whatever flight the label has by now is removed.
CleanAny(r) ==
    /\ At(r, "clean") /\ Return(r)
    /\ pending' = [pending EXCEPT ![req[r].label] = NoFlight]
    /\ UNCHANGED <<sem, closed, flights, recent, global, clients, feedVars, clock, starts>>

\* The flight is removed unless it is gone already.
Clean(r) ==
    /\ At(r, "clean") /\ Return(r)
    /\ pending' = [pending EXCEPT ![req[r].label] = IF @ = req[r].flight THEN NoFlight ELSE @]
    /\ UNCHANGED <<sem, closed, flights, recent, global, clients, feedVars, clock, starts>>

----------------------------------------------------------------------------
(* Packets: Apply, publish in two steps, completeInflight.                 *)

\* A packet with a new host, or with a change of one.
Learn(f, l) ==
    /\ feed[f].at = "idle" /\ news < MaxNews /\ news' = news + 1
    /\ known' = known \cup {l}
    /\ feed' = [feed EXCEPT ![f] = [at |-> "build", hosts |-> {l}, snap |-> {}]]
    /\ UNCHANGED <<req, sem, odSem, odVars, view, clock, starts>>

\* The ticker removes an expired host, publishes, and has nobody to wake.
Forget(f, l) ==
    /\ feed[f].at = "idle" /\ news < MaxNews /\ news' = news + 1 /\ l \in known
    /\ known' = known \ {l}
    /\ feed' = [feed EXCEPT ![f] = [at |-> "build", hosts |-> {}, snap |-> {}]]
    /\ UNCHANGED <<req, sem, odSem, odVars, view, clock, starts>>

Build(f) ==
    /\ feed[f].at = "build" /\ feed' = [feed EXCEPT ![f].at = "store", ![f].snap = known]
    /\ UNCHANGED <<req, sem, odSem, odVars, known, view, news, clock, starts>>

Store(f) ==
    /\ feed[f].at = "store" /\ feed' = [feed EXCEPT ![f].at = "complete"]
    /\ view' = feed[f].snap
    /\ UNCHANGED <<req, sem, odSem, odVars, known, news, clock, starts>>

Complete(f) ==
    /\ feed[f].at = "complete" /\ feed' = [feed EXCEPT ![f] = IdleFeed]
    /\ closed' = closed \cup {pending[l] : l \in feed[f].hosts \cap Pending}
    /\ pending' = [l \in Labels |-> IF l \in feed[f].hosts THEN NoFlight ELSE pending[l]]
    /\ UNCHANGED <<req, sem, odSem, flights, recent, global, clients, known, view, news, clock, starts>>

Tick ==
    /\ clock < MaxTime /\ clock' = clock + 1
    /\ UNCHANGED <<req, sem, odSem, odVars, feedVars, starts>>

\* The daemon idles.
Terminating ==
    /\ starts = MaxStarts /\ clock = MaxTime /\ news = MaxNews /\ Active = {}
    /\ \A f \in Feeds : feed[f] = IdleFeed
    /\ UNCHANGED vars

Serve(r) ==
    Lookup(r) \/ TakeSlot(r) \/ Join(r) \/ Suppressed(r) \/ Limited(r) \/ Lead(r)
    \/ Wake(r) \/ Timeout(r) \/ Cancel(r) \/ Clean(r) \/ Again(r)

Next ==
    \/ \E r \in Clients : \E l \in Labels : Arrive(r, l)
    \/ \E r \in Clients :
          Lookup(r) \/ TakeSlot(r) \/ Join(r) \/ Suppressed(r) \/ Limited(r) \/ Lead(r)
          \/ Wake(r) \/ Timeout(r) \/ Cancel(r) \/ Clean(r) \/ Again(r)
    \/ \E f \in Feeds : \E l \in Labels : Learn(f, l) \/ Forget(f, l)
    \/ \E f \in Feeds : Build(f) \/ Store(f) \/ Complete(f)
    \/ Tick \/ Terminating

Spec == Init /\ [][Next]_vars

\* Goroutines go on, and time passes, which the timer of odWait needs.
FairSpec == Spec /\ WF_vars(Tick) /\ \A r \in Clients : WF_vars(Serve(r))

----------------------------------------------------------------------------
(* Properties.                                                             *)

\* Both limiters count exactly the queries that are in their sections: a slot is
\* neither leaked nor released twice on any path through the on-demand branch.  The tables
\* keep their bounds too; odClients is trimmed before it grows by one.
SlotsBalanced ==
    /\ sem = Cardinality({r \in Clients : At(r, "lookup")})
    /\ odSem = Cardinality({r \in Clients : req[r].at \in {"solicit", "wait", "clean"}})
    /\ Cardinality(Pending) <= InflightCap /\ Cardinality(Recent) <= TableCap
    /\ Cardinality(Tabled) <= TableCap + 1

\* A flight in the table is open and its leader will remove it; so no entry is left
\* over to refuse later queries, and no channel is closed twice.
FlightsOwned ==
    \A l \in Pending :
       /\ pending[l] \notin closed
       /\ \E r \in Active : /\ req[r].at \in {"wait", "clean"} /\ req[r].leads
                            /\ req[r].flight = pending[l] /\ req[r].label = l

\* A waiter can be woken as long as its leader waits: clean-ups of earlier flights do
\* not take a later flight out of the table.
NoLostWake ==
    \A r \in Active : At(r, "wait") /\ req[r].leads /\ req[r].flight \notin closed
                         => pending[req[r].label] = req[r].flight

\* The queries sent stay within the global budget, whoever asks and whatever tables
\* were trimmed or reset.
OutboundBudget == flights <= GlobalBurst + clock * GlobalRate

\* Every query is answered or times out.
QueriesEnd == \A r \in Clients : At(r, "lookup") ~> At(r, "idle")
=============================================================================
