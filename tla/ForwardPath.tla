---------------------------- MODULE ForwardPath ----------------------------
(***************************************************************************)
(* The cached forward path of internal/server/server.go (forwardCached):   *)
(* concurrent requests look a key up in the answer cache, forward a miss   *)
(* or a stale hit upstream, store what comes back, serve stale when the    *)
(* upstream fails, and mark the failure when there is nothing to serve.    *)
(*                                                                         *)
(* Lookup, Store and StoreFail read the clock before they take the cache   *)
(* mutex, so each is two steps here.  Nothing is held while the upstream   *)
(* is asked.  A request for NoKey is one that may not be cached (an ANY    *)
(* query, another class, no cache): a plain forward.                       *)
(***************************************************************************)
EXTENDS AnswerCache, FiniteSets

CONSTANTS
    Requests,       \* goroutines inside forwardCached
    NoKey,          \* the key of an uncacheable request
    TTLs,           \* record TTLs the upstream uses
    Budget,         \* QueryBudget: a reply is at hand this long after asking
    MaxLag,         \* bound: wait between a clock reading and the mutex
    MaxStarts,      \* bound: requests in a behaviour
    MaxTime         \* bound: the last tick of the clock

ASSUME PathAssumption ==
    /\ NoKey \notin Keys
    /\ TTLs \subseteq RRTTL
    /\ Budget \in Nat /\ MaxLag \in Nat /\ MaxStarts \in Nat /\ MaxTime \in Nat

VARIABLES
    cache,      \* s.cfg.Cache
    clock,
    req,        \* the local state of each request
    starts

vars == <<cache, clock, req, starts>>

\* How a request ended: a fresh hit, a live or a stale answer, a cached failure,
\* or a SERVFAIL of its own.
Ends == {"Fresh", "Live", "Stale", "Fail", "Servfail"}

\* at: where the request is; now: its last clock reading; stale: the candidate
\* from the cache; reply: the entry made of the upstream's reply, or the entry
\* served; ttl: the TTL the client was given; end, endedAt: how and when it ended.
ReqType ==
    [at : {"idle", "lookup", "upstream", "reply", "put", "done"},
     key : Keys \cup {NoKey}, now : Nat,
     stale : Entry \cup {NoEntry}, reply : Entry \cup {NoEntry},
     ttl : RRTTL, end : Ends, endedAt : Nat]

TypeOK ==
    /\ cache \in CacheType
    /\ clock \in 0 .. MaxTime
    /\ req \in [Requests -> ReqType]
    /\ starts \in 0 .. MaxStarts

NoReq == [at |-> "idle", key |-> NoKey, now |-> 0, stale |-> NoEntry,
          reply |-> NoEntry, ttl |-> 0, end |-> "Servfail", endedAt |-> 0]

Init ==
    /\ cache = NewCache
    /\ clock = 0
    /\ req = [r \in Requests |-> NoReq]
    /\ starts = 0

----------------------------------------------------------------------------
\* r ended with entry e, giving the client TTL t.
Ended(r, end, e, t) ==
    [req[r] EXCEPT !.at = "done", !.end = end, !.endedAt = clock,
                   !.reply = e, !.ttl = t, !.stale = NoEntry]

\* A query arrives; Lookup reads the clock.  An uncacheable one skips the cache.
Start(r, k) ==
    /\ req[r].at \in {"idle", "done"}
    /\ starts < MaxStarts
    /\ starts' = starts + 1
    /\ req' = [req EXCEPT ![r] =
                 [NoReq EXCEPT !.at = IF k = NoKey THEN "upstream" ELSE "lookup",
                               !.key = k, !.now = clock]]
    /\ UNCHANGED <<cache, clock>>

\* Lookup under the mutex.  After a miss or a stale hit the upstream is asked:
\* now becomes the time the request's deadline counts from.
Lookup(r) ==
    /\ req[r].at = "lookup"
    /\ LET k == req[r].key
           now == req[r].now
           e == cache.m[k]
           v == Verdict(cache, k, now)
       IN  /\ cache' = AfterLookup(cache, k, now)
           /\ req' = [req EXCEPT ![r] =
                CASE v = "Fresh" -> Ended(r, "Fresh", e, DecrementTTL(e.rr, now - e.insertedAt))
                  [] v = "Fail"  -> Ended(r, "Fail", e, 0)
                  [] v = "Stale" -> [@ EXCEPT !.at = "upstream", !.now = clock, !.stale = e]
                  [] v = "Miss"  -> [@ EXCEPT !.at = "upstream", !.now = clock]]
    /\ UNCHANGED <<clock, starts>>

\* The upstream produces a reply with TTL t, or the exchange fails (kind "fail": a
\* transport error, the deadline, or an rcode that is not a real answer).
Upstream(r, kind, t) ==
    /\ req[r].at = "upstream"
    /\ req' = [req EXCEPT ![r].at = "reply",
                          ![r].reply = [kind |-> kind, insertedAt |-> clock,
                                        ttl |-> CacheTTL(kind, t), rr |-> t,
                                        asked |-> clock]]
    /\ UNCHANGED <<cache, clock, starts>>

\* Forward returned: what is to be stored gets its insertedAt.
ReadClock(r) ==
    [req[r] EXCEPT !.at = "put", !.now = clock, !.reply.insertedAt = clock]

\* A real answer that may be cached.
Receive(r) ==
    /\ req[r].at = "reply"
    /\ req[r].reply.kind # "fail"
    /\ req[r].key # NoKey
    /\ req' = [req EXCEPT ![r] = ReadClock(r)]
    /\ UNCHANGED <<cache, clock, starts>>

\* A real answer that is served but not stored: an uncacheable query, a truncated
\* reply, a negative one without an SOA in bailiwick.
ReceiveUncacheable(r) ==
    /\ req[r].at = "reply"
    /\ req[r].reply.kind # "fail"
    /\ req' = [req EXCEPT ![r] = Ended(r, "Live", req[r].reply, req[r].reply.rr)]
    /\ UNCHANGED <<cache, clock, starts>>

\* Mutant: a failed refresh of a stale answer is tried again and again.
ServeStaleRetries(r) ==
    /\ req[r].at = "reply"
    /\ req[r].reply.kind = "fail"
    /\ req[r].stale # NoEntry
    /\ req' = [req EXCEPT ![r].at = "upstream"]
    /\ UNCHANGED <<cache, clock, starts>>

\* The upstream failed: serve stale if there is a candidate, else mark the failure.
ServeStaleAnswer(r) ==
    /\ req[r].at = "reply"
    /\ req[r].reply.kind = "fail"
    /\ req[r].stale # NoEntry
    /\ req' = [req EXCEPT ![r] = Ended(r, "Stale", req[r].stale, StaleTTL)]
    /\ UNCHANGED <<cache, clock, starts>>

ReceiveFailure(r) ==
    /\ req[r].at = "reply"
    /\ req[r].reply.kind = "fail"
    /\ req[r].stale = NoEntry
    /\ req' = [req EXCEPT ![r] = IF req[r].key = NoKey
                                 THEN Ended(r, "Servfail", req[r].reply, 0)
                                 ELSE ReadClock(r)]
    /\ UNCHANGED <<cache, clock, starts>>

\* put under the mutex, then the answer goes out.
Store(r) ==
    /\ req[r].at = "put"
    /\ LET e == req[r].reply IN
       /\ cache' = Put(cache, req[r].key, e)
       /\ req' = [req EXCEPT ![r] = IF e.kind = "fail" THEN Ended(r, "Servfail", e, 0)
                                                       ELSE Ended(r, "Live", e, e.rr)]
    /\ UNCHANGED <<clock, starts>>

\* The operator flushes the cache.
FlushCache ==
    /\ cache # NewCache
    /\ cache' = Flush(cache)
    /\ UNCHANGED <<clock, req, starts>>

\* Time passes, but not past the deadline of an exchange, nor past MaxLag in a
\* request that is waiting for the mutex.
MayTick(r) ==
    CASE req[r].at \in {"upstream", "reply"} -> clock < req[r].now + Budget
      [] req[r].at \in {"lookup", "put"}     -> clock < req[r].now + MaxLag
      [] OTHER                               -> TRUE

Tick ==
    /\ clock < MaxTime
    /\ \A r \in Requests : MayTick(r)
    /\ clock' = clock + 1
    /\ UNCHANGED <<cache, req, starts>>

\* The bounds are used up and every request has ended.
Terminating ==
    /\ starts = MaxStarts
    /\ \A r \in Requests : req[r].at \in {"idle", "done"}
    /\ UNCHANGED vars

Step(r) ==
    \/ Lookup(r)
    \/ \E kind \in {"pos", "neg", "fail"} : \E t \in TTLs : Upstream(r, kind, t)
    \/ Receive(r)
    \/ ReceiveUncacheable(r)
    \/ ServeStaleAnswer(r)
    \/ ReceiveFailure(r)
    \/ Store(r)

Next ==
    \/ \E r \in Requests : \E k \in Keys \cup {NoKey} : Start(r, k)
    \/ \E r \in Requests : Step(r)
    \/ FlushCache
    \/ Tick
    \/ Terminating

Spec == Init /\ [][Next]_vars

\* Goroutines keep running; the deadline ends every exchange.
FairSpec == Spec /\ \A r \in Requests : WF_vars(Step(r))

----------------------------------------------------------------------------
(* Properties.                                                             *)

\* The recency list and the map hold the same keys, each once, within capacity,
\* whatever the order of lookups, replacements, evictions and removals.
ListMatchesMap == WellFormed(cache)

\* How old an answer of each kind may be when it goes out, counted from the moment
\* the upstream produced it: the clamped lifetime, plus the stale window for a
\* stale answer, plus the time an exchange and the waits for the mutex take.
AgeBound(end, e) ==
    CASE end = "Fresh" -> e.ttl + Budget + MaxLag
      [] end = "Fail"  -> FailTTL + Budget + MaxLag
      [] end = "Stale" -> e.ttl + StaleMaxAge + Budget + MaxLag + Budget
      [] OTHER         -> Budget + MaxLag + 1

\* No client is given an answer, or a cached failure, older than its bound; what
\* the upstream said is never replayed beyond it by out-of-order stores.
AnswerAge ==
    \A r \in Requests : req[r].at = "done" =>
       req[r].endedAt - req[r].reply.asked < AgeBound(req[r].end, req[r].reply)

\* Every query is answered.
EveryRequestEnds == \A r \in Requests : req[r].at = "lookup" ~> req[r].at = "done"
=============================================================================
