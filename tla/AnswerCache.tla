---------------------------- MODULE AnswerCache ----------------------------
(***************************************************************************)
(* internal/anscache/anscache.go: the bounded LRU cache of upstream        *)
(* answers, as operators on cache values.  A cache is the map c.m together *)
(* with the recency list c.ll (front first); the mutex makes each critical *)
(* section one operator.  ForwardPath runs it under concurrent requests.   *)
(*                                                                         *)
(* One tick is one second.  A message is reduced to one record TTL and to  *)
(* the moment its upstream produced it.  The counters and the hit count    *)
(* only feed the diagnostics page and are left out.                        *)
(***************************************************************************)
EXTENDS Integers, Sequences, SequencesExt

CONSTANTS
    Keys,                   \* cache keys (name, type, class, DO)
    MaxEntries,             \* LRU capacity
    MinTTL, MaxTTL,         \* clamp of a positive answer
    NegMinTTL, NegMaxTTL,   \* clamp of a negative answer
    FailTTL,                \* lifetime of a failure marker
    ServeStale,             \* keep expired answers as candidates
    StaleMaxAge,            \* for this long past their expiry
    StaleTTL,               \* the TTL stamped on a stale answer
    Modulus                 \* 2^32 in the code: the width of a TTL

RRTTL == 0 .. (Modulus - 1)

\* New replaces zero and negative settings by positive defaults.
ASSUME CacheAssumption ==
    /\ MaxEntries \in Nat \ {0}
    /\ MinTTL \in Nat \ {0} /\ MaxTTL \in Nat \ {0}
    /\ NegMinTTL \in Nat \ {0} /\ NegMaxTTL \in Nat \ {0}
    /\ FailTTL \in Nat \ {0}
    /\ ServeStale \in BOOLEAN
    /\ StaleMaxAge \in Nat \ {0}
    /\ StaleTTL \in RRTTL
    /\ Modulus \in Nat \ {0, 1}

\* rr is the record's TTL and asked the time the upstream replied or failed (a
\* history); both describe msg.
Entry == [kind : {"pos", "neg", "fail"}, insertedAt : Nat, ttl : Nat,
          rr : RRTTL, asked : Nat]
NoEntry == [kind |-> "none"]

CacheType == [m : [Keys -> Entry \cup {NoEntry}], ll : Seq(Keys)]
NewCache == [m |-> [k \in Keys |-> NoEntry], ll |-> <<>>]
Flush(c) == NewCache

\* The recency list and the map hold the same keys, each once, within capacity.
WellFormed(c) ==
    /\ Len(c.ll) <= MaxEntries
    /\ \A k \in Keys : c.m[k] # NoEntry <=> \E i \in DOMAIN c.ll : c.ll[i] = k
    /\ \A i, j \in DOMAIN c.ll : c.ll[i] = c.ll[j] => i = j

----------------------------------------------------------------------------
(* Age classes: Lookup's ladder of conditions.                             *)

\* Mutant: off by one, an answer is still fresh when its TTL has run out.
IsFreshLate(e, now) == now - e.insertedAt <= e.ttl

IsFresh(e, now) == now - e.insertedAt < e.ttl

IsStale(e, now) ==
    ServeStale /\ e.kind # "fail" /\ now - e.insertedAt < e.ttl + StaleMaxAge

\* Lookup's verdict on key k, with the clock read before the lock.
Verdict(c, k, now) ==
    LET e == c.m[k] IN
    CASE e = NoEntry                     -> "Miss"
      [] e # NoEntry /\ IsFresh(e, now)  -> IF e.kind = "fail" THEN "Fail" ELSE "Fresh"
      [] e # NoEntry /\ ~IsFresh(e, now) -> IF IsStale(e, now) THEN "Stale" ELSE "Miss"

Listed(ll, k) == \E i \in DOMAIN ll : ll[i] = k
Without(ll, k) ==
    IF Listed(ll, k) THEN RemoveAt(ll, CHOOSE i \in DOMAIN ll : ll[i] = k) ELSE ll
ToFront(ll, k) == <<k>> \o Without(ll, k)

RemoveEl(c, k) == [m |-> [c.m EXCEPT ![k] = NoEntry], ll |-> Without(c.ll, k)]

\* What Lookup leaves behind: a hit moves to the front, a dead entry is removed.
AfterLookup(c, k, now) ==
    IF c.m[k] = NoEntry THEN c
    ELSE IF Verdict(c, k, now) = "Miss" THEN RemoveEl(c, k)
    ELSE [c EXCEPT !.ll = ToFront(@, k)]

----------------------------------------------------------------------------
(* put: insert or replace, then evict from the back.                       *)

Pushed(ll, k) == ToFront(ll, k)

\* Mutant: the eviction drops the list element and leaves the map entry.
PutLeaksEvicted(c, k, e) ==
    [m |-> [c.m EXCEPT ![k] = e],
     ll |-> SubSeq(Pushed(c.ll, k), 1,
                   IF Len(Pushed(c.ll, k)) < MaxEntries THEN Len(Pushed(c.ll, k)) ELSE MaxEntries)]

Put(c, k, e) ==
    LET ll == Pushed(c.ll, k)
        kept == SubSeq(ll, 1, IF Len(ll) < MaxEntries THEN Len(ll) ELSE MaxEntries)
    IN  [m |-> [x \in Keys |-> IF x = k THEN e
                               ELSE IF Listed(kept, x) THEN c.m[x] ELSE NoEntry],
         ll |-> kept]

----------------------------------------------------------------------------
(* TTL arithmetic.                                                         *)

Clamp(d, lo, hi) == IF d < lo THEN lo ELSE IF d > hi THEN hi ELSE d

\* cacheable: the entry lifetime of a reply with record (or SOA) TTL t.
CacheTTL(kind, t) ==
    CASE kind = "pos" -> Clamp(t, MinTTL, MaxTTL)
      [] kind = "neg" -> Clamp(t, NegMinTTL, NegMaxTTL)
      [] OTHER        -> FailTTL

\* decrementTTL, in uint32 arithmetic: the age may be negative.
DecrementTTL(t, age) ==
    LET rem == age % Modulus
    IN  IF t > (rem + 1) % Modulus THEN (t - rem) % Modulus ELSE 1
=============================================================================
