------------------------- MODULE ForwardPathProofs -------------------------
(***************************************************************************)
(* Proofs about ForwardPath, for every cache size, every TTL policy, every *)
(* set of keys and requests and every bound.                               *)
(***************************************************************************)
EXTENDS ForwardPath, SequenceTheorems, TLAPS

\* A missing entry is not mistaken for a stored one.
LEMMA NoEntryApart == NoEntry \notin Entry
  BY DEF NoEntry, Entry

----------------------------------------------------------------------------
(* The recency list.                                                       *)

\* A list without repetitions.
Distinct(ll) == \A i, j \in DOMAIN ll : ll[i] = ll[j] => i = j

\* Removing the element at position i.
LEMMA RemoveAtProps ==
    ASSUME NEW ll \in Seq(Keys), NEW i \in 1 .. Len(ll)
    PROVE  /\ RemoveAt(ll, i) \in Seq(Keys)
           /\ Len(RemoveAt(ll, i)) = Len(ll) - 1
           /\ \A j \in 1 .. (Len(ll) - 1) :
                 RemoveAt(ll, i)[j] = IF j < i THEN ll[j] ELSE ll[j + 1]
<1> DEFINE s == SubSeq(ll, 1, i - 1)
           t == SubSeq(ll, i + 1, Len(ll))
<1>1. /\ s \in Seq(Keys)
      /\ Len(s) = i - 1
      /\ \A j \in 1 .. (i - 1) : s[j] = ll[j]
  <2>1. \A j \in 1 .. (i - 1) : ll[j] \in Keys
    BY LenProperties, ElementOfSeq
  <2>2. /\ s \in Seq(Keys)
        /\ Len(s) = IF 1 <= i - 1 THEN (i - 1) - 1 + 1 ELSE 0
        /\ \A j \in 1 .. (i - 1) - 1 + 1 : s[j] = ll[1 + j - 1]
    BY <2>1, SubSeqProperties, LenProperties
  <2> QED BY <2>2
<1>2. /\ t \in Seq(Keys)
      /\ Len(t) = Len(ll) - i
      /\ \A j \in 1 .. (Len(ll) - i) : t[j] = ll[i + j]
  <2>1. \A j \in (i + 1) .. Len(ll) : ll[j] \in Keys
    BY LenProperties, ElementOfSeq
  <2>2. /\ t \in Seq(Keys)
        /\ Len(t) = IF i + 1 <= Len(ll) THEN Len(ll) - (i + 1) + 1 ELSE 0
        /\ \A j \in 1 .. Len(ll) - (i + 1) + 1 : t[j] = ll[(i + 1) + j - 1]
    BY <2>1, SubSeqProperties, LenProperties
  <2> QED BY <2>2, LenProperties
<1>3. RemoveAt(ll, i) = s \o t
  BY DEF RemoveAt
<1> HIDE DEF s, t
<1>4. /\ s \o t \in Seq(Keys)
      /\ Len(s \o t) = Len(s) + Len(t)
      /\ \A j \in 1 .. Len(s) + Len(t) :
            (s \o t)[j] = IF j <= Len(s) THEN s[j] ELSE t[j - Len(s)]
  BY <1>1, <1>2, ConcatProperties, Zenon
<1> QED
  BY <1>1, <1>2, <1>3, <1>4, LenProperties

\* Without drops exactly k.
LEMMA WithoutProps ==
    ASSUME NEW ll \in Seq(Keys), Distinct(ll), NEW k \in Keys
    PROVE  /\ Without(ll, k) \in Seq(Keys)
           /\ Distinct(Without(ll, k))
           /\ Len(Without(ll, k)) <= Len(ll)
           /\ \A x \in Keys : Listed(Without(ll, k), x) <=> Listed(ll, x) /\ x # k
<1>1. Len(ll) \in Nat /\ DOMAIN ll = 1 .. Len(ll)
  BY LenProperties
<1>2. CASE ~Listed(ll, k)
  <2>1. Without(ll, k) = ll
    BY <1>2 DEF Without
  <2> QED BY <1>1, <1>2, <2>1 DEF Listed
<1>3. CASE Listed(ll, k)
  <2> DEFINE i == CHOOSE i \in DOMAIN ll : ll[i] = k
             w == RemoveAt(ll, i)
  <2>1. i \in 1 .. Len(ll) /\ ll[i] = k
    BY <1>1, <1>3 DEF Listed
  <2>2. Without(ll, k) = w
    BY <1>3 DEF Without
  <2> HIDE DEF i
  <2>3. /\ w \in Seq(Keys)
        /\ Len(w) = Len(ll) - 1
        /\ \A j \in 1 .. (Len(ll) - 1) : w[j] = IF j < i THEN ll[j] ELSE ll[j + 1]
    BY <2>1, RemoveAtProps
  <2>4. DOMAIN w = 1 .. (Len(ll) - 1)
    BY <2>3, LenProperties
  <2> HIDE DEF w
  <2>5. Distinct(w)
    <3> SUFFICES ASSUME NEW a \in 1 .. (Len(ll) - 1), NEW b \in 1 .. (Len(ll) - 1),
                        w[a] = w[b]
                 PROVE  a = b
      BY <2>4 DEF Distinct
    <3> DEFINE f(j) == IF j < i THEN j ELSE j + 1
    <3>1. f(a) \in DOMAIN ll /\ f(b) \in DOMAIN ll
      BY <1>1
    <3>2. ll[f(a)] = ll[f(b)]
      BY <2>3, Zenon
    <3>3. f(a) = f(b)
      BY <3>1, <3>2 DEF Distinct
    <3> QED BY <3>3, <2>1, <1>1
  <2>6. ASSUME NEW x \in Keys, Listed(w, x) PROVE Listed(ll, x) /\ x # k
    <3>1. PICK j \in 1 .. (Len(ll) - 1) : w[j] = x
      BY <2>4, <2>6 DEF Listed
    <3> DEFINE n == IF j < i THEN j ELSE j + 1
    <3>2. n \in DOMAIN ll /\ ll[n] = x /\ n # i
      BY <1>1, <2>1, <2>3, <3>1
    <3> QED BY <1>1, <2>1, <3>2 DEF Listed, Distinct
  <2>7. ASSUME NEW x \in Keys, Listed(ll, x), x # k PROVE Listed(w, x)
    <3>1. PICK n \in 1 .. Len(ll) : ll[n] = x
      BY <1>1, <2>7 DEF Listed
    <3>2. n # i
      BY <2>1, <2>7, <3>1
    <3> DEFINE j == IF n < i THEN n ELSE n - 1
    <3>3. j \in 1 .. (Len(ll) - 1) /\ w[j] = x
      BY <1>1, <2>1, <2>3, <3>1, <3>2
    <3> QED BY <2>4, <3>3 DEF Listed
  <2> QED BY <1>1, <2>2, <2>3, <2>5, <2>6, <2>7
<1> QED BY <1>2, <1>3

\* ToFront lists k and what was listed before.
LEMMA ToFrontProps ==
    ASSUME NEW ll \in Seq(Keys), Distinct(ll), NEW k \in Keys
    PROVE  /\ ToFront(ll, k) \in Seq(Keys)
           /\ Distinct(ToFront(ll, k))
           /\ ToFront(ll, k) # << >> /\ ToFront(ll, k)[1] = k
           /\ Len(ToFront(ll, k)) >= 1
           /\ \A x \in Keys : Listed(ToFront(ll, k), x) <=> Listed(ll, x) \/ x = k
<1> DEFINE w == Without(ll, k)
           f == ToFront(ll, k)
<1>1. /\ w \in Seq(Keys)
      /\ Distinct(w)
      /\ \A x \in Keys : Listed(w, x) <=> Listed(ll, x) /\ x # k
  BY WithoutProps
<1>2. f = <<k>> \o w
  BY DEF ToFront
<1> HIDE DEF w, f
<1>3. Len(w) \in Nat /\ DOMAIN w = 1 .. Len(w)
  BY <1>1, LenProperties
<1>4. <<k>> \in Seq(Keys) /\ Len(<<k>>) = 1 /\ <<k>>[1] = k
  OBVIOUS
<1>5. /\ f \in Seq(Keys)
      /\ Len(f) = 1 + Len(w)
      /\ \A i \in 1 .. 1 + Len(w) : f[i] = IF i <= 1 THEN <<k>>[i] ELSE w[i - 1]
  BY <1>1, <1>2, <1>4, ConcatProperties
<1>6. f[1] = k /\ \A i \in 1 .. Len(w) : f[i + 1] = w[i]
  BY <1>3, <1>4, <1>5
<1>7. DOMAIN f = 1 .. (1 + Len(w))
  BY <1>5, LenProperties
<1>8. \A i \in 1 .. Len(w) : w[i] \in Keys /\ w[i] # k
  <2> TAKE i \in 1 .. Len(w)
  <2>1. w[i] \in Keys
    BY <1>1, ElementOfSeq
  <2>2. Listed(w, w[i])
    BY <1>3 DEF Listed
  <2> QED BY <1>1, <2>1, <2>2
<1>9. Distinct(f)
  <2> SUFFICES ASSUME NEW a \in 1 .. (1 + Len(w)), NEW b \in 1 .. (1 + Len(w)), f[a] = f[b]
               PROVE  a = b
    BY <1>7 DEF Distinct
  <2>1. CASE a = 1 /\ b # 1
    <3>1. b - 1 \in 1 .. Len(w) /\ f[b] = w[b - 1]
      BY <1>3, <1>5, <2>1
    <3> QED BY <1>6, <1>8, <2>1, <3>1, Zenon
  <2>2. CASE a # 1 /\ b = 1
    <3>1. a - 1 \in 1 .. Len(w) /\ f[a] = w[a - 1]
      BY <1>3, <1>5, <2>2
    <3> QED BY <1>6, <1>8, <2>2, <3>1
  <2>3. CASE a # 1 /\ b # 1
    <3>1. a - 1 \in DOMAIN w /\ b - 1 \in DOMAIN w /\ w[a - 1] = w[b - 1]
      BY <1>3, <1>5, <2>3
    <3>2. a - 1 = b - 1
      BY <1>1, <3>1, Zenon DEF Distinct
    <3> QED BY <3>2
  <2> QED BY <2>1, <2>2, <2>3
<1>10. ASSUME NEW x \in Keys PROVE Listed(f, x) <=> Listed(w, x) \/ x = k
  <2>1. ASSUME Listed(f, x) PROVE Listed(w, x) \/ x = k
    <3>1. PICK i \in 1 .. (1 + Len(w)) : f[i] = x
      BY <1>7, <2>1 DEF Listed
    <3>2. CASE i = 1
      BY <1>6, <3>1, <3>2
    <3>3. CASE i # 1
      <4>1. i - 1 \in DOMAIN w /\ w[i - 1] = x
        BY <1>3, <1>5, <3>1, <3>3
      <4> QED BY <4>1 DEF Listed
    <3> QED BY <3>2, <3>3
  <2>2. ASSUME Listed(w, x) PROVE Listed(f, x)
    <3>1. PICK i \in 1 .. Len(w) : w[i] = x
      BY <1>3, <2>2 DEF Listed
    <3>2. i + 1 \in DOMAIN f /\ f[i + 1] = x
      BY <1>3, <1>6, <1>7, <3>1
    <3> QED BY <3>2 DEF Listed
  <2>3. ASSUME x = k PROVE Listed(f, x)
    <3>1. 1 \in DOMAIN f /\ f[1] = x
      BY <1>3, <1>6, <1>7, <2>3
    <3> QED BY <3>1 DEF Listed
  <2> QED BY <2>1, <2>2, <2>3
<1> QED
  BY <1>1, <1>3, <1>5, <1>6, <1>9, <1>10 DEF f

----------------------------------------------------------------------------
(* The operations of the cache.                                            *)

\* put keeps the list and the map in step; an entry of the new cache is the new
\* one or was there before.
LEMMA PutProps ==
    ASSUME NEW c \in CacheType, WellFormed(c), NEW k \in Keys, NEW e \in Entry
    PROVE  /\ Put(c, k, e) \in CacheType
           /\ WellFormed(Put(c, k, e))
           /\ \A x \in Keys : Put(c, k, e).m[x] \in {c.m[x], e, NoEntry}
<1> DEFINE ll == ToFront(c.ll, k)
           n == IF Len(ll) < MaxEntries THEN Len(ll) ELSE MaxEntries
           kept == SubSeq(ll, 1, n)
           m == [x \in Keys |-> IF x = k THEN e
                                ELSE IF Listed(kept, x) THEN c.m[x] ELSE NoEntry]
<1>1. c.ll \in Seq(Keys) /\ c.m \in [Keys -> Entry \cup {NoEntry}] /\ Distinct(c.ll)
  BY DEF CacheType, WellFormed, Distinct
<1>2. /\ ll \in Seq(Keys)
      /\ Distinct(ll)
      /\ ll[1] = k
      /\ Len(ll) >= 1
      /\ \A x \in Keys : Listed(ll, x) <=> Listed(c.ll, x) \/ x = k
  BY <1>1, ToFrontProps, Zenon
<1>3. Put(c, k, e) = [m |-> m, ll |-> kept]
  BY DEF Put, Pushed
<1> HIDE DEF ll
<1>4. Len(ll) \in Nat /\ DOMAIN ll = 1 .. Len(ll)
  BY <1>2, LenProperties, Zenon
<1>5. n \in Nat /\ 1 <= n /\ n <= Len(ll) /\ n <= MaxEntries
  BY <1>2, <1>4, CacheAssumption
<1> HIDE DEF n
<1>6. /\ kept \in Seq(Keys)
      /\ Len(kept) = n
      /\ \A i \in 1 .. n : kept[i] = ll[i]
  <2>1. \A i \in 1 .. n : ll[i] \in Keys
    BY <1>2, <1>4, <1>5, ElementOfSeq
  <2>2. /\ kept \in Seq(Keys)
        /\ Len(kept) = IF 1 <= n THEN n - 1 + 1 ELSE 0
        /\ \A i \in 1 .. n - 1 + 1 : kept[i] = ll[1 + i - 1]
    BY <1>5, <2>1, SubSeqProperties
  <2> QED BY <1>5, <2>2
<1> HIDE DEF kept
<1>7. DOMAIN kept = 1 .. n
  BY <1>6, LenProperties
<1>8. m \in [Keys -> Entry \cup {NoEntry}]
  BY <1>1
<1>9. \A x \in Keys : m[x] \in {c.m[x], e, NoEntry}
  OBVIOUS
<1>10. Distinct(kept)
  BY <1>2, <1>4, <1>5, <1>6, <1>7 DEF Distinct
<1>11. Listed(kept, k)
  BY <1>2, <1>5, <1>6, <1>7 DEF Listed
<1>12. \A x \in Keys : Listed(kept, x) => Listed(c.ll, x) \/ x = k
  <2>1. \A x \in Keys : Listed(kept, x) => Listed(ll, x)
    BY <1>4, <1>5, <1>6, <1>7 DEF Listed
  <2> QED BY <1>2, <2>1
<1>13. \A x \in Keys : m[x] # NoEntry <=> Listed(kept, x)
  <2> TAKE x \in Keys
  <2>1. c.m[x] # NoEntry <=> Listed(c.ll, x)
    BY DEF WellFormed, Listed
  <2>2. e # NoEntry
    BY NoEntryApart
  <2> QED BY <1>11, <1>12, <2>1, <2>2
<1> HIDE DEF m
<1>14. [m |-> m, ll |-> kept] \in CacheType
  BY <1>6, <1>8, Zenon DEF CacheType
<1>15. WellFormed([m |-> m, ll |-> kept])
  BY <1>5, <1>6, <1>10, <1>13, Zenon DEF WellFormed, Distinct, Listed
<1> QED
  BY <1>3, <1>9, <1>14, <1>15

\* Lookup only reorders the list or removes one entry.
LEMMA AfterLookupProps ==
    ASSUME NEW c \in CacheType, WellFormed(c), NEW k \in Keys, NEW now
    PROVE  /\ AfterLookup(c, k, now) \in CacheType
           /\ WellFormed(AfterLookup(c, k, now))
           /\ \A x \in Keys : AfterLookup(c, k, now).m[x] \in {c.m[x], NoEntry}
<1>1. /\ c.ll \in Seq(Keys) /\ c.m \in [Keys -> Entry \cup {NoEntry}]
      /\ Distinct(c.ll)
      /\ Len(c.ll) <= MaxEntries
      /\ \A x \in Keys : c.m[x] # NoEntry <=> Listed(c.ll, x)
  BY DEF CacheType, WellFormed, Distinct, Listed
<1>2. CASE c.m[k] = NoEntry
  BY <1>2 DEF AfterLookup
<1>3. CASE c.m[k] # NoEntry /\ Verdict(c, k, now) = "Miss"
  <2> DEFINE w == Without(c.ll, k)
             m == [c.m EXCEPT ![k] = NoEntry]
  <2>1. AfterLookup(c, k, now) = [m |-> m, ll |-> w]
    BY <1>3 DEF AfterLookup, RemoveEl
  <2>2. /\ w \in Seq(Keys)
        /\ Distinct(w)
        /\ Len(w) <= Len(c.ll)
        /\ \A x \in Keys : Listed(w, x) <=> Listed(c.ll, x) /\ x # k
    BY <1>1, WithoutProps, Zenon
  <2>3. /\ m \in [Keys -> Entry \cup {NoEntry}]
        /\ \A x \in Keys : m[x] = IF x = k THEN NoEntry ELSE c.m[x]
    BY <1>1, Zenon
  <2> HIDE DEF w, m
  <2>4. [m |-> m, ll |-> w] \in CacheType
    BY <2>2, <2>3, Zenon DEF CacheType
  <2>5. WellFormed([m |-> m, ll |-> w])
    <3>1. Len(w) <= MaxEntries
      BY <1>1, <2>2, LenProperties, CacheAssumption
    <3>2. \A x \in Keys : m[x] # NoEntry <=> Listed(w, x)
      BY <1>1, <2>2, <2>3
    <3> QED BY <2>2, <3>1, <3>2, Zenon DEF WellFormed, Distinct, Listed
  <2> QED BY <2>1, <2>3, <2>4, <2>5
<1>4. CASE c.m[k] # NoEntry /\ Verdict(c, k, now) # "Miss"
  <2> DEFINE f == ToFront(c.ll, k)
  <2>1. AfterLookup(c, k, now) = [c EXCEPT !.ll = f]
    BY <1>4 DEF AfterLookup
  <2>2. /\ f \in Seq(Keys)
        /\ Distinct(f)
        /\ \A x \in Keys : Listed(f, x) <=> Listed(c.ll, x) \/ x = k
    BY <1>1, ToFrontProps, Zenon
  <2>3. Len(f) <= MaxEntries
    <3>1. Listed(c.ll, k)
      BY <1>1, <1>4
    <3> DEFINE w == Without(c.ll, k)
    <3>2. w = RemoveAt(c.ll, CHOOSE i \in DOMAIN c.ll : c.ll[i] = k)
      BY <3>1 DEF Without
    <3>3. (CHOOSE i \in DOMAIN c.ll : c.ll[i] = k) \in 1 .. Len(c.ll)
      BY <1>1, <3>1, LenProperties DEF Listed
    <3>4. w \in Seq(Keys) /\ Len(w) = Len(c.ll) - 1
      BY <1>1, <3>2, <3>3, RemoveAtProps, Zenon
    <3> HIDE DEF w
    <3>5. Len(<<k>> \o w) = 1 + Len(w)
      <4>1. <<k>> \in Seq(Keys) /\ Len(<<k>>) = 1
        OBVIOUS
      <4> QED BY <3>4, <4>1, ConcatProperties
    <3>6. f = <<k>> \o w
      BY DEF ToFront, w
    <3> QED BY <1>1, <3>4, <3>5, <3>6, LenProperties, CacheAssumption
  <2> HIDE DEF f
  <2>4. [c EXCEPT !.ll = f] \in CacheType /\ [c EXCEPT !.ll = f].ll = f
        /\ [c EXCEPT !.ll = f].m = c.m
    BY <2>2 DEF CacheType
  <2>5. \A x \in Keys : c.m[x] # NoEntry <=> Listed(f, x)
    BY <1>1, <1>4, <2>2, Zenon
  <2>6. WellFormed([c EXCEPT !.ll = f])
    BY <2>2, <2>3, <2>4, <2>5 DEF WellFormed, Distinct, Listed
  <2> QED BY <2>1, <2>4, <2>6
<1> QED BY <1>2, <1>3, <1>4, Zenon

----------------------------------------------------------------------------
(* The inductive invariant.  Every entry was stored at most Budget after   *)
(* its upstream spoke, and every request's clock reading is recent.        *)

\* An entry that was put in time.
Good(e) ==
    /\ e.insertedAt - e.asked <= Budget
    /\ e.kind = "fail" => e.ttl = FailTTL

\* The local state q of a request at time t.
GoodReq(q, t) ==
    /\ q.at \in {"lookup", "put"} => q.key \in Keys /\ t <= q.now + MaxLag
    /\ q.at = "lookup" => q.stale = NoEntry
    /\ q.at \in {"upstream", "reply"} => q.now <= t /\ t <= q.now + Budget
    /\ q.at \in {"upstream", "reply"} /\ q.stale # NoEntry =>
          /\ Good(q.stale)
          /\ q.now - q.stale.insertedAt < q.stale.ttl + StaleMaxAge + MaxLag
    /\ q.at = "reply" => /\ q.reply # NoEntry
                         /\ q.now <= q.reply.asked
                         /\ q.reply.kind = "fail" => q.reply.ttl = FailTTL
    /\ q.at = "put" => /\ q.reply # NoEntry
                       /\ Good(q.reply)
                       /\ q.reply.insertedAt = q.now
    /\ q.at = "done" => q.endedAt - q.reply.asked < AgeBound(q.end, q.reply)

CacheGood == \A k \in Keys : cache.m[k] # NoEntry => Good(cache.m[k])

IInv ==
    /\ TypeOK
    /\ WellFormed(cache)
    /\ CacheGood
    /\ \A r \in Requests : GoodReq(req[r], clock)

\* The clamps keep an entry's lifetime a natural number.
LEMMA CacheTTLNat ==
    ASSUME NEW kind, NEW t \in RRTTL
    PROVE  CacheTTL(kind, t) \in Nat
<1>1. t \in Nat
  BY CacheAssumption DEF RRTTL
<1> QED BY <1>1, CacheAssumption DEF CacheTTL, Clamp

\* decrementTTL stays within the width of a TTL.
LEMMA DecrementType ==
    ASSUME NEW t \in RRTTL, NEW age \in Int
    PROVE  DecrementTTL(t, age) \in RRTTL
<1> DEFINE rem == age % Modulus
<1>1. rem \in 0 .. (Modulus - 1)
  BY CacheAssumption
<1>2. (t - rem) \in Int
  BY <1>1 DEF RRTTL
<1>3. (t - rem) % Modulus \in 0 .. (Modulus - 1)
  BY <1>2, CacheAssumption
<1>4. 1 \in RRTTL
  BY CacheAssumption DEF RRTTL
<1> QED BY <1>3, <1>4 DEF DecrementTTL, RRTTL

\* The fields of an entry.
LEMMA EntryFields ==
    ASSUME NEW e \in Entry
    PROVE  /\ e.insertedAt \in Nat /\ e.asked \in Nat /\ e.ttl \in Nat
           /\ e.rr \in RRTTL
BY DEF Entry

\* The fields of a request.
LEMMA ReqFields ==
    ASSUME NEW q \in ReqType
    PROVE  /\ q.now \in Nat /\ q.key \in Keys \cup {NoKey}
           /\ q.stale \in Entry \cup {NoEntry} /\ q.reply \in Entry \cup {NoEntry}
BY DEF ReqType

\* What Lookup's verdicts say of the entry e found under the key.
LEMMA VerdictProps ==
    ASSUME NEW c, NEW k, NEW now, NEW e, e = c.m[k], NEW v, v = Verdict(c, k, now)
    PROVE  /\ v \in {"Fresh", "Fail", "Stale", "Miss"}
           /\ v = "Fresh" => e # NoEntry /\ now - e.insertedAt < e.ttl
           /\ v = "Fail"  => e # NoEntry /\ now - e.insertedAt < e.ttl /\ e.kind = "fail"
           /\ v = "Stale" => e # NoEntry /\ now - e.insertedAt < e.ttl + StaleMaxAge
<1>1. v = CASE e = NoEntry                     -> "Miss"
            [] e # NoEntry /\ IsFresh(e, now)  -> IF e.kind = "fail" THEN "Fail" ELSE "Fresh"
            [] e # NoEntry /\ ~IsFresh(e, now) -> IF IsStale(e, now) THEN "Stale" ELSE "Miss"
  BY DEF Verdict
<1> QED BY ONLY <1>1 DEF IsFresh, IsStale

\* How old a good entry is at time t, for a clock reading now that is recent.
LEMMA EntryAge ==
    ASSUME NEW e \in Entry, Good(e), NEW now \in Nat, NEW t \in Nat, t <= now + MaxLag
    PROVE  /\ now - e.insertedAt < e.ttl => t - e.asked < AgeBound("Fresh", e)
           /\ now - e.insertedAt < e.ttl /\ e.kind = "fail" => t - e.asked < AgeBound("Fail", e)
           /\ now - e.insertedAt < e.ttl + StaleMaxAge =>
                 t - e.insertedAt < e.ttl + StaleMaxAge + MaxLag
<1>1. /\ AgeBound("Fresh", e) = e.ttl + Budget + MaxLag
      /\ AgeBound("Fail", e) = FailTTL + Budget + MaxLag
  BY DEF AgeBound
<1>2. /\ e.insertedAt - e.asked <= Budget
      /\ e.kind = "fail" => e.ttl = FailTTL
  BY Zenon DEF Good
<1> QED BY <1>1, <1>2, EntryFields, CacheAssumption, PathAssumption

\* A request that waits for the upstream, having kept a stale entry or none.
LEMMA UpstreamGood ==
    ASSUME NEW q, NEW t \in Nat, q.at = "upstream", q.now = t,
           q.stale # NoEntry =>
             Good(q.stale) /\ t - q.stale.insertedAt < q.stale.ttl + StaleMaxAge + MaxLag
    PROVE  GoodReq(q, t)
<1>1. t <= t /\ t <= t + Budget
  BY PathAssumption
<1> QED BY <1>1, Zenon DEF GoodReq

\* A request that has its reply.
LEMMA GoodReply ==
    ASSUME NEW q, NEW t, q.at = "reply",
           q.now <= t, t <= q.now + Budget,
           q.stale # NoEntry =>
             Good(q.stale) /\ q.now - q.stale.insertedAt < q.stale.ttl + StaleMaxAge + MaxLag,
           q.reply # NoEntry, q.now <= q.reply.asked,
           q.reply.kind = "fail" => q.reply.ttl = FailTTL
    PROVE  GoodReq(q, t)
BY Zenon DEF GoodReq

\* A request about to store its reply.
LEMMA GoodPut ==
    ASSUME NEW q, NEW t, q.at = "put", q.key \in Keys, t <= q.now + MaxLag,
           q.reply # NoEntry, Good(q.reply), q.reply.insertedAt = q.now
    PROVE  GoodReq(q, t)
BY Zenon DEF GoodReq

\* What a request at "lookup" knows.
LEMMA LookupGood ==
    ASSUME NEW q, NEW t, GoodReq(q, t), q.at = "lookup"
    PROVE  q.key \in Keys /\ t <= q.now + MaxLag /\ q.stale = NoEntry
BY Zenon DEF GoodReq

\* What a request at "upstream" knows.
LEMMA WaitGood ==
    ASSUME NEW q, NEW t, GoodReq(q, t), q.at = "upstream"
    PROVE  /\ q.now <= t /\ t <= q.now + Budget
           /\ q.stale # NoEntry =>
                 /\ Good(q.stale)
                 /\ q.now - q.stale.insertedAt < q.stale.ttl + StaleMaxAge + MaxLag
BY Zenon DEF GoodReq

\* What a request at "reply" knows.
LEMMA ReplyGood ==
    ASSUME NEW q, NEW t, GoodReq(q, t), q.at = "reply"
    PROVE  /\ q.now <= t /\ t <= q.now + Budget
           /\ q.reply # NoEntry /\ q.now <= q.reply.asked
           /\ q.reply.kind = "fail" => q.reply.ttl = FailTTL
           /\ q.stale # NoEntry =>
                 /\ Good(q.stale)
                 /\ q.now - q.stale.insertedAt < q.stale.ttl + StaleMaxAge + MaxLag
BY Zenon DEF GoodReq

\* What a request at "put" knows.
LEMMA PutGood ==
    ASSUME NEW q, NEW t, GoodReq(q, t), q.at = "put"
    PROVE  /\ q.key \in Keys /\ t <= q.now + MaxLag
           /\ q.reply # NoEntry /\ Good(q.reply) /\ q.reply.insertedAt = q.now
BY DEF GoodReq

\* Ending a request.
LEMMA EndedProps ==
    ASSUME TypeOK, NEW r \in Requests, NEW end \in Ends, NEW e \in Entry, NEW t \in RRTTL,
           clock - e.asked < AgeBound(end, e)
    PROVE  Ended(r, end, e, t) \in ReqType /\ GoodReq(Ended(r, end, e, t), clock)
<1> DEFINE q == req[r]
           d == [q EXCEPT !.at = "done", !.end = end, !.endedAt = clock,
                          !.reply = e, !.ttl = t, !.stale = NoEntry]
<1>1. q \in ReqType /\ clock \in Nat
  BY DEF TypeOK
<1>2. Ended(r, end, e, t) = d
  BY DEF Ended
<1> HIDE DEF q
<1>3. d \in ReqType
  BY ONLY <1>1, end \in Ends, e \in Entry, t \in RRTTL, Zenon DEF ReqType
<1>4. d.at = "done" /\ d.end = end /\ d.endedAt = clock /\ d.reply = e
  BY ONLY <1>1 DEF ReqType
<1>5. GoodReq(d, clock)
  <2> HIDE DEF d
  <2> QED BY <1>4, Zenon DEF GoodReq
<1> QED BY <1>2, <1>3, <1>5

\* A step that changes one request, and leaves the clock alone, keeps the
\* invariant when its own part is kept.
LEMMA OneRequest ==
    ASSUME IInv, NEW r \in Requests, NEW q \in ReqType, GoodReq(q, clock),
           req' = [req EXCEPT ![r] = q],
           cache' \in CacheType, WellFormed(cache'), CacheGood',
           clock' = clock, starts' \in 0 .. MaxStarts
    PROVE  IInv'
<1>1. req' \in [Requests -> ReqType]
  BY DEF IInv, TypeOK
<1>2. \A s \in Requests : req'[s] = IF s = r THEN q ELSE req[s]
  BY DEF IInv, TypeOK
<1>3. \A s \in Requests : GoodReq(req'[s], clock')
  BY <1>2 DEF IInv
<1>4. TypeOK'
  BY <1>1 DEF IInv, TypeOK
<1> QED BY <1>3, <1>4 DEF IInv

\* The empty cache with no requests satisfies the inductive invariant.
LEMMA InitIInv == Init => IInv
<1> SUFFICES ASSUME Init PROVE IInv
  OBVIOUS
<1>1. NewCache \in CacheType
  BY EmptySeq DEF NewCache, CacheType
<1>2. WellFormed(NewCache)
  <2>1. Len(<< >>) = 0 /\ DOMAIN << >> = {}
    OBVIOUS
  <2> QED BY <2>1, CacheAssumption DEF NewCache, WellFormed
<1>3. NoReq \in ReqType
  BY CacheAssumption DEF NoReq, ReqType, RRTTL, Ends
<1>4. GoodReq(NoReq, 0)
  BY Zenon DEF NoReq, GoodReq
<1>5. CacheGood
  BY DEF Init, CacheGood, NewCache
<1>6. TypeOK
  BY <1>1, <1>3, PathAssumption DEF Init, TypeOK
<1> QED BY <1>2, <1>4, <1>5, <1>6 DEF Init, IInv

\* A query arrives and reads the clock.
LEMMA StartIInv ==
    ASSUME IInv, NEW r \in Requests, NEW k \in Keys \cup {NoKey}, Start(r, k)
    PROVE  IInv'
<1> DEFINE a == IF k = NoKey THEN "upstream" ELSE "lookup"
           q == [NoReq EXCEPT !.at = a, !.key = k, !.now = clock]
<1>1. clock \in Nat /\ NoReq \in ReqType
  BY CacheAssumption DEF IInv, TypeOK, NoReq, ReqType, RRTTL, Ends
<1>2. q \in ReqType
  BY <1>1, Zenon DEF ReqType, NoReq
<1>3. q.at = a /\ q.key = k /\ q.now = clock /\ q.stale = NoEntry
  BY DEF NoReq
<1>4. GoodReq(q, clock)
  <2> HIDE DEF q
  <2> QED BY <1>1, <1>3, PathAssumption DEF GoodReq
<1>5. req' = [req EXCEPT ![r] = q] /\ UNCHANGED <<cache, clock>>
  BY DEF Start
<1>6. starts' \in 0 .. MaxStarts
  BY PathAssumption DEF Start, IInv, TypeOK
<1>7. cache' \in CacheType /\ WellFormed(cache') /\ CacheGood'
  BY <1>5 DEF IInv, TypeOK, CacheGood
<1> HIDE DEF q
<1> QED BY <1>2, <1>4, <1>5, <1>6, <1>7, OneRequest, Zenon

\* Lookup: a hit within its bound ends the request, a stale hit is kept for later.
LEMMA LookupIInv ==
    ASSUME IInv, NEW r \in Requests, Lookup(r)
    PROVE  IInv'
<1> DEFINE k == req[r].key
           now == req[r].now
           e == cache.m[k]
           v == Verdict(cache, k, now)
<1>1. /\ req[r] \in ReqType /\ GoodReq(req[r], clock) /\ req[r].at = "lookup"
      /\ clock \in Nat /\ cache \in CacheType /\ WellFormed(cache)
  BY DEF Lookup, IInv, TypeOK
<1>2. k \in Keys /\ clock <= now + MaxLag /\ now \in Nat
  BY <1>1, LookupGood, ReqFields, Zenon
<1>3. /\ cache' = AfterLookup(cache, k, now)
      /\ UNCHANGED <<clock, starts>>
  BY Zenon DEF Lookup
<1>4. cache' \in CacheType /\ WellFormed(cache') /\ CacheGood'
  <2>1. /\ cache' \in CacheType /\ WellFormed(cache')
        /\ \A x \in Keys : cache'.m[x] \in {cache.m[x], NoEntry}
    BY <1>1, <1>2, <1>3, AfterLookupProps, Zenon
  <2> QED BY <2>1 DEF IInv, CacheGood
<1>5. e \in Entry \cup {NoEntry} /\ (e # NoEntry => Good(e))
  BY <1>1, <1>2, Zenon DEF CacheType, IInv, CacheGood
<1>6. e # NoEntry => /\ e.insertedAt \in Nat /\ e.asked \in Nat /\ e.ttl \in Nat
                     /\ e.rr \in RRTTL
  BY <1>5, EntryFields, Zenon
<1>7. ASSUME NEW q \in ReqType, GoodReq(q, clock), req' = [req EXCEPT ![r] = q]
      PROVE  IInv'
  <2>1. starts' \in 0 .. MaxStarts
    BY <1>3 DEF IInv, TypeOK
  <2> QED BY <1>3, <1>4, <1>7, <2>1, OneRequest, Zenon
<1>8. /\ v \in {"Fresh", "Fail", "Stale", "Miss"}
      /\ v = "Fresh" => e # NoEntry /\ now - e.insertedAt < e.ttl
      /\ v = "Fail"  => e # NoEntry /\ now - e.insertedAt < e.ttl /\ e.kind = "fail"
      /\ v = "Stale" => e # NoEntry /\ now - e.insertedAt < e.ttl + StaleMaxAge
  BY ONLY VerdictProps, Zenon
<1> DEFINE t == DecrementTTL(e.rr, now - e.insertedAt)
           q == [req[r] EXCEPT !.at = "upstream", !.now = clock, !.stale = e]
           p == [req[r] EXCEPT !.at = "upstream", !.now = clock]
<1>9. /\ v = "Fresh" => req' = [req EXCEPT ![r] = Ended(r, "Fresh", e, t)]
      /\ v = "Fail"  => req' = [req EXCEPT ![r] = Ended(r, "Fail", e, 0)]
      /\ v = "Stale" => req' = [req EXCEPT ![r] = q]
      /\ v = "Miss"  => req' = [req EXCEPT ![r] = p]
  BY Zenon DEF Lookup
<1> HIDE DEF k, now, e, v
<1>10. CASE v = "Fresh"
  <2>1. e \in Entry /\ Good(e) /\ "Fresh" \in Ends
    BY <1>5, <1>8, <1>10 DEF Ends
  <2>2. now - e.insertedAt \in Int /\ e.rr \in RRTTL
    BY ONLY <1>2, <2>1, EntryFields
  <2>3. t \in RRTTL
    BY <2>2, DecrementType
  <2> HIDE DEF t
  <2>4. clock - e.asked < AgeBound("Fresh", e)
    BY <1>1, <1>2, <1>8, <1>10, <2>1, EntryAge, Zenon
  <2>5. Ended(r, "Fresh", e, t) \in ReqType /\ GoodReq(Ended(r, "Fresh", e, t), clock)
    BY <2>1, <2>3, <2>4, EndedProps, Zenon DEF IInv
  <2> QED BY <1>7, <1>9, <1>10, <2>5
<1>11. CASE v = "Fail"
  <2>1. e \in Entry /\ Good(e) /\ "Fail" \in Ends /\ 0 \in RRTTL
    BY <1>5, <1>8, <1>11, CacheAssumption DEF Ends, RRTTL
  <2>2. clock - e.asked < AgeBound("Fail", e)
    BY <1>1, <1>2, <1>8, <1>11, <2>1, EntryAge, Zenon
  <2>3. Ended(r, "Fail", e, 0) \in ReqType /\ GoodReq(Ended(r, "Fail", e, 0), clock)
    BY <2>1, <2>2, EndedProps, Zenon DEF IInv
  <2> QED BY <1>7, <1>9, <1>11, <2>3
<1>12. CASE v = "Stale"
  <2>1. e \in Entry /\ Good(e)
    BY <1>5, <1>8, <1>12, Zenon
  <2>2. clock - e.insertedAt < e.ttl + StaleMaxAge + MaxLag
    BY <1>1, <1>2, <1>8, <1>12, <2>1, EntryAge, Zenon
  <2>3. q \in ReqType
    BY ONLY <1>1, <2>1, Zenon DEF ReqType
  <2>4. q.at = "upstream" /\ q.now = clock /\ q.stale = e
    BY ONLY <1>1 DEF ReqType
  <2> HIDE DEF q
  <2>5. GoodReq(q, clock)
    BY <1>1, <2>1, <2>2, <2>4, UpstreamGood, Zenon
  <2> QED BY <1>7, <1>9, <1>12, <2>3, <2>5, Zenon
<1>13. CASE v = "Miss"
  <2>1. p \in ReqType
    BY ONLY <1>1, Zenon DEF ReqType
  <2>2. p.at = "upstream" /\ p.now = clock /\ p.stale = req[r].stale
    BY ONLY <1>1 DEF ReqType
  <2> HIDE DEF p
  <2>3. GoodReq(p, clock)
    BY <1>1, <2>2, LookupGood, UpstreamGood, Zenon
  <2> QED BY <1>7, <1>9, <1>13, <2>1, <2>3
<1> QED BY <1>8, <1>10, <1>11, <1>12, <1>13, Zenon

\* The upstream replies, or the exchange fails, before the deadline.
LEMMA UpstreamIInv ==
    ASSUME IInv, NEW r \in Requests, NEW kind \in {"pos", "neg", "fail"},
           NEW t \in TTLs, Upstream(r, kind, t)
    PROVE  IInv'
<1> DEFINE e == [kind |-> kind, insertedAt |-> clock, ttl |-> CacheTTL(kind, t),
                 rr |-> t, asked |-> clock]
           q == [req[r] EXCEPT !.at = "reply", !.reply = e]
<1>1. /\ req[r] \in ReqType /\ GoodReq(req[r], clock) /\ req[r].at = "upstream"
      /\ clock \in Nat /\ t \in RRTTL
  BY PathAssumption DEF Upstream, IInv, TypeOK
<1>2. e \in Entry /\ e # NoEntry
  <2>1. e \in Entry
    BY <1>1, CacheTTLNat, Zenon DEF Entry
  <2> QED BY <2>1, NoEntryApart, Zenon
<1>3. e.asked = clock /\ (e.kind = "fail" => e.ttl = FailTTL)
  BY DEF CacheTTL
<1> HIDE DEF e
<1>4. q \in ReqType
  BY ONLY <1>1, <1>2, Zenon DEF ReqType
<1>5. q.at = "reply" /\ q.reply = e /\ q.now = req[r].now /\ q.stale = req[r].stale
  BY ONLY <1>1 DEF ReqType
<1>6. req' = [req EXCEPT ![r] = q] /\ UNCHANGED <<cache, clock, starts>>
  BY Zenon DEF Upstream, e
<1> HIDE DEF q
<1>7. GoodReq(q, clock)
  <2>1. q.now <= e.asked
    BY <1>1, <1>3, <1>5, WaitGood, Zenon
  <2> QED BY <1>1, <1>2, <1>3, <1>5, <2>1, WaitGood, GoodReply, Zenon
<1>8. /\ cache' \in CacheType /\ WellFormed(cache') /\ CacheGood'
      /\ starts' \in 0 .. MaxStarts
  BY <1>6 DEF IInv, TypeOK, CacheGood
<1> QED BY <1>4, <1>6, <1>7, <1>8, OneRequest, Zenon

\* The reply is at hand within Budget, so the entry made of it is good.
LEMMA ReadClockProps ==
    ASSUME IInv, NEW r \in Requests, req[r].at = "reply", req[r].key \in Keys
    PROVE  ReadClock(r) \in ReqType /\ GoodReq(ReadClock(r), clock)
<1> DEFINE e == [req[r].reply EXCEPT !.insertedAt = clock]
           q == [req[r] EXCEPT !.at = "put", !.now = clock, !.reply = e]
<1>1. /\ req[r] \in ReqType /\ GoodReq(req[r], clock) /\ clock \in Nat
      /\ req[r].reply \in Entry /\ req[r].now \in Nat
  <2>1. req[r] \in ReqType /\ GoodReq(req[r], clock) /\ clock \in Nat
    BY DEF IInv, TypeOK
  <2> QED BY <2>1, ReqFields, ReplyGood, Zenon
<1>2. e \in Entry /\ e.insertedAt = clock /\ e.asked = req[r].reply.asked
      /\ e.kind = req[r].reply.kind /\ e.ttl = req[r].reply.ttl
  BY <1>1 DEF Entry
<1>3. Good(e)
  <2>1. e.asked \in Nat /\ req[r].now <= e.asked /\ clock <= req[r].now + Budget
    BY <1>1, <1>2, ReplyGood, EntryFields
  <2>2. e.kind = "fail" => e.ttl = FailTTL
    BY <1>1, <1>2, ReplyGood
  <2> QED BY <1>1, <1>2, <2>1, <2>2, PathAssumption DEF Good
<1>4. ReadClock(r) = q
  BY DEF ReadClock
<1> HIDE DEF e
<1>5. q \in ReqType
  BY ONLY <1>1, <1>2, Zenon DEF ReqType
<1>6. q.at = "put" /\ q.now = clock /\ q.reply = e /\ q.key = req[r].key
  BY ONLY <1>1 DEF ReqType
<1>7. e # NoEntry
  BY <1>2, NoEntryApart, Zenon
<1> HIDE DEF q
<1>8. GoodReq(q, clock)
  <2>1. clock <= q.now + MaxLag
    BY <1>1, <1>6, PathAssumption
  <2> QED BY <1>2, <1>3, <1>6, <1>7, <2>1, GoodPut, Zenon
<1> QED BY <1>4, <1>5, <1>8

\* The steps that end the wait for the upstream.
LEMMA ReceiveIInv ==
    ASSUME IInv, NEW r \in Requests,
           \/ Receive(r) \/ ReceiveUncacheable(r)
           \/ ServeStaleAnswer(r) \/ ReceiveFailure(r)
    PROVE  IInv'
<1> DEFINE e == req[r].reply
           s == req[r].stale
<1>1. /\ req[r] \in ReqType /\ GoodReq(req[r], clock) /\ req[r].at = "reply"
      /\ clock \in Nat
      /\ UNCHANGED <<cache, clock, starts>>
  <2>1. req[r].at = "reply" /\ UNCHANGED <<cache, clock, starts>>
    BY Zenon DEF Receive, ReceiveUncacheable, ServeStaleAnswer, ReceiveFailure
  <2> QED BY <2>1 DEF IInv, TypeOK
<1>2. /\ cache' \in CacheType /\ WellFormed(cache') /\ CacheGood'
      /\ starts' \in 0 .. MaxStarts
  BY <1>1, Zenon DEF IInv, TypeOK, CacheGood
<1>3. e \in Entry /\ req[r].now \in Nat /\ e.asked \in Nat /\ e.rr \in RRTTL
      /\ req[r].now <= e.asked /\ clock <= req[r].now + Budget
  <2>1. e \in Entry /\ req[r].now \in Nat
    BY <1>1, ReplyGood, ReqFields, Zenon
  <2> QED BY <1>1, <2>1, ReplyGood, EntryFields, Zenon
<1>4. ASSUME NEW q \in ReqType, GoodReq(q, clock), req' = [req EXCEPT ![r] = q]
      PROVE  IInv'
  BY <1>1, <1>2, <1>4, OneRequest, Zenon
<1>5. ASSUME req' = [req EXCEPT ![r] = ReadClock(r)], req[r].key \in Keys
      PROVE  IInv'
  BY <1>1, <1>4, <1>5, ReadClockProps, Zenon
<1>6. /\ clock - e.asked < AgeBound("Live", e)
      /\ clock - e.asked < AgeBound("Servfail", e)
  BY <1>1, <1>3, PathAssumption DEF AgeBound
<1>7. "Live" \in Ends /\ "Servfail" \in Ends /\ "Stale" \in Ends
      /\ 0 \in RRTTL /\ StaleTTL \in RRTTL
  BY CacheAssumption DEF Ends, RRTTL
<1>8. CASE Receive(r)
  <2>1. req[r].key \in Keys
    BY <1>1, <1>8, Zenon DEF Receive, ReqType
  <2> QED BY <1>5, <1>8, <2>1, Zenon DEF Receive
<1>9. CASE ReceiveUncacheable(r)
  <2>1. req' = [req EXCEPT ![r] = Ended(r, "Live", e, e.rr)]
    BY <1>9, Zenon DEF ReceiveUncacheable
  <2> HIDE DEF e
  <2>2. Ended(r, "Live", e, e.rr) \in ReqType /\ GoodReq(Ended(r, "Live", e, e.rr), clock)
    BY <1>3, <1>6, <1>7, EndedProps, Zenon DEF IInv
  <2> QED BY <1>4, <2>1, <2>2, Zenon
<1>10. CASE ServeStaleAnswer(r)
  <2>1. req' = [req EXCEPT ![r] = Ended(r, "Stale", s, StaleTTL)] /\ s # NoEntry
    BY <1>10, Zenon DEF ServeStaleAnswer
  <2>2. s \in Entry /\ s.insertedAt \in Nat /\ s.asked \in Nat /\ s.ttl \in Nat
    <3>1. s \in Entry
      BY <1>1, <2>1, Zenon DEF ReqType
    <3> QED BY <3>1, Zenon DEF Entry
  <2>3. /\ s.insertedAt - s.asked <= Budget
        /\ req[r].now - s.insertedAt < s.ttl + StaleMaxAge + MaxLag
    <3>1. Good(s)
      BY <1>1, <2>1, ReplyGood, Zenon
    <3> QED BY <1>1, <2>1, <3>1, ReplyGood, Zenon DEF Good
  <2>4. clock - s.asked < AgeBound("Stale", s)
    BY <1>1, <1>3, <2>2, <2>3, PathAssumption, CacheAssumption DEF AgeBound
  <2> HIDE DEF s
  <2>5. /\ Ended(r, "Stale", s, StaleTTL) \in ReqType
        /\ GoodReq(Ended(r, "Stale", s, StaleTTL), clock)
    BY <1>7, <2>2, <2>4, EndedProps, Zenon DEF IInv
  <2> QED BY <1>4, <2>1, <2>5, Zenon
<1>11. CASE ReceiveFailure(r)
  <2>1. CASE req[r].key = NoKey
    <3>1. req' = [req EXCEPT ![r] = Ended(r, "Servfail", e, 0)]
      BY <1>11, <2>1, Zenon DEF ReceiveFailure
    <3> HIDE DEF e
    <3>2. Ended(r, "Servfail", e, 0) \in ReqType /\ GoodReq(Ended(r, "Servfail", e, 0), clock)
      BY <1>3, <1>6, <1>7, EndedProps, Zenon DEF IInv
    <3> QED BY <1>4, <3>1, <3>2, Zenon
  <2>2. CASE req[r].key # NoKey
    <3>1. req[r].key \in Keys
      BY <1>1, <2>2, Zenon DEF ReqType
    <3> QED BY <1>5, <1>11, <2>2, <3>1, Zenon DEF ReceiveFailure
  <2> QED BY <2>1, <2>2, Zenon
<1> QED BY <1>8, <1>9, <1>10, <1>11, Zenon

\* Store and StoreFail put a good entry, and the answer goes out.
LEMMA StoreIInv ==
    ASSUME IInv, NEW r \in Requests, Store(r)
    PROVE  IInv'
<1> DEFINE e == req[r].reply
           k == req[r].key
           end == IF e.kind = "fail" THEN "Servfail" ELSE "Live"
           t == IF e.kind = "fail" THEN 0 ELSE e.rr
<1>1. /\ req[r] \in ReqType /\ GoodReq(req[r], clock) /\ req[r].at = "put"
      /\ clock \in Nat /\ cache \in CacheType /\ WellFormed(cache)
      /\ UNCHANGED <<clock, starts>>
      /\ cache' = Put(cache, k, e)
  <2>1. req[r].at = "put" /\ UNCHANGED <<clock, starts>> /\ cache' = Put(cache, k, e)
    BY Zenon DEF Store
  <2> QED BY <2>1 DEF IInv, TypeOK
<1>2. e \in Entry /\ k \in Keys /\ req[r].now \in Nat /\ Good(e)
      /\ e.insertedAt = req[r].now /\ clock <= req[r].now + MaxLag
  BY <1>1, PutGood, ReqFields, Zenon
<1>3. e.asked \in Nat /\ e.rr \in RRTTL /\ e.insertedAt \in Nat
  BY <1>2, EntryFields, Zenon
<1>4. cache' \in CacheType /\ WellFormed(cache') /\ CacheGood'
  <2>1. /\ cache' \in CacheType /\ WellFormed(cache')
        /\ \A x \in Keys : cache'.m[x] \in {cache.m[x], e, NoEntry}
    BY <1>1, <1>2, PutProps, Zenon
  <2> QED BY <1>2, <2>1, Zenon DEF IInv, CacheGood
<1>5. req' = [req EXCEPT ![r] = Ended(r, end, e, t)]
  BY Zenon DEF Store
<1>6. clock - e.asked < AgeBound(end, e)
  BY <1>1, <1>2, <1>3, PathAssumption DEF AgeBound, Good
<1>7. end \in Ends /\ t \in RRTTL
  BY <1>3, CacheAssumption DEF Ends, RRTTL
<1> HIDE DEF e, end, t
<1>8. Ended(r, end, e, t) \in ReqType /\ GoodReq(Ended(r, end, e, t), clock)
  BY <1>2, <1>6, <1>7, EndedProps, Zenon DEF IInv
<1>9. starts' \in 0 .. MaxStarts
  BY <1>1, Zenon DEF IInv, TypeOK
<1> QED BY <1>1, <1>4, <1>5, <1>8, <1>9, OneRequest, Zenon

\* Flush leaves an empty cache and touches no request.
LEMMA FlushIInv ==
    ASSUME IInv, FlushCache
    PROVE  IInv'
<1>1. cache' = NewCache /\ UNCHANGED <<clock, req, starts>>
  BY DEF FlushCache, Flush
<1>2. cache'.ll = <<>> /\ cache'.m = [k \in Keys |-> NoEntry]
  BY <1>1 DEF NewCache
<1>3. cache' \in CacheType
  BY <1>1 DEF NewCache, CacheType
<1>4. WellFormed(cache') /\ CacheGood'
  BY <1>2, CacheAssumption DEF WellFormed, CacheGood
<1>5. TypeOK'
  BY <1>1, <1>3, Zenon DEF IInv, TypeOK
<1>6. \A r \in Requests : GoodReq(req[r], clock)'
  BY <1>1, Zenon DEF IInv, GoodReq, Good, AgeBound
<1> QED BY <1>4, <1>5, <1>6, Zenon DEF IInv

\* MayTick stops the clock at the deadline of every request.
LEMMA TickIInv ==
    ASSUME IInv, Tick
    PROVE  IInv'
<1>1. clock \in Nat /\ clock' = clock + 1 /\ clock' \in 0 .. MaxTime
      /\ UNCHANGED <<cache, req, starts>>
  BY PathAssumption DEF Tick, IInv, TypeOK
<1>2. TypeOK' /\ WellFormed(cache') /\ CacheGood'
  BY <1>1, Zenon DEF IInv, TypeOK, CacheGood
<1>3. ASSUME NEW r \in Requests
      PROVE  GoodReq(req[r], clock')
  <2>1. GoodReq(req[r], clock) /\ req[r] \in ReqType /\ MayTick(r)
    BY Zenon DEF IInv, TypeOK, Tick
  <2>2. req[r].now \in Nat
    BY <2>1, Zenon DEF ReqType
  <2>3. req[r].at \in {"upstream", "reply"} =>
          req[r].now <= clock' /\ clock' <= req[r].now + Budget
    BY <1>1, <2>1, <2>2, PathAssumption DEF MayTick, GoodReq
  <2>4. req[r].at \in {"lookup", "put"} => clock' <= req[r].now + MaxLag
    BY <1>1, <2>1, <2>2, PathAssumption DEF MayTick, GoodReq
  <2> QED BY <2>1, <2>3, <2>4, Zenon DEF GoodReq
<1> QED BY <1>1, <1>2, <1>3, Zenon DEF IInv

\* Every step of the forward path keeps the inductive invariant.
LEMMA NextIInv == IInv /\ [Next]_vars => IInv'
<1> SUFFICES ASSUME IInv, [Next]_vars PROVE IInv'
  OBVIOUS
<1>1. ASSUME NEW r \in Requests, NEW k \in Keys \cup {NoKey}, Start(r, k)
      PROVE  IInv'
  BY <1>1, StartIInv
<1>2. ASSUME NEW r \in Requests, Step(r)
      PROVE  IInv'
  <2>1. CASE Lookup(r)
    BY <2>1, LookupIInv
  <2>2. ASSUME NEW kind \in {"pos", "neg", "fail"}, NEW t \in TTLs, Upstream(r, kind, t)
        PROVE  IInv'
    BY <2>2, UpstreamIInv
  <2>3. CASE Receive(r) \/ ReceiveUncacheable(r) \/ ServeStaleAnswer(r) \/ ReceiveFailure(r)
    BY <2>3, ReceiveIInv
  <2>4. CASE Store(r)
    BY <2>4, StoreIInv
  <2> QED BY <1>2, <2>1, <2>2, <2>3, <2>4 DEF Step
<1>3. CASE FlushCache
  BY <1>3, FlushIInv, Zenon
<1>4. CASE Tick
  BY <1>4, TickIInv
<1>5. CASE UNCHANGED vars
  BY <1>5 DEF vars, IInv, TypeOK, CacheGood, GoodReq, Good, AgeBound
<1> QED BY <1>1, <1>2, <1>3, <1>4, <1>5, Zenon DEF Next, Terminating

----------------------------------------------------------------------------
\* The inductive invariant holds in every reachable state.
THEOREM Invariance == Spec => []IInv
<1> QED BY InitIInv, NextIInv, PTL DEF Spec

\* Type correctness: every TTL given to a client fits its width, for any clamps,
\* capacity and number of concurrent requests.
THEOREM TypeCorrect == Spec => []TypeOK
<1>1. IInv => TypeOK
  BY Zenon DEF IInv
<1> QED BY <1>1, Invariance, PTL

\* The cache's map and recency list never disagree: put, Lookup, removal, eviction
\* and Flush in any interleaving keep one list element per key, within capacity.
THEOREM ListMatchesMapHolds == Spec => []ListMatchesMap
<1>1. IInv => ListMatchesMap
  BY Zenon DEF IInv, ListMatchesMap
<1> QED BY <1>1, Invariance, PTL

\* No client is given an answer older than the bound of its kind, whatever the
\* order in which concurrent requests look up, store and flush.
THEOREM AnswerAgeHolds == Spec => []AnswerAge
<1>1. ASSUME NEW q, NEW t, GoodReq(q, t), q.at = "done"
      PROVE  q.endedAt - q.reply.asked < AgeBound(q.end, q.reply)
  BY <1>1, Zenon DEF GoodReq
<1>2. IInv => AnswerAge
  BY <1>1, Zenon DEF IInv, AnswerAge
<1> QED BY <1>2, Invariance, PTL
=============================================================================
