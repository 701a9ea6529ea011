--------------------------- MODULE ForwarderProofs ---------------------------
(***************************************************************************)
(* Breakers alone never end a list of upstreams, for every list, policy    *)
(* and number of queries.                                                  *)
(***************************************************************************)
EXTENDS Forwarder, TLAPS

ListNames == {"primary", "fallback", "stub"}
Places == {"idle", "walk", "exchange", "answered", "failed"}
Passes == {"normal", "forced"}
Positions == Nat \ {0}
QueryType ==
    [at : Places, list : ListNames, pass : Passes, i : Positions, allowedAny : BOOLEAN,
     expired : BOOLEAN, off : SUBSET Upstreams, tried : SUBSET Upstreams]

Running(x) == x.at \in {"walk", "exchange"}
Members(x) == ToSet(Lists[x.list])

\* Breakers have no say in what was passed over so far: it was asked, is switched off, or
\* has no name to verify.
Passed(x) ==
    \A j \in 1 .. Len(Lists[x.list]) :
       j < x.i => Lists[x.list][j] \in x.tried \cup x.off \cup NoSNI

Left(x, list) ==
    x.tried \cap ToSet(Lists[list]) # {} \/ Usable(list) \subseteq x.off

\* Of a query x, where d are the disabled upstreams.
QueryOK(x, d) ==
    /\ Running(x) =>
         /\ d \subseteq x.off
         /\ x.allowedAny => x.tried \cap Members(x) # {}
         /\ x.pass = "forced" \/ ~BreakerEnabled => Passed(x)
    /\ x.at = "exchange" => x.i <= Len(Lists[x.list]) /\ Lists[x.list][x.i] \in x.tried
    /\ x.list = "fallback" => Cleartext /\ Left(x, "primary")
    /\ x.at = "failed" => Left(x, x.list)

Inv ==
    /\ disabled \subseteq Upstreams
    /\ query \in [Queries -> QueryType]
    /\ \A q \in Queries : QueryOK(query[q], disabled)

----------------------------------------------------------------------------
\* What tryAll sets its control state to.
LEMMA Constants ==
    /\ "walk" \in Places /\ "exchange" \in Places /\ "failed" \in Places
    /\ "normal" \in Passes /\ "forced" \in Passes /\ "fallback" \in ListNames
    /\ 1 \in Positions /\ \A i \in Positions : i + 1 \in Positions
BY DEF Places, Passes, ListNames, Positions

\* The lists are sequences, and only DoT upstreams may lack a server name.
LEMMA ListFacts ==
    ASSUME NEW list \in ListNames
    PROVE  /\ Len(Lists[list]) \in Nat
           /\ ToSet(Lists[list]) = {Lists[list][j] : j \in 1 .. Len(Lists[list])}
           /\ ToSet(Lists[list]) \subseteq Upstreams
           /\ list # "primary" => ToSet(Lists[list]) \cap NoSNI = {}
<1>1. \A s : s \in Seq(ToSet(s)) => Len(s) \in Nat /\ DOMAIN s = 1 .. Len(s)
  OBVIOUS
<1>2. /\ Lists["primary"] = Primary /\ Lists["fallback"] = Fallback /\ Lists["stub"] = Stub
  BY DEF Lists
<1>3. Lists[list] \in {Primary, Fallback, Stub}
  BY <1>2 DEF ListNames
<1>4. Len(Lists[list]) \in Nat /\ DOMAIN Lists[list] = 1 .. Len(Lists[list])
  BY <1>1, <1>3, ForwarderAssumption
<1>5. ToSet(Lists[list]) = {Lists[list][j] : j \in 1 .. Len(Lists[list])}
  BY <1>4 DEF ToSet
<1>6. ToSet(Lists[list]) \subseteq Upstreams
  BY <1>3 DEF Upstreams
<1>7. list # "primary" => ToSet(Lists[list]) \cap NoSNI = {}
  BY <1>2, ForwarderAssumption DEF ListNames
<1> QED
  BY <1>4, <1>5, <1>6, <1>7

\* A list that ended with nobody asked in it was left for the manual switches alone.
LEMMA LeftWhenPassed ==
    ASSUME NEW x \in QueryType, Passed(x), x.i > Len(Lists[x.list])
    PROVE  Left(x, x.list)
<1>1. x.list \in ListNames /\ x.i \in Nat
  BY DEF QueryType, Positions
<1>2. \A u \in ToSet(Lists[x.list]) : u \in x.tried \cup x.off \cup NoSNI
  <2>1. \A j \in 1 .. Len(Lists[x.list]) : j < x.i
    BY <1>1, ListFacts
  <2>2. ToSet(Lists[x.list]) = {Lists[x.list][j] : j \in 1 .. Len(Lists[x.list])}
    BY <1>1, ListFacts
  <2> QED
    BY <2>1, <2>2 DEF Passed
<1> QED
  BY <1>2 DEF Left, Usable

\* The lists change only for one query, and it stays good.
LEMMA OneQuery ==
    ASSUME Inv, NEW q \in Queries, NEW x \in QueryType, QueryOK(x, disabled),
           query' = [query EXCEPT ![q] = x], disabled' = disabled
    PROVE  Inv'
<1>1. query' \in [Queries -> QueryType]
  BY DEF Inv
<1>2. \A p \in Queries : query'[p] = IF p = q THEN x ELSE query[p]
  BY DEF Inv
<1> QED
  BY <1>1, <1>2 DEF Inv

\* Nothing is disabled and no query runs at the start.
LEMMA InvInit == Init => Inv
<1> SUFFICES ASSUME Init PROVE Inv
  OBVIOUS
<1>1. NoQuery("idle") \in QueryType
  BY DEF NoQuery, QueryType, ListNames, Places, Passes, Positions
<1>2. QueryOK(NoQuery("idle"), disabled)
  BY DEF NoQuery, QueryOK, Running
<1> QED
  BY <1>1, <1>2 DEF Init, Inv

\* Forward and ForwardTo start at the head of their list.
LEMMA StartKeeps ==
    ASSUME Inv, NEW q \in Queries, NEW list \in {"primary", "stub"}, Start(q, list)
    PROVE  Inv'
<1> DEFINE x == NewQuery(list)
<1>1. x \in QueryType
  BY DEF NewQuery, QueryType, ListNames, Places, Passes, Positions, Inv
<1>2. x.i = 1 /\ x.list = list
  BY DEF NewQuery
<1>3. Passed(x)
  BY <1>2 DEF Passed
<1>4. QueryOK(x, disabled)
  BY <1>3 DEF NewQuery, QueryOK
<1> HIDE DEF x
<1> QED
  BY <1>1, <1>4, OneQuery DEF Start, x

\* What a query is while it walks or waits.
LEMMA Runs ==
    ASSUME Inv, NEW q \in Queries, query[q].at \in {"walk", "exchange"}
    PROVE  /\ query[q] \in QueryType /\ QueryOK(query[q], disabled) /\ Running(query[q])
           /\ query[q].list \in ListNames /\ query[q].i \in Positions
           /\ Len(Lists[query[q].list]) \in Nat
<1>1. query[q] \in QueryType /\ QueryOK(query[q], disabled)
  BY DEF Inv
<1>2. query[q].list \in ListNames /\ query[q].i \in Positions
  BY <1>1 DEF QueryType
<1> QED
  BY <1>1, <1>2, ListFacts DEF Running

\* The walk goes on past an entry that breakers had no say in.
LEMMA PassedNext ==
    ASSUME NEW x \in QueryType, NEW y \in QueryType, Passed(x),
           y.list = x.list, y.i = x.i + 1, x.tried \subseteq y.tried, x.off \subseteq y.off,
           x.i <= Len(Lists[x.list]) => Lists[x.list][x.i] \in y.tried \cup y.off \cup NoSNI
    PROVE  Passed(y)
<1>1. x.i \in Nat /\ x.list \in ListNames
  BY DEF QueryType, Positions
<1>2. Len(Lists[x.list]) \in Nat
  BY <1>1, ListFacts
<1> SUFFICES ASSUME NEW j \in 1 .. Len(Lists[x.list]), j < x.i + 1
             PROVE  Lists[x.list][j] \in y.tried \cup y.off \cup NoSNI
  BY DEF Passed
<1>3. j < x.i \/ (j = x.i /\ x.i <= Len(Lists[x.list]))
  BY <1>1, <1>2
<1> QED
  BY <1>3 DEF Passed

\* An entry that is skipped while breakers are not asked is switched off or has no name.
LEMMA SkipKeeps ==
    ASSUME Inv, NEW q \in Queries, SkipUpstream(q)
    PROVE  Inv'
<1> DEFINE o == query[q]
           x == [o EXCEPT !.i = @ + 1]
<1>1. /\ o \in QueryType /\ QueryOK(o, disabled) /\ Running(o) /\ o.i \in Positions
      /\ o.at = "walk"
  BY Runs DEF SkipUpstream, Walking
<1>2. /\ x \in QueryType /\ x.at = o.at /\ x.list = o.list /\ x.pass = o.pass /\ x.i = o.i + 1
      /\ x.allowedAny = o.allowedAny /\ x.off = o.off /\ x.tried = o.tried
  <2> HIDE DEF o
  <2> QED
    BY <1>1, Constants DEF QueryType
<1>3. query' = [query EXCEPT ![q] = x] /\ disabled' = disabled
  BY DEF SkipUpstream
<1>4. o.pass = "forced" \/ ~BreakerEnabled
         => Lists[o.list][o.i] \in disabled \cup NoSNI
  BY DEF SkipUpstream, Unusable, Admitted, Current, List
<1> HIDE DEF x, o
<1>5. disabled \subseteq o.off
  BY <1>1 DEF QueryOK
<1>6. x.pass = "forced" \/ ~BreakerEnabled => Passed(x)
  BY <1>1, <1>2, <1>4, <1>5, PassedNext DEF QueryOK
<1>7. QueryOK(x, disabled)
  BY <1>1, <1>2, <1>6 DEF QueryOK, Running, Members, Left
<1> QED
  BY <1>2, <1>3, <1>7, OneQuery

\* The upstream that is asked is remembered.
LEMMA AttemptKeeps ==
    ASSUME Inv, NEW q \in Queries, Attempt(q)
    PROVE  Inv'
<1> DEFINE o == query[q]
           u == Lists[o.list][o.i]
           x == [o EXCEPT !.at = "exchange", !.allowedAny = @ \/ o.pass = "normal",
                          !.tried = @ \cup {u}]
<1>1. /\ o \in QueryType /\ QueryOK(o, disabled) /\ Running(o) /\ o.i \in Positions
      /\ o.list \in ListNames /\ Len(Lists[o.list]) \in Nat /\ o.at = "walk"
  BY Runs DEF Attempt, Walking
<1>2. o.i <= Len(Lists[o.list])
  BY DEF Attempt, InList, List
<1>3. u \in ToSet(Lists[o.list]) /\ u \in Upstreams
  <2>1. /\ ToSet(Lists[o.list]) = {Lists[o.list][j] : j \in 1 .. Len(Lists[o.list])}
        /\ ToSet(Lists[o.list]) \subseteq Upstreams
    BY <1>1, ListFacts
  <2>2. o.i \in 1 .. Len(Lists[o.list])
    BY <1>1, <1>2 DEF Positions
  <2> QED
    BY <2>1, <2>2
<1>4. query' = [query EXCEPT ![q] = x] /\ disabled' = disabled
  BY DEF Attempt, Current, List
<1> HIDE DEF u
<1>5. /\ x \in QueryType /\ x.at = "exchange" /\ x.list = o.list /\ x.pass = o.pass /\ x.i = o.i
      /\ x.off = o.off /\ x.tried = o.tried \cup {u}
  <2> HIDE DEF o
  <2>1. x \in QueryType
    BY <1>1, <1>3, Constants DEF QueryType
  <2> QED
    BY <1>1, <2>1 DEF QueryType
<1> HIDE DEF x, o
<1>6. x.pass = "forced" \/ ~BreakerEnabled => Passed(x)
  BY <1>1, <1>5 DEF QueryOK, Passed
<1>7. x.tried \cap Members(x) # {} /\ Lists[x.list][x.i] \in x.tried
  BY <1>3, <1>5 DEF Members, u
<1>8. QueryOK(x, disabled)
  BY <1>1, <1>2, <1>5, <1>6, <1>7 DEF QueryOK, Running, Left
<1> QED
  BY <1>4, <1>5, <1>8, OneQuery

\* A failed exchange goes on to the next entry; an answer ends the query.
LEMMA FinishKeeps ==
    ASSUME Inv, NEW q \in Queries, NEW ok \in BOOLEAN, Finish(q, ok)
    PROVE  Inv'
<1>1. CASE ok
  <2>1. NoQuery("answered") \in QueryType
    BY DEF NoQuery, QueryType, ListNames, Places, Passes, Positions
  <2>2. QueryOK(NoQuery("answered"), disabled)
    BY DEF NoQuery, QueryOK, Running
  <2>3. query' = [query EXCEPT ![q] = NoQuery("answered")] /\ disabled' = disabled
    BY <1>1 DEF Finish
  <2> QED
    BY <2>1, <2>2, <2>3, OneQuery
<1>2. CASE ~ok
  <2> DEFINE o == query[q]
             x == [o EXCEPT !.at = "walk", !.i = @ + 1]
  <2>1. o \in QueryType /\ QueryOK(o, disabled) /\ Running(o) /\ o.i \in Positions /\ o.at = "exchange"
    BY Runs DEF Finish
  <2>2. /\ x \in QueryType /\ x.at = "walk" /\ x.list = o.list /\ x.pass = o.pass /\ x.i = o.i + 1
        /\ x.allowedAny = o.allowedAny /\ x.off = o.off /\ x.tried = o.tried
    <3> HIDE DEF o
    <3>1. x \in QueryType
      BY <2>1, Constants DEF QueryType
    <3> QED
      BY <2>1, <3>1 DEF QueryType
  <2>3. query' = [query EXCEPT ![q] = x] /\ disabled' = disabled
    <3>1. query' = [query EXCEPT ![q] = IF ok THEN NoQuery("answered") ELSE x] /\ disabled' = disabled
      BY DEF Finish
    <3> HIDE DEF x
    <3> QED
      BY <1>2, <3>1
  <2> HIDE DEF x, o
  <2>4. x.pass = "forced" \/ ~BreakerEnabled => Passed(x)
    BY <2>1, <2>2, PassedNext DEF QueryOK
  <2>5. QueryOK(x, disabled)
    BY <2>1, <2>2, <2>4 DEF QueryOK, Running, Members, Left
  <2> QED
    BY <2>2, <2>3, <2>5, OneQuery
<1> QED
  BY <1>1, <1>2

\* The forced pass starts over, with no entry passed.
LEMMA FailOpenKeeps ==
    ASSUME Inv, NEW q \in Queries, FailOpenPass(q)
    PROVE  Inv'
<1> DEFINE o == query[q]
           x == [o EXCEPT !.pass = "forced", !.i = 1]
<1>1. o \in QueryType /\ QueryOK(o, disabled) /\ Running(o) /\ o.at = "walk"
  BY Runs DEF FailOpenPass, Walking
<1>2. /\ x \in QueryType /\ x.at = "walk" /\ x.list = o.list /\ x.i = 1
      /\ x.allowedAny = o.allowedAny /\ x.off = o.off /\ x.tried = o.tried
  <2> HIDE DEF o
  <2>1. x \in QueryType
    BY <1>1, Constants DEF QueryType
  <2> QED
    BY <1>1, <2>1 DEF QueryType
<1>3. query' = [query EXCEPT ![q] = x] /\ disabled' = disabled
  BY DEF FailOpenPass
<1> HIDE DEF x, o
<1>4. Passed(x)
  BY <1>2 DEF Passed
<1>5. QueryOK(x, disabled)
  BY <1>1, <1>2, <1>4 DEF QueryOK, Running, Members, Left
<1> QED
  BY <1>2, <1>3, <1>5, OneQuery

\* tryAll ends: an upstream was asked, or breakers had no say in the last pass.
LEMMA ListEnds ==
    ASSUME Inv, NEW q \in Queries, Walking(q), ~InList(q), ~ForcedPassDue(q)
    PROVE  Left(query[q], query[q].list)
<1> DEFINE o == query[q]
<1>1. /\ o \in QueryType /\ QueryOK(o, disabled) /\ Running(o) /\ o.i \in Positions
      /\ Len(Lists[o.list]) \in Nat
  BY Runs DEF Walking
<1>2. o.i > Len(Lists[o.list])
  BY <1>1 DEF InList, List, Positions
<1>3. o.pass \in {"normal", "forced"}
  BY <1>1 DEF QueryType, Passes
<1>4. o.allowedAny \/ o.pass = "forced" \/ ~BreakerEnabled
  BY <1>3 DEF ForcedPassDue
<1> HIDE DEF o
<1>5. o.allowedAny => Left(o, o.list)
  BY <1>1 DEF QueryOK, Members, Left
<1>6. o.pass = "forced" \/ ~BreakerEnabled => Left(o, o.list)
  BY <1>1, <1>2, LeftWhenPassed DEF QueryOK
<1> QED
  BY <1>4, <1>5, <1>6 DEF o

\* Cleartext is used only after the DoT list ended.
LEMMA FallbackKeeps ==
    ASSUME Inv, NEW q \in Queries, CleartextFallback(q)
    PROVE  Inv'
<1> DEFINE o == query[q]
           x == [o EXCEPT !.list = "fallback", !.pass = "normal", !.i = 1, !.allowedAny = FALSE]
<1>1. o \in QueryType /\ QueryOK(o, disabled) /\ Running(o) /\ o.at = "walk"
  BY Runs DEF CleartextFallback, Walking
<1>2. Left(o, "primary") /\ Cleartext
  BY ListEnds DEF CleartextFallback
<1>3. /\ x \in QueryType /\ x.at = "walk" /\ x.list = "fallback" /\ x.i = 1
      /\ x.allowedAny = FALSE /\ x.off = o.off /\ x.tried = o.tried
  <2> HIDE DEF o
  <2>1. x \in QueryType
    BY <1>1, Constants DEF QueryType
  <2> QED
    BY <1>1, <2>1 DEF QueryType
<1>4. query' = [query EXCEPT ![q] = x] /\ disabled' = disabled
  BY DEF CleartextFallback
<1> HIDE DEF x, o
<1>5. Passed(x)
  BY <1>3 DEF Passed
<1>6. QueryOK(x, disabled)
  BY <1>1, <1>2, <1>3, <1>5 DEF QueryOK, Running, Left
<1> QED
  BY <1>3, <1>4, <1>6, OneQuery

\* A query fails only after its last list ended.
LEMMA GiveUpKeeps ==
    ASSUME Inv, NEW q \in Queries, GiveUp(q)
    PROVE  Inv'
<1> DEFINE o == query[q]
           x == [o EXCEPT !.at = "failed", !.pass = "normal", !.i = 1, !.allowedAny = FALSE]
<1>1. o \in QueryType /\ QueryOK(o, disabled)
  BY Runs DEF GiveUp, Walking
<1>2. Left(o, o.list)
  BY ListEnds DEF GiveUp
<1>3. /\ x \in QueryType /\ x.at = "failed" /\ x.list = o.list
      /\ x.off = o.off /\ x.tried = o.tried
  <2> HIDE DEF o
  <2>1. x \in QueryType
    BY <1>1, Constants DEF QueryType
  <2> QED
    BY <1>1, <2>1 DEF QueryType
<1>4. query' = [query EXCEPT ![q] = x] /\ disabled' = disabled
  BY DEF GiveUp
<1> HIDE DEF x, o
<1>5. QueryOK(x, disabled)
  BY <1>1, <1>2, <1>3 DEF QueryOK, Running, Left
<1> QED
  BY <1>3, <1>4, <1>5, OneQuery

\* A deadline that passes changes nothing of the walk.
LEMMA ExpireKeeps ==
    ASSUME Inv, NEW q \in Queries, Expire(q)
    PROVE  Inv'
<1> DEFINE o == query[q]
           x == [o EXCEPT !.expired = TRUE]
<1>1. o \in QueryType /\ QueryOK(o, disabled)
  BY Runs DEF Expire
<1>2. /\ x \in QueryType /\ x.at = o.at /\ x.list = o.list /\ x.pass = o.pass /\ x.i = o.i
      /\ x.allowedAny = o.allowedAny /\ x.off = o.off /\ x.tried = o.tried
  BY <1>1 DEF QueryType
<1>3. query' = [query EXCEPT ![q] = x] /\ disabled' = disabled
  BY DEF Expire
<1> HIDE DEF x, o
<1>4. QueryOK(x, disabled)
  BY <1>1, <1>2 DEF QueryOK, Running, Members, Left, Passed
<1> QED
  BY <1>2, <1>3, <1>4, OneQuery

\* A switch is noted by every query in flight, wherever it is in its list.
LEMMA SwitchKeeps ==
    ASSUME Inv, NEW u \in Upstreams, NEW enabled \in BOOLEAN, SetBackendEnabled(u, enabled)
    PROVE  Inv'
<1>1. disabled' \subseteq Upstreams
  BY DEF SetBackendEnabled, Inv
<1>2. ASSUME NEW q \in Queries PROVE query'[q] \in QueryType /\ QueryOK(query'[q], disabled')
  <2> DEFINE o == query[q]
             x == [o EXCEPT !.off = @ \cup disabled']
  <2>1. o \in QueryType /\ QueryOK(o, disabled)
    BY DEF Inv
  <2>2. query'[q] = IF Running(o) THEN x ELSE o
    BY DEF SetBackendEnabled, Running
  <2>3. /\ x \in QueryType /\ x.at = o.at /\ x.list = o.list /\ x.pass = o.pass /\ x.i = o.i
        /\ x.allowedAny = o.allowedAny /\ x.off = o.off \cup disabled' /\ x.tried = o.tried
    BY <1>1, <2>1 DEF QueryType
  <2> HIDE DEF x, o
  <2>4. CASE Running(o)
    <3>1. Passed(o) => Passed(x)
      BY <2>3 DEF Passed
    <3>2. \A list : Left(o, list) => Left(x, list)
      BY <2>3 DEF Left
    <3>3. QueryOK(x, disabled')
      BY <2>1, <2>3, <2>4, <3>1, <3>2 DEF QueryOK, Running, Members
    <3> QED
      BY <2>2, <2>3, <2>4, <3>3
  <2>5. CASE ~Running(o)
    BY <2>1, <2>2, <2>5 DEF QueryOK, Running
  <2> QED
    BY <2>4, <2>5
<1>3. query' \in [Queries -> QueryType]
  BY <1>2 DEF SetBackendEnabled
<1> QED
  BY <1>1, <1>2, <1>3 DEF Inv

\* Every step keeps Inv.
LEMMA InvStep == Inv /\ [Next]_vars => Inv'
<1> SUFFICES ASSUME Inv, [Next]_vars PROVE Inv'
  OBVIOUS
<1>1. ASSUME UNCHANGED <<query, disabled>> PROVE Inv'
  BY <1>1 DEF Inv
<1>2. CASE ResetBackends
  <2>1. disabled' = {} /\ query' = query
    BY <1>2 DEF ResetBackends
  <2> QED
    BY <2>1 DEF Inv, QueryOK
<1>3. CASE \E u \in Upstreams : Flip(u)
  BY <1>1, <1>3 DEF Flip
<1>4. CASE Tick \/ Terminating \/ UNCHANGED vars
  BY <1>1, <1>4 DEF Tick, Terminating, vars
<1>5. ASSUME NEW q \in Queries, Step(q) PROVE Inv'
  BY <1>5, SkipKeeps, AttemptKeeps, FinishKeeps, FailOpenKeeps, FallbackKeeps, GiveUpKeeps DEF Step
<1> QED
  BY <1>2, <1>3, <1>4, <1>5, StartKeeps, ExpireKeeps, SwitchKeeps DEF Next

\* tryAll's forced pass does its job: whatever state the breakers are in, for any lists
\* of upstreams and any concurrent switches, a query leaves a list only after it asked
\* one of them, or when each was manually disabled during the query.
THEOREM NoSilentSkipHolds == Spec => []NoSilentSkip
<1>1. Inv => NoSilentSkip
  BY DEF Inv, QueryOK, Left, NoSilentSkip, LeftForCause
<1> QED
  BY <1>1, InvInit, InvStep, PTL DEF Spec
=============================================================================
