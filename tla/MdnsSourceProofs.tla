-------------------------- MODULE MdnsSourceProofs --------------------------
(***************************************************************************)
(* Proofs about the mDNS source: for every set of hosts, addresses,        *)
(* goroutines and packets, and for every bound and grace, both stores keep *)
(* their bounds, an allocation given with strong trust survives whatever   *)
(* the volatile store does, and nothing else gets into the trusted store.  *)
(***************************************************************************)
EXTENDS MdnsSource, FiniteSetTheorems, TLAPS

\* Announcements as packets carry them, calls to onChange, and what a goroutine holds.
Carried == {a \in Announcement : a.addrs # {}}
Calls == [host : Hosts, addrs : SUBSET Addrs]
Views == [Hosts -> [trusted : SUBSET Addrs, other : SUBSET Addrs]]
Gors == [at : {"idle", "apply", "call", "build", "store"}, anns : Seq(Carried),
         trust : Trust, now : Nat, changed : BOOLEAN, calls : Seq(Calls), snap : Views]

\* A goroutine has something to do where it stands.
Ready(s) == (s.at = "apply" => s.anns # <<>>) /\ (s.at = "call" => s.calls # <<>>)

TypeOK ==
    /\ cache \in CacheType
    /\ gor \in [Goroutines -> Gors]
    /\ \A g \in Goroutines : Ready(gor[g])
    /\ clock \in Nat
    /\ strong \in [Hosts -> TrustedEntry]

\* Both stores are finite and within their bounds.
Bounded ==
    /\ IsFiniteSet(Present(cache.hosts)) /\ Cardinality(Present(cache.hosts)) <= MaxHosts
    /\ IsFiniteSet(Present(cache.trusted))
    /\ MaxTrusted > 0 => Cardinality(Present(cache.trusted)) <= MaxTrusted

\* A host that was given an allocation still has one, as old as the last of it, or its
\* grace is over.
Kept ==
    \A h \in Hosts : strong[h].addrs # {} =>
       \/ cache.trusted[h].addrs # {} /\ cache.trusted[h].seen = strong[h].seen
       \/ PastGrace(strong[h], clock)

Inv == TypeOK /\ Bounded /\ Kept /\ TrustedProvenance

----------------------------------------------------------------------------
(* A store that makes room keeps its bound.                                *)

\* One element comes in; one that was there goes out first when there is no room.
LEMMA RoomMade ==
    ASSUME NEW S, IsFiniteSet(S), NEW n \in Nat \ {0}, Cardinality(S) <= n, NEW x, NEW E,
           \/ E = {} /\ (x \in S \/ Cardinality(S) < n)
           \/ \E g \in S : E = {g},
           NEW T \in SUBSET ((S \ E) \cup {x})
    PROVE  IsFiniteSet(T) /\ Cardinality(T) <= n
  <1> DEFINE U == (S \ E) \cup {x}
  <1>1. IsFiniteSet(U) /\ Cardinality(U) <= n
    <2>1. CASE E = {} /\ x \in S
      <3>1. U = S
        BY <2>1
      <3> QED
        BY <3>1
    <2>2. CASE E = {} /\ x \notin S /\ Cardinality(S) < n
      <3>1. U = S \cup {x}
        BY <2>2
      <3>2. Cardinality(S) \in Nat
        BY FS_CardinalityType
      <3> QED
        BY <2>2, <3>1, <3>2, FS_AddElement
    <2>3. ASSUME NEW g \in S, E = {g} PROVE IsFiniteSet(U) /\ Cardinality(U) <= n
      <3> DEFINE R == S \ {g}
      <3>1. /\ IsFiniteSet(R) /\ Cardinality(R) = Cardinality(S) - 1
            /\ Cardinality(S) \in Nat /\ Cardinality(R) \in Nat
        BY FS_RemoveElement, FS_CardinalityType
      <3>2. U = R \cup {x}
        BY <2>3
      <3> HIDE DEF R, U
      <3>3. IsFiniteSet(U) /\ Cardinality(U) \in {Cardinality(R), Cardinality(R) + 1}
        BY <3>1, <3>2, FS_AddElement
      <3> QED
        BY <3>1, <3>3
    <2> QED
      BY <2>1, <2>2, <2>3
  <1>2. IsFiniteSet(T) /\ Cardinality(T) <= Cardinality(U) /\ Cardinality(T) \in Nat
        /\ Cardinality(U) \in Nat
    BY <1>1, FS_Subset, FS_CardinalityType
  <1> QED
    BY <1>1, <1>2

----------------------------------------------------------------------------
(* What the operators return.                                              *)

\* A view of a well-formed cache is a view; an idle goroutine is a goroutine.
LEMMA ViewType == ASSUME NEW c \in CacheType, NEW now \in Nat PROVE View(c, now) \in Views
  BY DEF View, Views, CacheType, Entry, TrustedEntry, TrustedAddrs, VolatileAddrs

LEMMA NewCacheType == NewCache \in CacheType
  BY DEF NewCache, CacheType, Entry, NoEntry, TrustedEntry, NoTrusted, Time, Unset

LEMMA IdleType == IdleGor \in Gors
  <1>1. View(NewCache, 0) \in Views
    BY NewCacheType, ViewType
  <1>2. <<>> \in Seq(Carried) /\ <<>> \in Seq(Calls)
    OBVIOUS
  <1> QED
    BY <1>1, <1>2 DEF IdleGor, Gors, Trust

\* A handler that goes on keeps its shape, and applies only what it still has.
LEMMA ResumedType ==
    ASSUME NEW s \in Gors
    PROVE  /\ Resumed(s) \in Gors
           /\ Ready(Resumed(s))
  <1>0. <<>> \in Seq(Calls)
    OBVIOUS
  <1>1. CASE s.calls # <<>>
    BY <1>1 DEF Ready, Resumed, Gors
  <1>2. CASE s.calls = <<>> /\ s.anns # <<>>
    BY <1>0, <1>2 DEF Ready, Resumed, AfterCalls, Gors
  <1>3. CASE s.calls = <<>> /\ s.anns = <<>> /\ s.changed
    BY <1>0, <1>3 DEF Ready, Resumed, AfterCalls, Gors
  <1>4. CASE s.calls = <<>> /\ s.anns = <<>> /\ ~s.changed
    <2>1. Resumed(s) = IdleGor
      BY <1>4 DEF Resumed, AfterCalls
    <2> QED
      BY <2>1, IdleType DEF Ready, IdleGor
  <1> QED
    BY <1>1, <1>2, <1>3, <1>4

\* The volatile store after an announcement.
LEMMA AppliedHostsType ==
    ASSUME NEW hosts \in [Hosts -> Entry], NEW a \in Announcement, NEW now \in Nat,
           NEW ev \in Evicted(hosts, a.host)
    PROVE  /\ AppliedHosts(hosts, a, now, ev) \in [Hosts -> Entry]
           /\ Present(AppliedHosts(hosts, a, now, ev))
                \subseteq (Present(hosts) \ ev) \cup {a.host}
           /\ \/ ev = {} /\ (a.host \in Present(hosts) \/ ~(Cardinality(Present(hosts)) >= MaxHosts))
              \/ \E g \in Present(hosts) : ev = {g}
  <1>1. a.host \in Hosts /\ a.host \notin ev
    BY DEF Evicted, Oldest, Announcement
  <1>2. \A h \in Hosts : Announced(hosts[h], a, now) \in Entry
    <2> SUFFICES ASSUME NEW h \in Hosts PROVE Announced(hosts[h], a, now) \in Entry
      OBVIOUS
    <2>1. Folded(hosts[h].addrs, hosts[h].lastSeen, a, now) \in SUBSET Addrs
      BY DEF Folded, Entry, Announcement
    <2>2. FreshFor(a) \in Nat
      BY CacheAssumption DEF FreshFor, Lesser, Announcement
    <2> QED
      BY <2>1, <2>2, CacheAssumption DEF Announced, Entry, Time
  <1>3. \A h \in Hosts : AppliedHosts(hosts, a, now, ev)[h] =
           IF h = a.host THEN Announced(hosts[h], a, now)
           ELSE IF h \in ev THEN NoEntry ELSE hosts[h]
    BY <1>1 DEF AppliedHosts
  <1>4. NoEntry \in Entry /\ NoEntry.addrs = {}
    BY DEF NoEntry, Entry, Time, Unset
  <1>5. AppliedHosts(hosts, a, now, ev) \in [Hosts -> Entry]
    BY <1>2, <1>3, <1>4 DEF AppliedHosts
  <1>6. Present(AppliedHosts(hosts, a, now, ev)) \subseteq (Present(hosts) \ ev) \cup {a.host}
    BY <1>3, <1>4 DEF Present
  <1> QED
    BY <1>5, <1>6 DEF Evicted, Oldest

\* The trusted store after an announcement of strong trust, and the history beside it.
LEMMA AppliedTrustedType ==
    ASSUME NEW trusted \in [Hosts -> TrustedEntry], NEW a \in Announcement, NEW now \in Nat,
           NEW tev \in EvictedTrusted(trusted, a)
    PROVE  /\ AppliedTrusted(trusted, a, now, tev) \in [Hosts -> TrustedEntry]
           /\ a.host \notin tev
           /\ \A h \in Hosts : AppliedTrusted(trusted, a, now, tev)[h] =
                 IF h = a.host THEN Allocated(trusted[h], a, now)
                 ELSE IF h \in tev THEN NoTrusted ELSE trusted[h]
  <1>1. a.host \in Hosts /\ a.host \notin tev
    BY DEF EvictedTrusted, OldestTrusted, Announcement
  <1>2. NoTrusted \in TrustedEntry
    BY DEF NoTrusted, TrustedEntry, Time, Unset
  <1>3. \A h \in Hosts : Allocated(trusted[h], a, now) \in TrustedEntry
    BY <1>2 DEF Allocated, Folded, TrustedEntry, Announcement, Time
  <1>4. \A h \in Hosts : AppliedTrusted(trusted, a, now, tev)[h] =
           IF h = a.host THEN Allocated(trusted[h], a, now)
           ELSE IF h \in tev THEN NoTrusted ELSE trusted[h]
    BY <1>1 DEF AppliedTrusted
  <1> QED
    BY <1>1, <1>2, <1>3, <1>4 DEF AppliedTrusted

\* The calls an announcement gives rise to.
LEMMA CallsType ==
    ASSUME NEW a \in Announcement, NEW ev \in SUBSET Hosts, NEW changed \in BOOLEAN,
           NEW addrs \in SUBSET Addrs
    PROVE  CallsFor(a, ev, changed, addrs) \in Seq(Calls)
  <1> DEFINE first == IF ev = {} THEN <<>> ELSE <<[host |-> CHOOSE h \in ev : TRUE, addrs |-> {}]>>
             second == IF changed THEN <<[host |-> a.host, addrs |-> addrs]>> ELSE <<>>
  <1>1. first \in Seq(Calls)
    <2>1. CASE ev # {}
      <3>1. [host |-> CHOOSE h \in ev : TRUE, addrs |-> {}] \in Calls
        BY <2>1 DEF Calls
      <3> QED
        BY <2>1, <3>1
    <2> QED
      BY <2>1
  <1>2. second \in Seq(Calls)
    <2>1. [host |-> a.host, addrs |-> addrs] \in Calls
      BY DEF Calls, Announcement
    <2> QED
      BY <2>1
  <1> QED
    BY <1>1, <1>2 DEF CallsFor

----------------------------------------------------------------------------
(* The inductive invariant, one lemma per action that changes the stores.  *)

\* Apply: both stores take the announcement under one lock.
LEMMA ApplyKeeps == ASSUME NEW f \in Feeds, Inv, Apply(f) PROVE Inv'
  <1> DEFINE s == gor[f]
             a == Head(s.anns)
             now == s.now
  <1>1. /\ s \in Gors /\ s.anns \in Seq(Carried) /\ s.anns # <<>> /\ f \in Goroutines
        /\ cache.hosts \in [Hosts -> Entry] /\ cache.trusted \in [Hosts -> TrustedEntry]
        /\ now \in Nat /\ clock' = clock /\ clock \in Nat
    BY DEF Ready, Inv, TypeOK, Apply, Goroutines, Gors, CacheType
  <1>2. a \in Announcement /\ a.addrs # {} /\ Tail(s.anns) \in Seq(Carried)
    BY <1>1 DEF Carried
  <1> DEFINE isStrong == s.trust = "strong"
  <1>3. PICK news \in BOOLEAN :
        \E ev \in Evicted(cache.hosts, a.host) :
        \E tev \in IF isStrong THEN EvictedTrusted(cache.trusted, a) ELSE {{}} :
          LET hosts == AppliedHosts(cache.hosts, a, now, ev)
              trusted == IF isStrong THEN AppliedTrusted(cache.trusted, a, now, tev)
                                     ELSE cache.trusted
              changed == AddrsDiffer(cache.hosts, a, now)
                         \/ trusted[a.host].addrs # cache.trusted[a.host].addrs
              calls == IF s.trust = "none" THEN <<>>
                       ELSE CallsFor(a, ev, changed, hosts[a.host].addrs)
          IN /\ cache' = [hosts |-> hosts, trusted |-> trusted]
             /\ strong' = IF isStrong THEN Given(a, now, tev) ELSE strong
             /\ gor' = [gor EXCEPT ![f] =
                          Resumed([s EXCEPT !.anns = Tail(s.anns), !.changed = s.changed \/ changed \/ news,
                                            !.calls = calls])]
    BY DEF Apply
  <1>4. PICK ev \in Evicted(cache.hosts, a.host),
             tev \in IF isStrong THEN EvictedTrusted(cache.trusted, a) ELSE {{}} :
          LET hosts == AppliedHosts(cache.hosts, a, now, ev)
              trusted == IF isStrong THEN AppliedTrusted(cache.trusted, a, now, tev)
                                     ELSE cache.trusted
              changed == AddrsDiffer(cache.hosts, a, now)
                         \/ trusted[a.host].addrs # cache.trusted[a.host].addrs
              calls == IF s.trust = "none" THEN <<>>
                       ELSE CallsFor(a, ev, changed, hosts[a.host].addrs)
          IN /\ cache' = [hosts |-> hosts, trusted |-> trusted]
             /\ strong' = IF isStrong THEN Given(a, now, tev) ELSE strong
             /\ gor' = [gor EXCEPT ![f] =
                          Resumed([s EXCEPT !.anns = Tail(s.anns), !.changed = s.changed \/ changed \/ news,
                                            !.calls = calls])]
    BY <1>3
  <1> DEFINE hosts == AppliedHosts(cache.hosts, a, now, ev)
             trusted == IF isStrong THEN AppliedTrusted(cache.trusted, a, now, tev)
                                    ELSE cache.trusted
             changed == AddrsDiffer(cache.hosts, a, now)
                        \/ trusted[a.host].addrs # cache.trusted[a.host].addrs
             calls == IF s.trust = "none" THEN <<>>
                      ELSE CallsFor(a, ev, changed, hosts[a.host].addrs)
  <1>5. /\ cache'.hosts = hosts /\ cache'.trusted = trusted
        /\ cache' = [hosts |-> hosts, trusted |-> trusted]
        /\ strong' = IF isStrong THEN Given(a, now, tev) ELSE strong
        /\ gor' = [gor EXCEPT ![f] =
                     Resumed([s EXCEPT !.anns = Tail(s.anns), !.changed = s.changed \/ changed \/ news,
                                       !.calls = calls])]
    BY <1>4
  <1> HIDE DEF a, now, isStrong
  <1>6. /\ hosts \in [Hosts -> Entry] /\ a.host \in Hosts /\ ev \in SUBSET Hosts
        /\ Present(hosts) \subseteq (Present(cache.hosts) \ ev) \cup {a.host}
        /\ \/ ev = {} /\ (a.host \in Present(cache.hosts)
                           \/ ~(Cardinality(Present(cache.hosts)) >= MaxHosts))
           \/ \E g \in Present(cache.hosts) : ev = {g}
    <2>1. a.host \in Hosts
      BY <1>2 DEF Announcement
    <2>2. /\ hosts \in [Hosts -> Entry]
          /\ Present(hosts) \subseteq (Present(cache.hosts) \ ev) \cup {a.host}
          /\ \/ ev = {} /\ (a.host \in Present(cache.hosts)
                             \/ ~(Cardinality(Present(cache.hosts)) >= MaxHosts))
             \/ \E g \in Present(cache.hosts) : ev = {g}
      BY <1>1, <1>2, AppliedHostsType
    <2>3. ev \in SUBSET Hosts
      BY <2>2 DEF Present
    <2> QED
      BY <2>1, <2>2, <2>3
  <1> HIDE DEF hosts
  <1>7. ASSUME isStrong
        PROVE  /\ trusted \in [Hosts -> TrustedEntry] /\ a.host \notin tev
               /\ \A h \in Hosts : trusted[h] =
                     IF h = a.host THEN Allocated(cache.trusted[h], a, now)
                     ELSE IF h \in tev THEN NoTrusted ELSE cache.trusted[h]
               /\ \A h \in Hosts : strong'[h] =
                     IF h = a.host
                     THEN IF a.ttl = 0 THEN NoTrusted
                          ELSE [addrs |-> strong[h].addrs \cup a.addrs, seen |-> now]
                     ELSE IF h \in tev THEN NoTrusted ELSE strong[h]
    <2>1. tev \in EvictedTrusted(cache.trusted, a)
      BY <1>7
    <2>2. trusted = AppliedTrusted(cache.trusted, a, now, tev) /\ strong' = Given(a, now, tev)
      BY <1>5, <1>7
    <2>3. a.host \notin tev
      BY <1>1, <1>2, <2>1, AppliedTrustedType
    <2> HIDE DEF trusted
    <2>4. \A h \in Hosts : strong'[h] =
            IF h = a.host
            THEN IF a.ttl = 0 THEN NoTrusted
                 ELSE [addrs |-> strong[h].addrs \cup a.addrs, seen |-> now]
            ELSE IF h \in tev THEN NoTrusted ELSE strong[h]
      BY <2>2, <2>3 DEF Given
    <2> QED
      BY <1>1, <1>2, <2>1, <2>2, <2>3, <2>4, AppliedTrustedType
  <1>8. ASSUME ~isStrong PROVE trusted = cache.trusted /\ strong' = strong
    BY <1>5, <1>8
  <1> HIDE DEF trusted
  <1>9. TypeOK'
    <2>1. cache' \in CacheType
      BY <1>1, <1>5, <1>6, <1>7, <1>8 DEF CacheType
    <2>2. strong' \in [Hosts -> TrustedEntry]
      <3>1. CASE ~isStrong
        BY <1>8, <3>1 DEF Inv, TypeOK
      <3>2. CASE isStrong
        <4>1. \A h \in Hosts : strong'[h] \in TrustedEntry
          <5>1. NoTrusted \in TrustedEntry
            BY DEF TrustedEntry, NoTrusted, Time, Unset
          <5>2. \A h \in Hosts : /\ strong[h] \in TrustedEntry
                                 /\ [addrs |-> strong[h].addrs \cup a.addrs, seen |-> now]
                                       \in TrustedEntry
            BY <1>1, <1>2 DEF Inv, TypeOK, TrustedEntry, Time, Announcement
          <5> QED
            BY <1>7, <3>2, <5>1, <5>2
        <4>2. strong' = [h \in Hosts |-> strong'[h]]
          BY <1>5, <3>2 DEF Given
        <4> QED
          BY <4>1, <4>2
      <3> QED
        BY <3>1, <3>2
    <2>3. changed \in BOOLEAN /\ calls \in Seq(Calls)
      <3>1. changed \in BOOLEAN
        BY DEF AddrsDiffer
      <3>2. hosts[a.host].addrs \in SUBSET Addrs
        BY <1>6 DEF Entry
      <3> HIDE DEF changed
      <3> QED
        BY <1>2, <1>6, <3>1, <3>2, CallsType
    <2> HIDE DEF changed, calls
    <2> DEFINE r == [s EXCEPT !.anns = Tail(@), !.changed = @ \/ changed \/ news, !.calls = calls]
    <2>4. r \in Gors
      BY <1>1, <1>2, <2>3 DEF Gors
    <2>5. Resumed(r) \in Gors /\ Ready(Resumed(r))
      BY <2>4, ResumedType
    <2>6. gor' = [gor EXCEPT ![f] = Resumed(r)]
      BY <1>5
    <2> HIDE DEF r
    <2> QED
      BY <1>1, <2>1, <2>2, <2>5, <2>6 DEF Inv, TypeOK
  <1>10. Bounded'
    <2>1. IsFiniteSet(Present(hosts)) /\ Cardinality(Present(hosts)) <= MaxHosts
      <3>1. IsFiniteSet(Present(cache.hosts)) /\ Cardinality(Present(cache.hosts)) \in Nat
            /\ Cardinality(Present(cache.hosts)) <= MaxHosts /\ MaxHosts \in Nat \ {0}
        BY CacheAssumption, FS_CardinalityType DEF Inv, Bounded
      <3>2. \/ ev = {} /\ (a.host \in Present(cache.hosts)
                           \/ Cardinality(Present(cache.hosts)) < MaxHosts)
            \/ \E g \in Present(cache.hosts) : ev = {g}
        BY <1>6, <3>1
      <3> QED
        BY <1>6, <3>1, <3>2, RoomMade
    <2>2. CASE ~isStrong
      BY <1>5, <1>8, <2>1, <2>2 DEF Inv, Bounded
    <2>3. CASE isStrong
      <3>1. /\ IsFiniteSet(Present(cache.trusted)) /\ Cardinality(Present(cache.trusted)) \in Nat
            /\ MaxTrusted > 0 => Cardinality(Present(cache.trusted)) <= MaxTrusted
            /\ MaxTrusted \in Nat
        BY CacheAssumption, FS_CardinalityType DEF Inv, Bounded
      <3>2. Present(trusted) \subseteq (Present(cache.trusted) \ tev) \cup {a.host}
        BY <1>7, <2>3 DEF Present, NoTrusted
      <3>3. tev \in EvictedTrusted(cache.trusted, a)
        BY <2>3
      <3>4. CASE MaxTrusted = 0
        <4>1. Present(trusted) \subseteq Present(cache.trusted) \cup {a.host}
          BY <3>2
        <4>2. IsFiniteSet(Present(trusted))
          BY <3>1, <4>1, FS_AddElement, FS_Subset
        <4> QED
          BY <1>5, <2>1, <3>4, <4>2 DEF Bounded
      <3>5. CASE MaxTrusted > 0 /\ a.ttl = 0
        <4>1. Present(trusted) \subseteq Present(cache.trusted)
          BY <1>7, <2>3, <3>5 DEF Present, NoTrusted, Allocated
        <4>2. /\ IsFiniteSet(Present(trusted)) /\ Cardinality(Present(trusted)) \in Nat
              /\ Cardinality(Present(trusted)) <= Cardinality(Present(cache.trusted))
          BY <3>1, <4>1, FS_Subset, FS_CardinalityType
        <4> QED
          BY <1>5, <2>1, <3>1, <3>5, <4>2 DEF Bounded
      <3>6. CASE MaxTrusted > 0 /\ a.ttl # 0
        <4>1. \/ tev = {} /\ (a.host \in Present(cache.trusted)
                              \/ Cardinality(Present(cache.trusted)) < MaxTrusted)
              \/ \E g \in Present(cache.trusted) : tev = {g}
          BY <3>1, <3>3, <3>6 DEF EvictedTrusted, OldestTrusted
        <4>2. MaxTrusted \in Nat \ {0} /\ Cardinality(Present(cache.trusted)) <= MaxTrusted
          BY <3>1, <3>6
        <4>3. IsFiniteSet(Present(trusted)) /\ Cardinality(Present(trusted)) <= MaxTrusted
          BY <3>1, <3>2, <4>1, <4>2, RoomMade
        <4> QED
          BY <1>5, <2>1, <4>3 DEF Bounded
      <3> QED
        BY <3>1, <3>4, <3>5, <3>6
    <2> QED
      BY <2>2, <2>3
  <1>11. Kept'
    <2>1. CASE ~isStrong
      BY <1>1, <1>5, <1>8, <2>1 DEF Inv, Kept
    <2>2. CASE isStrong
      <3> SUFFICES ASSUME NEW h \in Hosts, strong'[h].addrs # {}
                   PROVE  \/ trusted[h].addrs # {} /\ trusted[h].seen = strong'[h].seen
                          \/ PastGrace(strong'[h], clock)
        BY <1>1, <1>5 DEF Kept
      <3>1. CASE h = a.host
        <4>1. strong'[h] = IF a.ttl = 0 THEN NoTrusted
                           ELSE [addrs |-> strong[h].addrs \cup a.addrs, seen |-> now]
          BY <1>7, <2>2, <3>1
        <4>2. a.ttl # 0 /\ strong'[h].seen = now
          BY <4>1 DEF NoTrusted
        <4>3. trusted[h] = [addrs |-> Folded(cache.trusted[h].addrs, cache.trusted[h].seen, a, now),
                            seen |-> now]
          BY <1>7, <2>2, <3>1, <4>2 DEF Allocated
        <4> QED
          BY <1>2, <4>2, <4>3 DEF Folded
      <3>2. CASE h # a.host
        BY <1>7, <2>2, <3>2 DEF Inv, Kept, NoTrusted
      <3> QED
        BY <3>1, <3>2
    <2> QED
      BY <2>1, <2>2
  <1>12. TrustedProvenance'
    <2>1. CASE ~isStrong
      BY <1>5, <1>8, <2>1 DEF Inv, TrustedProvenance
    <2>2. CASE isStrong
      <3> SUFFICES ASSUME NEW h \in Hosts PROVE trusted[h].addrs \subseteq strong'[h].addrs
        BY <1>5 DEF TrustedProvenance
      <3>1. cache.trusted[h].addrs \subseteq strong[h].addrs
        BY DEF Inv, TrustedProvenance
      <3>2. CASE h = a.host /\ a.ttl # 0
        <4>1. strong'[h] = [addrs |-> strong[h].addrs \cup a.addrs, seen |-> now]
          BY <1>7, <2>2, <3>2
        <4>2. trusted[h] = [addrs |-> Folded(cache.trusted[h].addrs, cache.trusted[h].seen, a, now),
                            seen |-> now]
          BY <1>7, <2>2, <3>2 DEF Allocated
        <4> QED
          BY <3>1, <4>1, <4>2 DEF Folded
      <3>3. CASE h = a.host /\ a.ttl = 0
        BY <1>7, <2>2, <3>3 DEF Allocated, NoTrusted
      <3>4. CASE h # a.host
        BY <1>7, <2>2, <3>1, <3>4 DEF NoTrusted
      <3> QED
        BY <3>2, <3>3, <3>4
    <2> QED
      BY <2>1, <2>2
  <1> QED
    BY <1>9, <1>10, <1>11, <1>12 DEF Inv

\* A step that leaves the stores and the clock alone.
LEMMA KeepsStores ==
    ASSUME Inv, cache' = cache, clock' = clock, strong' = strong,
           gor' \in [Goroutines -> Gors],
           \A g \in Goroutines : Ready(gor'[g])
    PROVE  Inv'
  <1>1. TypeOK' /\ Bounded'
    BY DEF Inv, TypeOK, Bounded
  <1>2. Kept' /\ TrustedProvenance'
    BY DEF Inv, Kept, TrustedProvenance
  <1> QED
    BY <1>1, <1>2 DEF Inv

\* Expire: a host that goes does not take its allocation along.
LEMMA ExpireKeeps == ASSUME Inv, Expire PROVE Inv'
  <1> DEFINE gone == Expired(cache.hosts, clock)
  <1>1. /\ cache \in CacheType /\ clock \in Nat /\ clock' = clock /\ strong' = strong
        /\ Ticker \in Goroutines /\ gor \in [Goroutines -> Gors]
        /\ IsFiniteSet(Present(cache.hosts)) /\ IsFiniteSet(Present(cache.trusted))
    BY DEF Inv, TypeOK, Bounded, Expire, Goroutines
  <1>2. /\ cache'.hosts = [h \in Hosts |-> IF h \in gone THEN NoEntry ELSE cache.hosts[h]]
        /\ cache'.trusted = [h \in Hosts |-> IF PastGrace(cache.trusted[h], clock)
                                             THEN NoTrusted ELSE cache.trusted[h]]
        /\ cache' = [hosts |-> cache'.hosts, trusted |-> cache'.trusted]
    BY DEF Expire, AfterExpire
  <1>3. gone \subseteq Hosts /\ IsFiniteSet(gone) /\ Cardinality(gone) \in Nat
    BY <1>1, FS_Subset, FS_CardinalityType DEF Expired, Present
  <1>4. TypeOK'
    <2>1. cache' \in CacheType
      <3>1. NoEntry \in Entry /\ NoTrusted \in TrustedEntry
        BY DEF NoEntry, Entry, TrustedEntry, NoTrusted, Time, Unset
      <3> HIDE DEF gone
      <3> QED
        BY <1>1, <1>2, <3>1 DEF CacheType
    <2>2. PICK q \in Orders(gone) :
            gor' = [gor EXCEPT ![Ticker] =
                      Resumed([IdleGor EXCEPT !.changed = TRUE,
                                 !.calls = [i \in DOMAIN q |-> [host |-> q[i], addrs |-> {}]]])]
      BY DEF Expire
    <2> DEFINE calls == [i \in DOMAIN q |-> [host |-> q[i], addrs |-> {}]]
               r == [IdleGor EXCEPT !.changed = TRUE, !.calls = calls]
    <2>3. calls \in Seq(Calls)
      <3>1. q \in [1 .. Cardinality(gone) -> gone]
        BY DEF Orders
      <3> HIDE DEF gone
      <3>2. calls \in [1 .. Cardinality(gone) -> Calls]
        BY <1>3, <3>1 DEF Calls
      <3> HIDE DEF calls
      <3> QED
        BY <1>3, <3>2
    <2>4. r \in Gors
      <3> HIDE DEF calls
      <3> QED BY <2>3, IdleType DEF Gors
    <2>5. Resumed(r) \in Gors /\ Ready(Resumed(r))
      BY <2>4, ResumedType
    <2> HIDE DEF r
    <2>6. gor' = [gor EXCEPT ![Ticker] = Resumed(r)]
      BY <2>2 DEF r
    <2> QED
      BY <1>1, <2>1, <2>5, <2>6 DEF Inv, TypeOK
  <1>5. Bounded'
    <2>1. Present(cache'.hosts) \subseteq Present(cache.hosts)
      BY <1>2 DEF Present, NoEntry
    <2>2. Present(cache'.trusted) \subseteq Present(cache.trusted)
      BY <1>2 DEF Present, NoTrusted
    <2>3. /\ IsFiniteSet(Present(cache'.hosts)) /\ Cardinality(Present(cache'.hosts)) \in Nat
          /\ Cardinality(Present(cache'.hosts)) <= Cardinality(Present(cache.hosts))
          /\ Cardinality(Present(cache.hosts)) \in Nat
      BY <1>1, <2>1, FS_Subset, FS_CardinalityType
    <2>4. /\ IsFiniteSet(Present(cache'.trusted)) /\ Cardinality(Present(cache'.trusted)) \in Nat
          /\ Cardinality(Present(cache'.trusted)) <= Cardinality(Present(cache.trusted))
          /\ Cardinality(Present(cache.trusted)) \in Nat
      BY <1>1, <2>2, FS_Subset, FS_CardinalityType
    <2> QED
      BY <2>3, <2>4, CacheAssumption DEF Inv, Bounded
  <1>6. Kept'
    <2> SUFFICES ASSUME NEW h \in Hosts, strong[h].addrs # {}, ~PastGrace(strong[h], clock)
                 PROVE  cache'.trusted[h].addrs # {} /\ cache'.trusted[h].seen = strong[h].seen
      BY <1>1 DEF Kept
    <2>1. cache.trusted[h].addrs # {} /\ cache.trusted[h].seen = strong[h].seen
      BY DEF Inv, Kept
    <2>2. ~PastGrace(cache.trusted[h], clock)
      BY <2>1 DEF PastGrace
    <2> QED
      BY <1>2, <2>1, <2>2
  <1>7. TrustedProvenance'
    BY <1>1, <1>2 DEF Inv, TrustedProvenance, NoTrusted
  <1> QED
    BY <1>4, <1>5, <1>6, <1>7 DEF Inv

\* Time passes: a grace that is over stays over.
LEMMA TickKeeps == ASSUME Inv, Tick PROVE Inv'
  <1>1. /\ cache' = cache /\ gor' = gor /\ strong' = strong
        /\ clock \in Nat /\ clock' = clock + 1
    BY DEF Inv, TypeOK, Tick
  <1>2. TypeOK' /\ Bounded' /\ TrustedProvenance'
    BY <1>1 DEF Inv, TypeOK, Bounded, TrustedProvenance
  <1>3. \A h \in Hosts : strong[h].seen \in Int
    BY DEF Inv, TypeOK, TrustedEntry, Time, Unset
  <1>4. Kept'
    BY <1>1, <1>3, CacheAssumption DEF Inv, Kept, PastGrace
  <1> QED
    BY <1>2, <1>4 DEF Inv

----------------------------------------------------------------------------
(* The theorems.                                                           *)

\* Every step of a handler, of the ticker and of time keeps the invariant.
LEMMA InvStep == Inv /\ [Next]_vars => Inv'
  <1> SUFFICES ASSUME Inv, [Next]_vars PROVE Inv'
    OBVIOUS
  <1>0. gor \in [Goroutines -> Gors] /\ cache \in CacheType /\ clock \in Nat
        /\ \A g \in Goroutines : Ready(gor[g])
    BY DEF Inv, TypeOK
  <1>1. ASSUME NEW f \in Feeds, NEW p \in Packets, Receive(f, p) PROVE Inv'
    <2> DEFINE r == [IdleGor EXCEPT !.at = "apply", !.anns = p.anns, !.trust = p.trust, !.now = clock]
    <2>1. p.anns \in Seq(Carried) /\ p.anns # <<>> /\ p.trust \in Trust
      <3>1. p \in [anns : Seq(Announcement), trust : Trust] /\ p.anns # <<>>
            /\ \A i \in DOMAIN p.anns : p.anns[i].addrs # {}
        BY SourceAssumption
      <3>2. p.anns \in Seq(Announcement) /\ Len(p.anns) \in Nat
            /\ p.anns \in [1 .. Len(p.anns) -> Announcement]
        BY <3>1
      <3>3. p.anns \in [1 .. Len(p.anns) -> Carried]
        BY <3>1, <3>2 DEF Carried
      <3> QED
        BY <3>1, <3>2, <3>3
    <2>2. r \in Gors /\ Ready(r)
      BY <1>0, <2>1, IdleType DEF Gors, Ready
    <2>3. gor' = [gor EXCEPT ![f] = r]
      BY <1>1 DEF Receive
    <2> HIDE DEF r
    <2> QED
      BY <1>0, <1>1, <2>2, <2>3, KeepsStores DEF Receive, Goroutines
  <1>2. ASSUME NEW f \in Feeds, Apply(f) PROVE Inv'
    BY <1>2, ApplyKeeps
  <1>3. ASSUME NEW g \in Goroutines, OnChange(g) PROVE Inv'
    <2> DEFINE rest == [gor[g] EXCEPT !.calls = Tail(@)]
    <2>1. Tail(gor[g].calls) \in Seq(Calls)
      <3>1. gor[g].calls \in Seq(Calls) /\ gor[g].calls # <<>>
        BY <1>0, <1>3 DEF OnChange, Gors, Ready
      <3> QED
        BY <3>1
    <2>2. rest \in Gors
      BY <1>0, <2>1 DEF Gors
    <2>3. gor' = [gor EXCEPT ![g] = Resumed(rest)]
      BY <1>3 DEF OnChange
    <2> HIDE DEF rest
    <2> QED
      BY <1>0, <1>3, <2>2, <2>3, ResumedType, KeepsStores DEF OnChange
  <1>4. ASSUME NEW g \in Goroutines, BuildView(g) PROVE Inv'
    <2>1. View(cache, clock) \in Views
      BY <1>0, ViewType
    <2> QED
      BY <1>0, <1>4, <2>1, KeepsStores DEF BuildView, Gors, Ready
  <1>5. ASSUME NEW g \in Goroutines, StoreView(g) PROVE Inv'
    <2>1. IdleGor \in Gors /\ Ready(IdleGor)
      BY IdleType DEF IdleGor, Ready
    <2> QED
      BY <1>0, <1>5, <2>1, KeepsStores DEF StoreView
  <1>6. CASE Expire
    BY <1>6, ExpireKeeps
  <1>7. CASE Tick
    BY <1>7, TickKeeps
  <1>8. CASE UNCHANGED vars
    BY <1>0, <1>8, KeepsStores DEF vars
  <1> QED
    BY <1>1, <1>2, <1>3, <1>4, <1>5, <1>6, <1>7, <1>8 DEF Next

\* The invariant holds from the start on.
THEOREM Invariance == Spec => []Inv
  <1>1. Init => Inv
    <2> SUFFICES ASSUME Init PROVE Inv
      OBVIOUS
    <2>1. /\ cache \in CacheType /\ cache.hosts = [h \in Hosts |-> NoEntry]
          /\ cache.trusted = [h \in Hosts |-> NoTrusted]
      BY NewCacheType DEF Init, NewCache
    <2>2. IdleGor \in Gors /\ Ready(IdleGor) /\ NoTrusted \in TrustedEntry
      BY IdleType DEF IdleGor, Ready, TrustedEntry, NoTrusted, Time, Unset
    <2>3. TypeOK
      BY <2>1, <2>2 DEF Init, TypeOK
    <2>4. Present(cache.hosts) = {} /\ Present(cache.trusted) = {}
      BY <2>1 DEF Present, NoEntry, NoTrusted
    <2>5. Bounded
      BY <2>4, FS_EmptySet, CacheAssumption DEF Bounded
    <2>6. Kept /\ TrustedProvenance
      BY <2>1 DEF Init, Kept, TrustedProvenance, NoTrusted
    <2> QED
      BY <2>3, <2>5, <2>6 DEF Inv
  <1> QED
    BY <1>1, InvStep, PTL DEF Spec

\* An allocation given with strong trust stays until it is withdrawn, outlives its grace
\* or makes room for another, whatever is announced, withdrawn or expired beside it, and
\* both stores keep their bounds: internal/mdns/trust.go and cache.go.
THEOREM TrustedSurvivesHolds == Spec => []TrustedSurvives
  <1>1. Inv => TrustedSurvives
    BY DEF Inv, Bounded, Kept, TrustedSurvives
  <1> QED
    BY <1>1, Invariance, PTL

\* Every address in the trusted store came with strong trust since the last withdrawal
\* of its host, although bursts are united and both stores fold the same packets.
THEOREM TrustedProvenanceHolds == Spec => []TrustedProvenance
  BY Invariance, PTL DEF Inv
=============================================================================
