-------------------------- MODULE BreakerUseProofs --------------------------
(***************************************************************************)
(* Proofs about BreakerUse, for every policy, every set of callers and     *)
(* every bound.  The inductive invariant IInv ties the breaker's fields to *)
(* the histories: an unrecovered trip is exactly a breaker that is not     *)
(* closed, openedAt is the time of that trip, and halfOpen counts the      *)
(* exchanges admitted since.                                               *)
(*                                                                         *)
(* And about the other part that decides who is ill, the supervisor: for   *)
(* all ceilings it leaves a worker alone that nothing disturbed.           *)
(***************************************************************************)
EXTENDS BreakerUse, Supervisor, TLAPS

\* Integer division rounds down.
LEMMA DivFloor ==
    ASSUME NEW a \in Nat, NEW d \in Nat \ {0}
    PROVE  /\ a \div d \in Nat
           /\ (a \div d) * d <= a
  BY SMT

\* A remainder is a valid ring index.
LEMMA ModRange ==
    ASSUME NEW x \in Int, NEW n \in Nat \ {0}
    PROVE  x % n \in 0 .. (n - 1)
  BY SMT

\* A bucket has a positive length, so advanceLocked's loop terminates.
LEMMA BucketDurPos == BucketDur \in Nat \ {0}
  BY PolicyAssumption, SMT DEF BucketDur

\* The fields advanceLocked leaves alone.
SameButWindow(a, b) ==
    /\ a.state = b.state
    /\ a.consec = b.consec
    /\ a.openedAt = b.openedAt
    /\ a.halfOpen = b.halfOpen

\* advanceLocked returns a breaker whose head is not in the future, and touches
\* the window only.
LEMMA AdvanceType ==
    ASSUME NEW b \in BreakerType, NEW t \in Nat, b.headStart <= t
    PROVE  /\ Advance(b, t) \in BreakerType
           /\ Advance(b, t).headStart \in Nat
           /\ Advance(b, t).headStart <= t
           /\ SameButWindow(Advance(b, t), b)
<1> DEFINE elapsed == t - b.headStart
           k == elapsed \div BucketDur
           Passed(i) == (i - b.headIdx - 1) % Buckets < k
           Kept(f) == [i \in BucketIdx |-> IF Passed(i) THEN 0 ELSE f[i]]
<1>0. 0 \in BucketIdx /\ Empty \in [BucketIdx -> Nat]
  BY PolicyAssumption DEF BucketIdx, Empty
<1>1. CASE b.headStart = Unset
  <2>1. Advance(b, t) = [b EXCEPT !.headStart = t]
    BY <1>1 DEF Advance
  <2> QED
    BY <2>1 DEF BreakerType, SameButWindow
<1>2. CASE b.headStart # Unset /\ elapsed >= Window
  <2>1. Advance(b, t) = [b EXCEPT !.ok = Empty, !.fail = Empty,
                                  !.headStart = t, !.headIdx = 0]
    BY <1>2 DEF Advance
  <2> HIDE DEF elapsed
  <2>2. Advance(b, t) \in BreakerType
    BY <2>1, <1>0, Zenon DEF BreakerType
  <2> QED
    BY <2>1, <2>2 DEF BreakerType, SameButWindow
<1>3. CASE b.headStart # Unset /\ ~(elapsed >= Window)
  <2>1. Advance(b, t) = [b EXCEPT !.ok = Kept(b.ok), !.fail = Kept(b.fail),
                                  !.headIdx = (b.headIdx + k) % Buckets,
                                  !.headStart = b.headStart + k * BucketDur]
    BY <1>3 DEF Advance
  <2>2. b.headStart \in Nat /\ elapsed \in Nat
    BY <1>3 DEF BreakerType, Unset
  <2>3. k \in Nat /\ k * BucketDur <= elapsed /\ k * BucketDur \in Nat
    <3>1. k \in Nat /\ k * BucketDur <= elapsed
      BY <2>2, BucketDurPos, DivFloor
    <3> QED BY <3>1, BucketDurPos
  <2>4. (b.headIdx + k) % Buckets \in BucketIdx
    <3>1. b.headIdx + k \in Int
      BY <2>3 DEF BreakerType, BucketIdx
    <3> QED BY <3>1, ModRange, PolicyAssumption, Zenon DEF BucketIdx
  <2>5. Kept(b.ok) \in [BucketIdx -> Nat] /\ Kept(b.fail) \in [BucketIdx -> Nat]
    <3>1. b.ok \in [BucketIdx -> Nat] /\ b.fail \in [BucketIdx -> Nat]
      BY DEF BreakerType
    <3> HIDE DEF k
    <3> QED BY <3>1
  <2>6. b.headStart + k * BucketDur \in Nat /\ b.headStart + k * BucketDur <= t
    <3> HIDE DEF k
    <3> QED BY <2>2, <2>3, BucketDurPos
  <2> HIDE DEF k, Kept
  <2> QED
    BY <2>1, <2>4, <2>5, <2>6, Zenon DEF BreakerType, SameButWindow
<1> QED
  BY <1>1, <1>2, <1>3

\* Updating a counter and the failure streak gives a breaker.
LEMMA UpdateType ==
    ASSUME NEW a \in BreakerType, NEW w \in [BucketIdx -> Nat], NEW n \in Nat
    PROVE  /\ [a EXCEPT !.ok = w, !.consec = n] \in BreakerType
           /\ [a EXCEPT !.fail = w, !.consec = n] \in BreakerType
  BY Zenon DEF BreakerType

\* record keeps the breaker well formed and its head not in the future.
LEMMA CountOkType ==
    ASSUME NEW b \in BreakerType, NEW t \in Nat, b.headStart <= t
    PROVE  /\ CountOk(b, t) \in BreakerType
           /\ CountOk(b, t).headStart <= t
           /\ CountOk(b, t).state = b.state
           /\ CountOk(b, t).consec = 0
           /\ CountOk(b, t).openedAt = b.openedAt
           /\ CountOk(b, t).halfOpen = b.halfOpen
<1> DEFINE a == Advance(b, t)
           counted == [a.ok EXCEPT ![a.headIdx] = a.ok[a.headIdx] + 1]
<1>1. /\ a \in BreakerType
      /\ a.headStart <= t
      /\ SameButWindow(a, b)
  BY AdvanceType
<1>2. CountOk(b, t) = [a EXCEPT !.ok = counted,
                                !.consec = 0]
  BY DEF CountOk
<1> HIDE DEF a
<1>3. counted \in [BucketIdx -> Nat]
  BY <1>1 DEF BreakerType
<1> HIDE DEF counted
<1>4. CountOk(b, t) \in BreakerType
  <2>1. [a EXCEPT !.ok = counted, !.consec = 0] \in BreakerType
    BY <1>1, <1>3, UpdateType, Zenon
  <2> QED BY <1>2, <2>1, Zenon
<1> QED
  BY <1>1, <1>2, <1>4 DEF BreakerType, SameButWindow

\* Counting a failure stays within the breaker type and adds one to consec.
LEMMA CountFailType ==
    ASSUME NEW b \in BreakerType, NEW t \in Nat, b.headStart <= t
    PROVE  /\ CountFail(b, t) \in BreakerType
           /\ CountFail(b, t).headStart <= t
           /\ CountFail(b, t).state = b.state
           /\ CountFail(b, t).consec = b.consec + 1
           /\ CountFail(b, t).openedAt = b.openedAt
           /\ CountFail(b, t).halfOpen = b.halfOpen
<1> DEFINE a == Advance(b, t)
           counted == [a.fail EXCEPT ![a.headIdx] = a.fail[a.headIdx] + 1]
<1>1. /\ a \in BreakerType
      /\ a.headStart <= t
      /\ SameButWindow(a, b)
  BY AdvanceType
<1>2. CountFail(b, t) = [a EXCEPT !.fail = counted,
                                  !.consec = a.consec + 1]
  BY DEF CountFail
<1> HIDE DEF a
<1>3. counted \in [BucketIdx -> Nat]
  BY <1>1 DEF BreakerType
<1> HIDE DEF counted
<1>4. CountFail(b, t) \in BreakerType
  <2>1. a.consec + 1 \in Nat
    BY <1>1 DEF BreakerType
  <2>2. [a EXCEPT !.fail = counted, !.consec = a.consec + 1] \in BreakerType
    BY <1>1, <1>3, <2>1, UpdateType, Zenon
  <2> QED BY <1>2, <2>2, Zenon
<1> QED
  BY <1>1, <1>2, <1>4 DEF BreakerType, SameButWindow

\* record(true) leaves a closed breaker with no failure streak.
LEMMA RecordOkEffect ==
    ASSUME NEW b \in BreakerType, NEW t \in Nat, b.headStart <= t
    PROVE  /\ RecordOk(b, t) \in BreakerType
           /\ RecordOk(b, t).headStart <= t
           /\ RecordOk(b, t).state = "closed"
           /\ RecordOk(b, t).consec = 0
<1> DEFINE a == CountOk(b, t)
<1>1. /\ a \in BreakerType
      /\ a.headStart <= t
      /\ a.state = b.state
      /\ a.consec = 0
  BY CountOkType
<1>2. RecordOk(b, t) = IF b.state = "closed" THEN a ELSE Close(a)
  BY DEF RecordOk
<1> HIDE DEF a
<1>3. /\ Close(a) \in BreakerType
      /\ Close(a).headStart <= t
      /\ Close(a).state = "closed"
      /\ Close(a).consec = 0
  <2>1. Empty \in [BucketIdx -> Nat]
    BY DEF Empty
  <2>2. Close(a) \in BreakerType
    BY ONLY <1>1, <2>1, Zenon DEF Close, BreakerType, BreakerState
  <2>3. Close(a).headStart = Unset /\ Close(a).state = "closed" /\ Close(a).consec = 0
    BY ONLY <1>1 DEF Close, BreakerType
  <2> QED BY <2>2, <2>3 DEF Unset
<1> QED
  BY <1>1, <1>2, <1>3

\* record(false) extends the streak; it reopens a half-open breaker, leaves an open
\* one as it is, and trips a closed one at the latest when the streak is ConsecFail.
LEMMA RecordFailEffect ==
    ASSUME NEW b \in BreakerType, NEW t \in Nat, b.headStart <= t
    PROVE  /\ RecordFail(b, t) \in BreakerType
           /\ RecordFail(b, t).headStart <= t
           /\ RecordFail(b, t).state \in {"open", b.state}
           /\ b.state = "halfOpen" => RecordFail(b, t).state = "open"
           /\ b.state # "open" /\ RecordFail(b, t).state = "open"
                 => RecordFail(b, t).openedAt = t
           /\ b.state = "open" => RecordFail(b, t).openedAt = b.openedAt
           /\ RecordFail(b, t).state = "closed"
                 => ~(ConsecFail > 0 /\ RecordFail(b, t).consec >= ConsecFail)
<1> DEFINE a == CountFail(b, t)
<1>1. /\ a \in BreakerType
      /\ a.headStart <= t
      /\ a.state = b.state
      /\ a.openedAt = b.openedAt
  BY CountFailType
<1>2. RecordFail(b, t) = IF b.state = "halfOpen" \/ (b.state = "closed" /\ ShouldTrip(a))
                         THEN Trip(a, t) ELSE a
  BY DEF RecordFail
<1> HIDE DEF a
<1>3. /\ Trip(a, t) \in BreakerType
      /\ Trip(a, t).headStart = a.headStart
      /\ Trip(a, t).state = "open"
      /\ Trip(a, t).openedAt = t
  BY ONLY <1>1, t \in Nat, Zenon DEF Trip, BreakerType, BreakerState
<1>4. ConsecFail > 0 /\ a.consec >= ConsecFail => ShouldTrip(a)
  BY DEF ShouldTrip
<1> QED
  BY <1>1, <1>2, <1>3, <1>4 DEF BreakerType, BreakerState

----------------------------------------------------------------------------
\* The histories and the breaker's fields say the same.
TripHistory ==
    /\ lastTrip = Unset <=> br.state = "closed"
    /\ lastTrip # Unset => lastTrip = br.openedAt
    /\ br.state = "open" => probes = 0
    /\ br.state = "halfOpen" => /\ probes = br.halfOpen
                                /\ probes <= HalfOpenMax
                                /\ clock - lastTrip >= Cooldown

IInv ==
    /\ TypeOK
    /\ br.headStart <= clock
    /\ TripHistory
    /\ ClosedBelowConsec
    /\ HalfOpenHasProbe

\* A new breaker satisfies the inductive invariant.
LEMMA InitIInv == Init => IInv
<1> SUFFICES ASSUME Init PROVE IInv
  OBVIOUS
<1>1. NewBreaker \in BreakerType
  BY PolicyAssumption DEF NewBreaker, BreakerType, BreakerState, Empty, BucketIdx
<1>2. TypeOK
  <2>1. 0 \in Time
    BY UseAssumption DEF Time
  <2>2. NoOutcomes \in Outcomes
    BY DEF NoOutcomes, Outcomes
  <2> QED BY <1>1, <2>1, <2>2, UseAssumption DEF Init, TypeOK
<1>3. /\ br.headStart = Unset
      /\ br.state = "closed"
      /\ br.consec = 0
  BY DEF Init, NewBreaker
<1> QED
  BY <1>2, <1>3, PolicyAssumption
     DEF Init, IInv, TripHistory, ClosedBelowConsec, HalfOpenHasProbe, Unset

\* allow() touches the state and the probe counter only.
LEMMA AfterAllowType ==
    ASSUME NEW b \in BreakerType, NEW t
    PROVE  /\ AfterAllow(b, t) \in BreakerType
           /\ AfterAllow(b, t).headStart = b.headStart
           /\ AfterAllow(b, t).consec = b.consec
           /\ AfterAllow(b, t).openedAt = b.openedAt
<1>1. CASE b.state = "open"
  <2> DEFINE h == [b EXCEPT !.state = "halfOpen"]
  <2>1. AfterAllow(b, t) = [h EXCEPT !.halfOpen = 1]
    BY <1>1 DEF AfterAllow
  <2>2. /\ h \in BreakerType
        /\ h.headStart = b.headStart
        /\ h.consec = b.consec
        /\ h.openedAt = b.openedAt
    BY ONLY b \in BreakerType DEF BreakerType, BreakerState
  <2> HIDE DEF h
  <2> QED BY ONLY <2>1, <2>2 DEF BreakerType
<1>2. CASE b.state = "halfOpen"
  <2> DEFINE n == b.halfOpen + 1
  <2>1. AfterAllow(b, t) = [b EXCEPT !.halfOpen = n]
    BY <1>2 DEF AfterAllow
  <2>2. n \in Nat
    BY DEF BreakerType
  <2> HIDE DEF n
  <2> QED BY ONLY b \in BreakerType, <2>1, <2>2 DEF BreakerType
<1>3. CASE b.state # "open" /\ b.state # "halfOpen"
  BY <1>3 DEF AfterAllow
<1> QED BY <1>1, <1>2, <1>3

\* Starting an exchange keeps the invariant.
LEMMA AdmitIInv ==
    ASSUME IInv, NEW c \in Callers, Admit(c)
    PROVE  IInv'
<1> USE DEF IInv
<1>1. br' \in BreakerType /\ br'.headStart = br.headStart /\ br'.consec = br.consec
      /\ br'.openedAt = br.openedAt
  BY AfterAllowType, Zenon DEF Admit, TypeOK
<1>2. TypeOK'
  <2>1. pc' \in [Callers -> {"idle", "admitted", "refused", "forced"}]
    BY DEF Admit, TypeOK
  <2>2. issued' \in 0 .. MaxCalls
    BY UseAssumption DEF Admit, TypeOK
  <2>3. probes' \in Nat
    BY DEF Admit, TypeOK
  <2> QED
    BY <1>1, <2>1, <2>2, <2>3, Zenon DEF Admit, TypeOK
<1>3. CASE br.state = "closed"
  <2>1. br' = br
    BY <1>3 DEF Admit, AfterAllow
  <2> QED
    BY <1>3, <2>1, <1>2
       DEF Admit, TripHistory, ClosedBelowConsec, HalfOpenHasProbe
<1>4. CASE br.state = "open"
  <2>1. br' = [br EXCEPT !.state = "halfOpen", !.halfOpen = 1]
    BY <1>4 DEF Admit, AfterAllow
  <2>2. br'.state = "halfOpen" /\ br'.halfOpen = 1
    BY <2>1 DEF TypeOK, BreakerType
  <2>3. probes' = 1
    BY <1>4 DEF Admit, TripHistory
  <2>4. clock - lastTrip >= Cooldown
    BY <1>4 DEF Admit, Allows, Cooled, TripHistory
  <2>6. pc'[c] = "admitted"
    BY DEF Admit, TypeOK
  <2> QED
    BY <1>1, <1>4, <2>2, <2>3, <2>4, <1>2, <2>6, PolicyAssumption
       DEF Admit, TripHistory, ClosedBelowConsec, HalfOpenHasProbe
<1>5. CASE br.state = "halfOpen"
  <2>1. br' = [br EXCEPT !.halfOpen = br.halfOpen + 1]
    BY <1>5 DEF Admit, AfterAllow
  <2>2. br'.state = "halfOpen" /\ br'.halfOpen = br.halfOpen + 1
    BY <1>5, <2>1 DEF TypeOK, BreakerType
  <2>3. probes' = probes + 1
    BY <1>5 DEF Admit, TripHistory
  <2>4. br.halfOpen < HalfOpenMax
    BY <1>5 DEF Admit, Allows
  <2>6. pc'[c] = "admitted"
    BY DEF Admit, TypeOK
  <2> QED
    BY <1>1, <1>5, <2>2, <2>3, <2>4, <1>2, <2>6, PolicyAssumption
       DEF Admit, TripHistory, ClosedBelowConsec, HalfOpenHasProbe, TypeOK, BreakerType
<1> QED
  BY <1>3, <1>4, <1>5 DEF TypeOK, BreakerType, BreakerState

\* Recording an outcome, on time or late, keeps the invariant.
LEMMA FinishIInv ==
    ASSUME IInv, NEW c \in Callers, NEW ok \in BOOLEAN, Finish(c, ok)
    PROVE  IInv'
<1>1. /\ br \in BreakerType /\ clock \in Nat /\ clock \in Time
      /\ br.headStart <= clock
  BY DEF IInv, TypeOK, Time
<1>2. /\ br' \in BreakerType
      /\ br'.headStart <= clock
      /\ br'.state \in {"open", "closed"}
      /\ br.state # "open" /\ br'.state = "open" => br'.openedAt = clock
      /\ br.state = "open" /\ br'.state = "open" => br'.openedAt = br.openedAt
      /\ br'.state = "closed"
            => ~(ConsecFail > 0 /\ br'.consec >= ConsecFail)
  <2>1. CASE ok
    <3>1. br' = RecordOk(br, clock)
      BY <2>1 DEF Finish, Record
    <3> QED BY <1>1, <3>1, RecordOkEffect, PolicyAssumption
  <2>2. CASE ~ok
    <3>1. br' = RecordFail(br, clock)
      BY <2>2 DEF Finish, Record
    <3>2. br.state \in {"open", "closed", "halfOpen"}
      BY <1>1 DEF BreakerType, BreakerState
    <3> QED BY <1>1, <3>1, <3>2, RecordFailEffect
  <2> QED BY <2>1, <2>2
<1>3. TypeOK'
  <2>1. pc' \in [Callers -> {"idle", "admitted", "refused", "forced"}]
    BY DEF Finish, IInv, TypeOK
  <2>2. log' \in [ok : Outcomes, fail : Outcomes]
    <3>0. log \in [ok : Outcomes, fail : Outcomes]
      BY DEF IInv, TypeOK
    <3>1. NoOutcomes \in Outcomes
      BY DEF NoOutcomes, Outcomes
    <3>2. [log.ok EXCEPT ![clock] = log.ok[clock] + 1] \in Outcomes
      BY <1>1, <3>0 DEF Outcomes
    <3>3. [log.fail EXCEPT ![clock] = log.fail[clock] + 1] \in Outcomes
      BY <1>1, <3>0 DEF Outcomes
    <3>4. \/ log' = [ok |-> NoOutcomes, fail |-> NoOutcomes]
          \/ log' = [log EXCEPT !.ok = [log.ok EXCEPT ![clock] = log.ok[clock] + 1]]
          \/ log' = [log EXCEPT !.fail = [log.fail EXCEPT ![clock] = log.fail[clock] + 1]]
      BY DEF Finish
    <3> QED BY ONLY <3>0, <3>1, <3>2, <3>3, <3>4
  <2>3. lastTrip' \in Time \cup {Unset} /\ probes' \in Nat
    BY <1>1 DEF Finish, IInv, TypeOK
  <2> QED
    BY <1>1, <1>2, <2>1, <2>2, <2>3, Zenon DEF Finish, IInv, TypeOK
<1>4. TripHistory'
  <2>1. CASE br'.state = "closed"
    <3>1. lastTrip' = Unset
      BY <2>1 DEF Finish
    <3> QED BY <2>1, <3>1 DEF TripHistory
  <2>2. CASE br'.state = "open" /\ br.state # "open"
    <3>1. lastTrip' = clock /\ probes' = 0
      BY <2>2 DEF Finish
    <3> QED BY <1>1, <1>2, <2>2, <3>1 DEF TripHistory, Unset
  <2>3. CASE br'.state = "open" /\ br.state = "open"
    <3>1. lastTrip' = lastTrip /\ probes' = probes
      BY <2>3 DEF Finish
    <3> QED BY <1>2, <2>3, <3>1 DEF IInv, TripHistory
  <2> QED BY <1>2, <2>1, <2>2, <2>3
<1> QED
  BY <1>2, <1>3, <1>4 DEF Finish, IInv, ClosedBelowConsec, HalfOpenHasProbe

\* Every step of the system keeps the invariant.
LEMMA NextIInv == IInv /\ [Next]_vars => IInv'
<1> SUFFICES ASSUME IInv, [Next]_vars PROVE IInv'
  OBVIOUS
<1>1. ASSUME NEW c \in Callers, Admit(c) PROVE IInv'
  BY <1>1, AdmitIInv
<1>2. ASSUME NEW c \in Callers, Refuse(c) \/ Skip(c) PROVE IInv'
  <2>1. /\ UNCHANGED <<br, clock, issued, log, recordedAt, lastTrip, probes>>
        /\ pc' \in [Callers -> {"idle", "admitted", "refused", "forced"}]
        /\ \A d \in Callers : pc[d] = "admitted" => pc'[d] = "admitted"
    BY <1>2 DEF Refuse, Skip, IInv, TypeOK
  <2> QED
    BY <2>1, Zenon DEF IInv, TypeOK, TripHistory, ClosedBelowConsec, HalfOpenHasProbe
<1>3. ASSUME NEW c \in Callers, ForcedTry(c) PROVE IInv'
  <2>1. /\ UNCHANGED <<br, clock, log, recordedAt, lastTrip, probes>>
        /\ pc' \in [Callers -> {"idle", "admitted", "refused", "forced"}]
        /\ \A d \in Callers : pc[d] = "admitted" => pc'[d] = "admitted"
    BY <1>3 DEF ForcedTry, IInv, TypeOK
  <2>2. issued' \in 0 .. MaxCalls
    BY <1>3, UseAssumption DEF ForcedTry, IInv, TypeOK
  <2> QED
    BY <2>1, <2>2, Zenon DEF IInv, TypeOK, TripHistory, ClosedBelowConsec, HalfOpenHasProbe
<1>4. ASSUME NEW c \in Callers, NEW ok \in BOOLEAN, Finish(c, ok) PROVE IInv'
  BY <1>4, FinishIInv
<1>5. CASE Tick
  <2>1. /\ clock' \in Time
        /\ clock' >= clock
        /\ UNCHANGED <<br, pc, issued, log, recordedAt, lastTrip, probes>>
    BY <1>5, UseAssumption DEF Tick, IInv, TypeOK, Time
  <2>2. TypeOK'
    BY <2>1, Zenon DEF IInv, TypeOK
  <2>3. br'.headStart <= clock'
    BY <1>5 DEF Tick, IInv, TypeOK, BreakerType, Time, Unset
  <2>4. TripHistory'
    <3>1. clock - lastTrip >= Cooldown => clock' - lastTrip' >= Cooldown
      BY <1>5, PolicyAssumption DEF Tick, IInv, TypeOK, Time, Unset
    <3> QED BY <2>1, <3>1 DEF IInv, TripHistory
  <2> QED
    BY <2>1, <2>2, <2>3, <2>4 DEF IInv, ClosedBelowConsec, HalfOpenHasProbe
<1>6. CASE UNCHANGED vars
  BY <1>6, Zenon DEF vars, IInv, TypeOK, TripHistory, ClosedBelowConsec, HalfOpenHasProbe
<1>7. CASE Terminating
  BY <1>6, <1>7 DEF Terminating
<1> QED
  BY <1>1, <1>2, <1>3, <1>4, <1>5, <1>6, <1>7 DEF Next

\* The inductive invariant of a breaker under concurrent callers.
THEOREM Invariance == Spec => []IInv
  BY InitIInv, NextIInv, PTL DEF Spec

\* Type correctness of BreakerUse, in particular of the ring index.
THEOREM TypeCorrect == Spec => []TypeOK
<1>1. IInv => TypeOK
  BY DEF IInv
<1> QED BY <1>1, Invariance, PTL

\* At most HalfOpenMax exchanges are admitted to a tripped upstream before it
\* recovers or trips again.
THEOREM ProbeBudgetHolds == Spec => []ProbeBudget
<1>1. IInv => ProbeBudget
  BY PolicyAssumption
     DEF IInv, TripHistory, ProbeBudget, TypeOK, BreakerType, BreakerState
<1> QED BY <1>1, Invariance, PTL

\* A half-open breaker has a probe in flight.
THEOREM HalfOpenHasProbeHolds == Spec => []HalfOpenHasProbe
<1>1. IInv => HalfOpenHasProbe
  BY DEF IInv
<1> QED BY <1>1, Invariance, PTL

\* ConsecFail failures in a row never leave the breaker closed.
THEOREM ClosedBelowConsecHolds == Spec => []ClosedBelowConsec
<1>1. IInv => ClosedBelowConsec
  BY DEF IInv
<1> QED BY <1>1, Invariance, PTL

\* No admission within Cooldown of an unrecovered trip.
THEOREM FailFastHolds == Spec => FailFast
<1> DEFINE Step == \A c \in Callers :
                      pc[c] = "idle" /\ pc'[c] = "admitted" =>
                         lastTrip = Unset \/ clock - lastTrip >= Cooldown
<1>1. IInv /\ [Next]_vars => [Step]_vars
  <2> SUFFICES ASSUME IInv, Next, NEW c \in Callers,
                      pc[c] = "idle", pc'[c] = "admitted", lastTrip # Unset
               PROVE  clock - lastTrip >= Cooldown
    OBVIOUS
  <2>1. PICK d \in Callers : Admit(d)
    BY DEF Next, Refuse, Skip, ForcedTry, Finish, Tick, Terminating, vars, IInv, TypeOK
  <2>2. br.state = "open" => br.openedAt = lastTrip /\ Cooled(br, clock)
    BY <2>1 DEF Admit, Allows, IInv, TripHistory
  <2> QED
    BY <2>2 DEF IInv, TripHistory, TypeOK, BreakerType, BreakerState, Cooled
<1> QED BY <1>1, Invariance, PTL DEF Spec, FailFast

----------------------------------------------------------------------------
(* The supervisor leaves a healthy worker alone.                           *)

\* Undisturbed, the worker runs, has confirmed within the last unit of time, and is
\* young when its cycle of this unit is done; so no ceiling is ever reached.
Undisturbed ==
    /\ phase = "running" /\ worker \in {"starting", "live"} /\ upstream /\ leaked = 0
    /\ ~forceCh /\ ~withheld
    /\ hbAge \in {0, 1} /\ snapAge \in {0, 1}
    /\ worker = "live" /\ "cycle" \notin due => hbAge = 0 /\ snapAge = 0

AlarmInv ==
    /\ disturbed \in BOOLEAN /\ stop \in BOOLEAN /\ upstream \in BOOLEAN
    /\ ~disturbed /\ ~stop => Undisturbed

\* The daemon starts with an upstream, or disturbed.
LEMMA AlarmInit == SupInit => AlarmInv
BY DEF SupInit, AlarmInv, Undisturbed, Actors

\* No step out of a quiet state raises an alarm without a disturbance.
LEMMA AlarmStep == AlarmInv /\ [SupNext]_supVars => AlarmInv'
<1> SUFFICES ASSUME AlarmInv, [SupNext]_supVars PROVE AlarmInv'
  OBVIOUS
<1>0. /\ Ceiling \in Nat /\ Ceiling >= 1 /\ HardCeiling \in Nat /\ HardCeiling >= 1
      /\ TripCeiling \in Nat /\ TripCeiling >= 1
  BY SupervisorAssumption
<1>1. CASE Start
  BY <1>1 DEF Start, AlarmInv, Undisturbed
<1>2. CASE Cycle
  BY <1>2 DEF Cycle, AlarmInv, Undisturbed
<1>3. CASE Unwedge
  BY <1>3 DEF Unwedge, AlarmInv, Undisturbed
<1>4. CASE Exit
  BY <1>4, Zenon DEF Exit, AlarmInv, Undisturbed
<1>5. CASE LeakedCycle
  BY <1>5 DEF LeakedCycle, AlarmInv, Undisturbed
<1>6. CASE Faults
  BY <1>6 DEF Faults, Wedge, Panic, UpstreamLost, AlarmInv
<1>7. CASE Returned \/ ForceRequested
  BY <1>7 DEF Returned, ForceRequested, AlarmInv, Undisturbed
<1>8. CASE MonitorTick
  BY <1>0, <1>8 DEF MonitorTick, AlarmInv, Undisturbed
<1>9. CASE Reap \/ Abandon \/ Respawn \/ StopRunning
  BY <1>9 DEF Reap, Abandon, Respawn, StopRunning, AlarmInv, Undisturbed
<1>10. CASE WatchdogTick
  BY <1>0, <1>10 DEF WatchdogTick, AlarmInv, Undisturbed
<1>11. CASE RefreshMirror
  BY <1>11 DEF RefreshMirror, AlarmInv
<1>12. CASE UpstreamBack
  BY <1>12 DEF UpstreamBack, AlarmInv, Undisturbed
<1>13. CASE Shutdown
  BY <1>13 DEF Shutdown, AlarmInv
<1>14. CASE SystemdRestart
  BY <1>14 DEF SystemdRestart, AlarmInv, Undisturbed
<1>15. CASE SupTick
  BY <1>0, <1>15 DEF SupTick, Idle, Older, Actors, AlarmInv, Undisturbed
<1>16. CASE StopTick \/ Stopped \/ UNCHANGED supVars
  BY <1>16 DEF StopTick, Stopped, supVars, timers, AlarmInv, Undisturbed
<1> QED
  BY <1>1, <1>2, <1>3, <1>4, <1>5, <1>6, <1>7, <1>8, <1>9, <1>10, <1>11, <1>12, <1>13, <1>14,
     <1>15, <1>16 DEF SupNext

\* For all ceilings, the supervisor and the watchdog leave a worker alone that nothing
\* disturbed, however long it has had nothing to rebuild.
THEOREM NoFalseAlarmHolds == SupSpec => []NoFalseAlarm
<1>1. AlarmInv => NoFalseAlarm
  BY DEF AlarmInv, Undisturbed, NoFalseAlarm
<1> QED
  BY <1>1, AlarmInit, AlarmStep, PTL DEF SupSpec
=============================================================================
