------------------------------ MODULE Breaker ------------------------------
(***************************************************************************)
(* The per-upstream circuit breaker of internal/forwarder/breaker.go, as   *)
(* operators on breaker values.  A breaker is a record with the fields of  *)
(* the Go struct; the mutex b.mu makes every method one atomic operation,  *)
(* so a method is an operator from the old value (and the clock) to the    *)
(* new one.  BreakerUse runs one breaker under concurrent callers and      *)
(* Forwarder runs one per upstream.                                        *)
(*                                                                         *)
(* Time is a natural number of ticks.  FailNum/FailDen is FailRatio.       *)
(***************************************************************************)
EXTENDS Integers, Functions

CONSTANTS
    Window,             \* rolling window length
    Buckets,            \* window granularity, at least 1 (newBreaker clamps it)
    MinSamples,         \* the ratio is not evaluated below this many outcomes
    FailNum, FailDen,   \* trip when failures/total >= FailNum/FailDen
    ConsecFail,         \* or after this many failures in a row; 0 disables
    Cooldown,           \* open -> half-open after this long
    HalfOpenMax         \* probes admitted while half-open, at least 1 (clamped)

ASSUME PolicyAssumption ==
    /\ Buckets \in Nat \ {0}
    /\ Window \in Nat
    /\ Window >= Buckets
    /\ MinSamples \in Nat
    /\ FailNum \in Nat
    /\ FailDen \in Nat \ {0}
    /\ ConsecFail \in Nat
    /\ Cooldown \in Nat
    /\ HalfOpenMax \in Nat \ {0}

\* The zero time.Time of headStart and openedAt.
Unset == -1

BucketIdx == 0 .. (Buckets - 1)
BucketDur == Window \div Buckets
Empty == [i \in BucketIdx |-> 0]

BreakerState == {"closed", "open", "halfOpen"}

\* The values of a *breaker.
BreakerType ==
    [state : BreakerState, consec : Nat, openedAt : Nat \cup {Unset},
     halfOpen : Nat, ok : [BucketIdx -> Nat], fail : [BucketIdx -> Nat],
     headStart : Nat \cup {Unset}, headIdx : BucketIdx]

NewBreaker ==
    [state |-> "closed", consec |-> 0, openedAt |-> Unset, halfOpen |-> 0,
     ok |-> Empty, fail |-> Empty, headStart |-> Unset, headIdx |-> 0]

----------------------------------------------------------------------------
(* allow: the verdict and the breaker it leaves behind.                    *)

\* Mutant: the cooldown is off by one tick.
CooledEarly(b, t) == t - b.openedAt >= Cooldown - 1

Cooled(b, t) == t - b.openedAt >= Cooldown

\* Mutant: half-open admits everyone.
AllowsHalfOpen(b, t) ==
    \/ b.state # "open"
    \/ Cooled(b, t)

Allows(b, t) ==
    \/ b.state = "closed"
    \/ b.state = "open" /\ Cooled(b, t)
    \/ b.state = "halfOpen" /\ b.halfOpen < HalfOpenMax

\* The reservation made by an allow() that returns true.
AfterAllow(b, t) ==
    CASE b.state = "open"     -> [b EXCEPT !.state = "halfOpen", !.halfOpen = 1]
      [] b.state = "halfOpen" -> [b EXCEPT !.halfOpen = @ + 1]
      [] OTHER                -> b

----------------------------------------------------------------------------
(* record and the helpers it calls under the lock.                         *)

\* Mutant: the head moves on but the bucket it reuses is not cleared.
AdvanceKeepsOld(b, t) ==
    LET k == (t - b.headStart) \div BucketDur
    IN  IF b.headStart = Unset
        THEN [b EXCEPT !.headStart = t]
        ELSE [b EXCEPT !.headIdx = (@ + k) % Buckets,
                       !.headStart = @ + k * BucketDur]

\* advanceLocked: roll the head forward to t, clearing the buckets passed.
\* The loop of k steps clears the k buckets that follow headIdx in the ring.
Advance(b, t) ==
    LET elapsed == t - b.headStart
        k == elapsed \div BucketDur
        Passed(i) == (i - b.headIdx - 1) % Buckets < k
    IN  CASE b.headStart = Unset -> [b EXCEPT !.headStart = t]
          [] b.headStart # Unset /\ elapsed >= Window ->
               [b EXCEPT !.ok = Empty, !.fail = Empty,
                         !.headStart = t, !.headIdx = 0]
          [] OTHER ->
               [b EXCEPT !.ok = [i \in BucketIdx |-> IF Passed(i) THEN 0 ELSE @[i]],
                         !.fail = [i \in BucketIdx |-> IF Passed(i) THEN 0 ELSE @[i]],
                         !.headIdx = (@ + k) % Buckets,
                         !.headStart = @ + k * BucketDur]

ShouldTrip(b) ==
    \/ ConsecFail > 0 /\ b.consec >= ConsecFail
    \/ LET fail == SumFunction(b.fail)
           total == SumFunction(b.ok) + fail
       IN  total >= MinSamples /\ fail * FailDen >= FailNum * total

Trip(b, t) == [b EXCEPT !.state = "open", !.openedAt = t, !.halfOpen = 0]

\* closeLocked leaves headIdx where it is: every bucket is empty.
Close(b) ==
    [b EXCEPT !.state = "closed", !.halfOpen = 0,
              !.ok = Empty, !.fail = Empty, !.headStart = Unset]

CountOk(b, t) ==
    LET a == Advance(b, t)
    IN  [a EXCEPT !.ok[a.headIdx] = @ + 1, !.consec = 0]

CountFail(b, t) ==
    LET a == Advance(b, t)
    IN  [a EXCEPT !.fail[a.headIdx] = @ + 1, !.consec = @ + 1]

\* Mutant: a success while half-open does not close the breaker.
RecordOkStaysHalfOpen(b, t) ==
    IF b.state = "open" THEN Close(CountOk(b, t)) ELSE CountOk(b, t)

RecordOk(b, t) ==
    IF b.state = "closed" THEN CountOk(b, t) ELSE Close(CountOk(b, t))

\* Mutant: a failed probe does not reopen the breaker.
RecordFailKeepsProbing(b, t) ==
    IF b.state = "closed" /\ ShouldTrip(CountFail(b, t))
    THEN Trip(CountFail(b, t), t)
    ELSE CountFail(b, t)

RecordFail(b, t) ==
    IF \/ b.state = "halfOpen"
       \/ b.state = "closed" /\ ShouldTrip(CountFail(b, t))
    THEN Trip(CountFail(b, t), t)
    ELSE CountFail(b, t)

\* Record(b, ok, t) is b after record(ok) at time t.
Record(b, ok, t) == IF ok THEN RecordOk(b, t) ELSE RecordFail(b, t)
=============================================================================
