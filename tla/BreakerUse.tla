----------------------------- MODULE BreakerUse -----------------------------
(***************************************************************************)
(* One circuit breaker under concurrent callers.  A caller is a goroutine  *)
(* inside tryAll (internal/forwarder/forwarder.go): it asks allow(), runs  *)
(* an exchange without holding any lock, and reports the outcome with      *)
(* record().  The forced pass of tryAll skips allow() and still records.   *)
(* Outcomes therefore arrive in any order and at any later time, also when *)
(* the breaker has tripped, probed or closed in between.                   *)
(***************************************************************************)
EXTENDS Breaker, FiniteSets, FiniteSetsExt

CONSTANTS
    Callers,        \* goroutines using the upstream
    MaxCalls,       \* bound: exchanges issued in a behaviour
    MaxTime         \* bound: the last tick of the clock

ASSUME UseAssumption ==
    /\ MaxCalls \in Nat
    /\ MaxTime \in Nat

VARIABLES
    br,             \* the breaker
    clock,          \* f.now()
    pc,             \* where each caller is
    issued,         \* exchanges issued so far (for the bound)
    log,            \* history: outcomes recorded since the last recovery, by time
    recordedAt,     \* history: time of the last outcome in log
    lastTrip,       \* history: when the breaker last tripped; Unset once recovered
    probes          \* history: exchanges allow() admitted since lastTrip

vars == <<br, clock, pc, issued, log, recordedAt, lastTrip, probes>>

Time == 0 .. MaxTime
Outcomes == [Time -> Nat]
NoOutcomes == [t \in Time |-> 0]

TypeOK ==
    /\ br \in BreakerType
    /\ clock \in Time
    /\ pc \in [Callers -> {"idle", "admitted", "refused", "forced"}]
    /\ issued \in 0 .. MaxCalls
    /\ log \in [ok : Outcomes, fail : Outcomes]
    /\ recordedAt \in Time
    /\ lastTrip \in Time \cup {Unset}
    /\ probes \in Nat

Init ==
    /\ br = NewBreaker
    /\ clock = 0
    /\ pc = [c \in Callers |-> "idle"]
    /\ issued = 0
    /\ log = [ok |-> NoOutcomes, fail |-> NoOutcomes]
    /\ recordedAt = 0
    /\ lastTrip = Unset
    /\ probes = 0

----------------------------------------------------------------------------
\* tryAll, first pass: allow() says yes and the exchange starts.
Admit(c) ==
    /\ pc[c] = "idle"
    /\ issued < MaxCalls
    /\ Allows(br, clock)
    /\ br' = AfterAllow(br, clock)
    /\ pc' = [pc EXCEPT ![c] = "admitted"]
    /\ issued' = issued + 1
    /\ probes' = IF lastTrip = Unset THEN 0 ELSE probes + 1
    /\ UNCHANGED <<clock, log, recordedAt, lastTrip>>

\* tryAll, first pass: allow() says no and the loop goes on to the next upstream.
Refuse(c) ==
    /\ pc[c] = "idle"
    /\ ~Allows(br, clock)
    /\ pc' = [pc EXCEPT ![c] = "refused"]
    /\ UNCHANGED <<br, clock, issued, log, recordedAt, lastTrip, probes>>

\* The loop found another upstream that allowed it: this one is skipped.
Skip(c) ==
    /\ pc[c] = "refused"
    /\ pc' = [pc EXCEPT ![c] = "idle"]
    /\ UNCHANGED <<br, clock, issued, log, recordedAt, lastTrip, probes>>

\* tryAll, forced pass: every upstream refused, and the exchange starts whatever
\* the breaker would say by now.
ForcedTry(c) ==
    /\ pc[c] = "refused"
    /\ issued < MaxCalls
    /\ pc' = [pc EXCEPT ![c] = "forced"]
    /\ issued' = issued + 1
    /\ UNCHANGED <<br, clock, log, recordedAt, lastTrip, probes>>

\* The exchange ended (an answer, an error or the per-try timeout): record(ok).
Finish(c, ok) ==
    /\ pc[c] \in {"admitted", "forced"}
    /\ pc' = [pc EXCEPT ![c] = "idle"]
    /\ br' = Record(br, ok, clock)
    /\ recordedAt' = clock
    /\ log' = IF br.state # "closed" /\ ok
              THEN [ok |-> NoOutcomes, fail |-> NoOutcomes]
              ELSE IF ok THEN [log EXCEPT !.ok[clock] = @ + 1]
                         ELSE [log EXCEPT !.fail[clock] = @ + 1]
    /\ lastTrip' = CASE br.state # "open" /\ br'.state = "open" -> clock
                     [] br'.state = "closed" -> Unset
                     [] OTHER -> lastTrip
    /\ probes' = IF br'.state = br.state THEN probes ELSE 0
    /\ UNCHANGED <<clock, issued>>

Tick ==
    /\ clock < MaxTime
    /\ clock' = clock + 1
    /\ UNCHANGED <<br, pc, issued, log, recordedAt, lastTrip, probes>>

\* The bounds are used up and no exchange is outstanding.
Terminating ==
    /\ clock = MaxTime
    /\ issued = MaxCalls
    /\ \A c \in Callers : pc[c] = "idle"
    /\ UNCHANGED vars

Next ==
    \/ \E c \in Callers : Admit(c)
    \/ \E c \in Callers : Refuse(c)
    \/ \E c \in Callers : Skip(c)
    \/ \E c \in Callers : ForcedTry(c)
    \/ \E c \in Callers : \E ok \in BOOLEAN : Finish(c, ok)
    \/ Tick
    \/ Terminating

Spec == Init /\ [][Next]_vars

\* Every exchange ends: dns.Client.Timeout (perTry) bounds it.
Fairness == \A c \in Callers : WF_vars(\E ok \in BOOLEAN : Finish(c, ok))
FairSpec == Spec /\ Fairness

----------------------------------------------------------------------------
(* Properties.                                                             *)

\* The outcomes of h not older than age, seen from the last recorded one.
Recent(h, age) ==
    MapThenSumSet(LAMBDA t : h[t],
                  {t \in Time : t <= recordedAt /\ recordedAt - t <= age})

\* While the breaker is closed, and so whenever shouldTripLocked reads the sums, they
\* hold every outcome of the last (Buckets-1) bucket lengths and none older than Window,
\* whatever gaps, wrap-arounds and recoveries came before.  Outcomes recorded while
\* open or half-open enter the buckets too, and closeLocked must take them out.
WindowExact ==
    br.state = "closed" =>
        /\ Recent(log.fail, (Buckets - 1) * BucketDur) <= SumFunction(br.fail)
        /\ SumFunction(br.fail) <= Recent(log.fail, Window - 1)
        /\ Recent(log.ok, (Buckets - 1) * BucketDur) <= SumFunction(br.ok)
        /\ SumFunction(br.ok) <= Recent(log.ok, Window - 1)

\* An upstream that failed ConsecFail times in a row is never left closed, also
\* when some of the failures were late results of an earlier outage.
ClosedBelowConsec ==
    br.state = "closed" => ~(ConsecFail > 0 /\ br.consec >= ConsecFail)

\* Between a trip and the recovery or the next trip, allow() lets at most
\* HalfOpenMax exchanges through to the suspect upstream, late results or not.
ProbeBudget == lastTrip # Unset => probes <= HalfOpenMax

\* A half-open breaker always has a probe in flight, so its budget cannot leak:
\* some later record() will close it or reopen it.
HalfOpenHasProbe ==
    br.state = "halfOpen" => \E c \in Callers : pc[c] = "admitted"

\* allow() admits nobody until Cooldown has passed since the last trip, unless
\* the upstream has proved itself (a success was recorded) since then.
FailFast ==
    [][\A c \in Callers :
          pc[c] = "idle" /\ pc'[c] = "admitted" =>
             lastTrip = Unset \/ clock - lastTrip >= Cooldown]_vars

\* A half-open breaker does not stay half-open.
HalfOpenResolves == (br.state = "halfOpen") ~> (br.state # "halfOpen")
=============================================================================
