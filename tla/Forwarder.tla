----------------------------- MODULE Forwarder -----------------------------
(***************************************************************************)
(* internal/forwarder/forwarder.go: concurrent queries walk their list of  *)
(* upstreams (tryAll) under one circuit breaker per upstream, with the     *)
(* fail-open pass, the cleartext fallback, stub targets (ForwardTo) and    *)
(* the manual disables of the diagnostics page.                            *)
(*                                                                         *)
(* An upstream stands for its net|addr key; a stub target may be one of    *)
(* the fallbacks, and then shares its breaker.  isDisabled and allow() are *)
(* two critical sections on disjoint state, so they are one step here, and *)
(* so are noteAttempt and record().  The exchange itself holds no lock and *)
(* lies between two steps.  The lifetime counters of noteAttempt only feed *)
(* the diagnostics page and are left out.                                  *)
(***************************************************************************)
EXTENDS Breaker, Sequences, SequencesExt

CONSTANTS
    Queries,            \* goroutines inside Forward or ForwardTo
    Primary,            \* DoT upstreams, in order
    Fallback,           \* cleartext UDP upstreams, in order
    Stub,               \* the targets of ForwardTo, in order
    NoSNI,              \* DoT upstreams without a TLS server name
    Cleartext,          \* cleartext fallback enabled
    BreakerEnabled,     \* WithBreaker
    MaxStarts,          \* bound: queries in a behaviour
    MaxFlips,           \* bound: outages, recoveries and manual switches
    MaxTime             \* bound: the last tick of the clock

Upstreams == ToSet(Primary) \cup ToSet(Fallback) \cup ToSet(Stub)

ASSUME ForwarderAssumption ==
    /\ \A s \in {Primary, Fallback, Stub} : s \in Seq(ToSet(s))
    /\ Len(Primary) > 0
    /\ NoSNI \subseteq ToSet(Primary)
    /\ ToSet(Primary) \cap (ToSet(Fallback) \cup ToSet(Stub)) = {}
    /\ Cleartext \in BOOLEAN
    /\ BreakerEnabled \in BOOLEAN
    /\ MaxStarts \in Nat /\ MaxFlips \in Nat /\ MaxTime \in Nat

VARIABLES
    breakers,   \* f.breakers
    disabled,   \* f.disabled
    down,       \* environment: upstreams that do not answer
    clock,      \* f.now()
    query,      \* the local state of each goroutine
    starts, flips

vars == <<breakers, disabled, down, clock, query, starts, flips>>

Lists == [primary |-> Primary, fallback |-> Fallback, stub |-> Stub]

\* at, list, pass, i and allowedAny are tryAll's control state; expired says that
\* ctx is done.  off and tried are histories: the upstreams that were disabled at some
\* time during the query, and those it asked.
NewQuery(list) ==
    [at |-> "walk", list |-> list, pass |-> "normal", i |-> 1,
     allowedAny |-> FALSE, expired |-> FALSE,
     off |-> disabled, tried |-> {}]

\* A goroutine whose locals are gone.
NoQuery(at) ==
    [at |-> at, list |-> "primary", pass |-> "normal", i |-> 1,
     allowedAny |-> FALSE, expired |-> FALSE, off |-> {}, tried |-> {}]

Init ==
    /\ breakers = [u \in Upstreams |-> NewBreaker]
    /\ disabled = {}
    /\ down \in SUBSET Upstreams
    /\ clock = 0
    /\ query = [q \in Queries |-> NoQuery("idle")]
    /\ starts = 0
    /\ flips = 0

----------------------------------------------------------------------------
Walking(q) == query[q].at = "walk"
List(q) == Lists[query[q].list]
InList(q) == query[q].i <= Len(List(q))
Current(q) == List(q)[query[q].i]

\* requireSNI is true for the DoT list only.
Unusable(q, u) ==
    \/ query[q].list = "primary" /\ u \in NoSNI
    \/ u \in disabled

\* The breaker is asked in the normal pass only, and only if there is one.
Admitted(q, u) ==
    query[q].pass = "normal" /\ BreakerEnabled => Allows(breakers[u], clock)

\* Forward and ForwardTo.
Start(q, list) ==
    /\ query[q].at \in {"idle", "answered", "failed"}
    /\ starts < MaxStarts
    /\ query' = [query EXCEPT ![q] = NewQuery(list)]
    /\ starts' = starts + 1
    /\ UNCHANGED <<breakers, disabled, down, clock, flips>>

\* Mutant: an upstream that is passed over counts as allowed.
SkipCountsAsAllowed(q) ==
    /\ Walking(q) /\ InList(q)
    /\ Unusable(q, Current(q)) \/ ~Admitted(q, Current(q))
    /\ query' = [query EXCEPT ![q].i = @ + 1, ![q].allowedAny = TRUE]
    /\ UNCHANGED <<breakers, disabled, down, clock, starts, flips>>

\* tryAll's "continue"s.
SkipUpstream(q) ==
    /\ Walking(q) /\ InList(q)
    /\ Unusable(q, Current(q)) \/ ~Admitted(q, Current(q))
    /\ query' = [query EXCEPT ![q].i = @ + 1]
    /\ UNCHANGED <<breakers, disabled, down, clock, starts, flips>>

\* allow() (normal pass), then the exchange starts.
Attempt(q) ==
    /\ Walking(q) /\ InList(q)
    /\ LET u == Current(q) IN
       /\ ~Unusable(q, u)
       /\ Admitted(q, u)
       /\ breakers' = IF query[q].pass = "normal" /\ BreakerEnabled
                      THEN [breakers EXCEPT ![u] = AfterAllow(@, clock)]
                      ELSE breakers
       /\ query' = [query EXCEPT ![q].at = "exchange",
                                 ![q].allowedAny = @ \/ query[q].pass = "normal",
                                 ![q].tried = @ \cup {u}]
    /\ UNCHANGED <<disabled, down, clock, starts, flips>>

\* The exchange ends: an upstream that is up answers unless ctx is done, one that
\* is down runs into the per-try timeout; noteAttempt and record(err == nil).
Finish(q, ok) ==
    /\ query[q].at = "exchange"
    /\ LET u == Current(q) IN
       /\ ok <=> u \notin down /\ ~query[q].expired
       /\ breakers' = IF BreakerEnabled
                      THEN [breakers EXCEPT ![u] = Record(@, ok, clock)]
                      ELSE breakers
       /\ query' = [query EXCEPT ![q] = IF ok THEN NoQuery("answered")
                                        ELSE [query[q] EXCEPT !.at = "walk", !.i = query[q].i + 1]]
    /\ UNCHANGED <<disabled, down, clock, starts, flips>>

\* The whole list was refused: the forced pass.
ForcedPassDue(q) ==
    BreakerEnabled /\ query[q].pass = "normal" /\ ~query[q].allowedAny

FailOpenPass(q) ==
    /\ Walking(q) /\ ~InList(q)
    /\ ForcedPassDue(q)
    /\ query' = [query EXCEPT ![q].pass = "forced", ![q].i = 1]
    /\ UNCHANGED <<breakers, disabled, down, clock, starts, flips>>

\* Forward: DoT failed and cleartext is allowed.
CleartextFallback(q) ==
    /\ Walking(q) /\ ~InList(q)
    /\ ~ForcedPassDue(q)
    /\ query[q].list = "primary" /\ Cleartext
    /\ query' = [query EXCEPT ![q].list = "fallback", ![q].pass = "normal",
                              ![q].i = 1, ![q].allowedAny = FALSE]
    /\ UNCHANGED <<breakers, disabled, down, clock, starts, flips>>

GiveUp(q) ==
    /\ Walking(q) /\ ~InList(q)
    /\ ~ForcedPassDue(q)
    /\ ~(query[q].list = "primary" /\ Cleartext)
    /\ query' = [query EXCEPT ![q].at = "failed", ![q].pass = "normal",
                              ![q].i = 1, ![q].allowedAny = FALSE]
    /\ UNCHANGED <<breakers, disabled, down, clock, starts, flips>>

\* The request's deadline, or the overall ceiling of Forward, passes.
Expire(q) ==
    /\ query[q].at \in {"walk", "exchange"}
    /\ ~query[q].expired
    /\ query' = [query EXCEPT ![q].expired = TRUE]
    /\ UNCHANGED <<breakers, disabled, down, clock, starts, flips>>

----------------------------------------------------------------------------
\* SetBackendEnabled on a known address; the queries in flight note it.
SetBackendEnabled(u, enabled) ==
    /\ flips < MaxFlips
    /\ u \in ToSet(Primary) \cup ToSet(Fallback)
    /\ enabled <=> u \in disabled
    /\ disabled' = IF enabled THEN disabled \ {u} ELSE disabled \cup {u}
    /\ query' = [q \in Queries |-> IF query[q].at \in {"walk", "exchange"}
                                   THEN [query[q] EXCEPT !.off = @ \cup disabled']
                                   ELSE query[q]]
    /\ flips' = flips + 1
    /\ UNCHANGED <<breakers, down, clock, starts>>

ResetBackends ==
    /\ disabled # {}
    /\ disabled' = {}
    /\ UNCHANGED <<breakers, down, clock, query, starts, flips>>

\* Environment: an upstream fails or recovers.
Flip(u) ==
    /\ flips < MaxFlips
    /\ down' = IF u \in down THEN down \ {u} ELSE down \cup {u}
    /\ flips' = flips + 1
    /\ UNCHANGED <<breakers, disabled, clock, query, starts>>

Tick ==
    /\ clock < MaxTime
    /\ clock' = clock + 1
    /\ UNCHANGED <<breakers, disabled, down, query, starts, flips>>

\* The bounds are used up and every query has ended.
Terminating ==
    /\ starts = MaxStarts
    /\ \A q \in Queries : query[q].at \in {"idle", "answered", "failed"}
    /\ UNCHANGED vars

\* One step of the goroutine that serves q.
Step(q) ==
    \/ SkipUpstream(q)
    \/ Attempt(q)
    \/ \E ok \in BOOLEAN : Finish(q, ok)
    \/ FailOpenPass(q)
    \/ CleartextFallback(q)
    \/ GiveUp(q)

Next ==
    \/ \E q \in Queries : \E list \in {"primary", "stub"} : Start(q, list)
    \/ \E q \in Queries : Step(q)
    \/ \E q \in Queries : Expire(q)
    \/ \E u \in Upstreams : \E enabled \in BOOLEAN : SetBackendEnabled(u, enabled)
    \/ ResetBackends
    \/ \E u \in Upstreams : Flip(u)
    \/ Tick
    \/ Terminating

Spec == Init /\ [][Next]_vars

----------------------------------------------------------------------------
(* Properties.                                                             *)

Usable(list) == ToSet(Lists[list]) \ NoSNI

\* Breakers alone never end a list: a query that moved on to cleartext, or failed,
\* had asked an upstream of the list it left, or each of them was manually
\* disabled at some time while it ran.
LeftForCause(q, list) ==
    \/ query[q].tried \cap ToSet(Lists[list]) # {}
    \/ Usable(list) \subseteq query[q].off
NoSilentSkip ==
    \A q \in Queries :
       /\ query[q].list = "fallback" => Cleartext /\ LeftForCause(q, "primary")
       /\ query[q].at = "failed" => LeftForCause(q, query[q].list)

=============================================================================
