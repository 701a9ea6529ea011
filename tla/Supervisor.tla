----------------------------- MODULE Supervisor -----------------------------
(***************************************************************************)
(* internal/supervisor/supervisor.go: superviseWorker and monitor for one  *)
(* worker, be it the mirror or another, the watchdog loop, and what       *)
(* main.go wires to them: the snapshot age, which the mirror's start and   *)
(* its confirmed cycles reset.                                             *)
(*                                                                         *)
(* Time is kept as ages that stop growing one past the largest ceiling     *)
(* they are compared with, so behaviours are infinite and states finite.   *)
(* A unit of time gives the monitor's ticker, the watchdog's ticker, a     *)
(* healthy worker and the outside world one step each, in any order.       *)
(***************************************************************************)
EXTENDS Integers

CONSTANTS
    Ceiling,        \* the worker's stall ceiling
    HardCeiling,    \* snapshot age that force-restarts the mirror
    TripCeiling,    \* snapshot age that withholds the watchdog ping
    GracePeriod,    \* wait for a cancelled worker
    DefaultBackoff, MaxBackoff, HealthyRun,
    WorkerFaults,   \* whether the worker hangs and panics
    MaxLeaks        \* bound: abandoned goroutines that still run

ASSUME SupervisorAssumption ==
    /\ {Ceiling, HardCeiling, TripCeiling, GracePeriod, DefaultBackoff, MaxBackoff,
        HealthyRun, MaxLeaks} \subseteq Nat \ {0}
    /\ DefaultBackoff <= MaxBackoff
    /\ WorkerFaults \in BOOLEAN

VARIABLES
    builder,    \* the worker is the one BuilderName names, the mirror; never changes
    phase,      \* where superviseWorker is
    worker,     \* the worker's goroutine
    leaked,     \* goroutines abandoned by a restart and still running
    forceCh,    \* a force-restart request is buffered
    wait,       \* time left of the grace period or the backoff
    backoff,
    hbAge,      \* age of the heartbeat, shared by all runs of the worker
    snapAge,    \* snapshotAge of main.go, of the mirror worker only
    forceAge,   \* age of lastForce
    runAge,     \* age of started
    withheld,   \* the last watchdog tick sent no ping
    due,        \* who has still to act in this unit of time
    upstream,   \* the upstream confirms cycles
    stop,       \* the parent context is cancelled
    disturbed   \* history: a worker panicked or wedged, the upstream was lost, or
                \* an operator asked for a restart

timers == <<wait, backoff, hbAge, snapAge, forceAge, runAge>>
supVars == <<builder, phase, worker, leaked, forceCh, timers, withheld, due, upstream, stop, disturbed>>

\* starting: Run has not yet confirmed; wedged: no progress, but honours its
\* context; deaf: ignores it.
Workers == {"starting", "live", "wedged", "deaf", "exited"}
Actors == {"cycle", "monitor", "watchdog", "world"}

\* The daemon starts: lastForce is the zero time, the cold snapshot is new.
SupInit ==
    /\ builder \in BOOLEAN
    /\ phase = "running" /\ worker = "starting" /\ leaked = 0 /\ forceCh = FALSE
    /\ wait = 0 /\ backoff = DefaultBackoff
    /\ hbAge = 0 /\ snapAge = 0 /\ forceAge = HardCeiling + 1 /\ runAge = 0
    /\ withheld = FALSE /\ due = Actors /\ upstream \in BOOLEAN /\ stop = FALSE
    /\ disturbed = ~upstream

----------------------------------------------------------------------------
(* The mirror worker.                                                      *)

\* Builder.Run: the warm or cold snapshot counts as confirmed.
Start ==
    /\ worker = "starting" /\ worker' = "live"
    /\ hbAge' = 0 /\ snapAge' = 0
    /\ due' = due \ {"cycle"}
    /\ UNCHANGED <<builder, phase, leaked, forceCh, wait, backoff, forceAge, runAge, withheld,
                   upstream, stop, disturbed>>

\* Mutant: only a rebuild confirms, so stable serials let the age grow.
CycleUnconfirmed ==
    /\ worker = "live" /\ "cycle" \in due
    /\ due' = due \ {"cycle"}
    /\ hbAge' = 0
    /\ UNCHANGED <<builder, phase, worker, leaked, forceCh, wait, backoff, snapAge, forceAge, runAge,
                   withheld, upstream, stop, disturbed>>

\* A poll cycle ends: progress always, confirmation only if the upstream answered.
Cycle ==
    /\ worker = "live" /\ "cycle" \in due
    /\ due' = due \ {"cycle"}
    /\ hbAge' = 0
    /\ snapAge' = IF upstream THEN 0 ELSE snapAge
    /\ UNCHANGED <<builder, phase, worker, leaked, forceCh, wait, backoff, forceAge, runAge,
                   withheld, upstream, stop, disturbed>>

\* Faults and requests: at most one in a unit of time.
World == "world" \in due /\ due' = due \ {"world"}

\* The worker hangs, recovers, or panics.
Wedge(how) ==
    /\ World /\ WorkerFaults
    /\ worker \in {"starting", "live"} /\ worker' = how
    /\ disturbed' = TRUE
    /\ UNCHANGED <<builder, phase, leaked, forceCh, timers, withheld, upstream, stop>>

Unwedge ==
    /\ World
    /\ worker \in {"wedged", "deaf"} /\ worker' = "live"
    /\ UNCHANGED <<builder, phase, leaked, forceCh, timers, withheld, upstream, stop, disturbed>>

Panic ==
    /\ World /\ WorkerFaults
    /\ worker \in {"starting", "live", "wedged"} /\ worker' = "exited"
    /\ disturbed' = TRUE
    /\ UNCHANGED <<builder, phase, leaked, forceCh, timers, withheld, upstream, stop>>

\* A cancelled run returns, unless it is deaf.
Exit ==
    /\ phase \in {"cancelled", "draining"} \/ stop
    /\ worker \in {"starting", "live", "wedged"} /\ worker' = "exited"
    /\ UNCHANGED <<builder, phase, leaked, forceCh, timers, withheld, due, upstream, stop, disturbed>>

\* An abandoned goroutine ends its cycle late: it ticks the heartbeat of the run
\* that replaced it, may confirm, and then sees its cancelled context.
LeakedCycle ==
    /\ leaked > 0 /\ leaked' = leaked - 1
    /\ hbAge' = 0
    /\ snapAge' = IF upstream THEN 0 ELSE snapAge
    /\ UNCHANGED <<builder, phase, worker, forceCh, wait, backoff, forceAge, runAge, withheld,
                   due, upstream, stop, disturbed>>

----------------------------------------------------------------------------
(* superviseWorker and monitor.                                            *)

Cancelled == phase' = "cancelled" /\ wait' = GracePeriod

\* monitor: the run returned.
Returned ==
    /\ phase = "running" /\ worker = "exited"
    /\ Cancelled
    /\ UNCHANGED <<builder, worker, leaked, forceCh, backoff, hbAge, snapAge, forceAge, runAge,
                   withheld, due, upstream, stop, disturbed>>

\* monitor: a force-restart request.
ForceRequested ==
    /\ phase = "running" /\ forceCh /\ forceCh' = FALSE
    /\ Cancelled
    /\ UNCHANGED <<builder, worker, leaked, backoff, hbAge, snapAge, forceAge, runAge, withheld,
                   due, upstream, stop, disturbed>>

\* Mutant: the stall check never fires.
MonitorTickBlind ==
    /\ "monitor" \in due /\ due' = due \ {"monitor"}
    /\ UNCHANGED <<builder, phase, worker, leaked, forceCh, timers, withheld, upstream, stop, disturbed>>

\* monitor's ticker: cancel a run without progress for longer than its ceiling.
MonitorTick ==
    /\ "monitor" \in due /\ due' = due \ {"monitor"}
    /\ IF phase = "running" /\ hbAge > Ceiling THEN Cancelled ELSE UNCHANGED <<phase, wait>>
    /\ UNCHANGED <<builder, worker, leaked, forceCh, backoff, hbAge, snapAge, forceAge, runAge,
                   withheld, upstream, stop, disturbed>>

\* A cancelled run is over: count the restart and back off, or stop.
Back(b) == IF runAge > HealthyRun THEN DefaultBackoff ELSE b

BackOff ==
    IF stop THEN phase' = "stopped" /\ UNCHANGED <<wait, backoff>>
    ELSE /\ phase' = "backoff"
         /\ wait' = Back(backoff)
         /\ backoff' = IF 2 * Back(backoff) > MaxBackoff THEN MaxBackoff
                                                         ELSE 2 * Back(backoff)

Reap ==
    /\ phase = "cancelled" /\ worker = "exited"
    /\ BackOff
    /\ UNCHANGED <<builder, worker, leaked, forceCh, hbAge, snapAge, forceAge, runAge, withheld,
                   due, upstream, stop, disturbed>>

\* Mutant: the supervisor waits for the goroutine however long it takes.
AbandonNever ==
    phase = "cancelled" /\ worker # "exited" /\ wait = 0 /\ UNCHANGED supVars

Abandon ==
    /\ phase = "cancelled" /\ worker # "exited" /\ wait = 0
    /\ worker' = "exited"
    /\ leaked' = IF leaked < MaxLeaks THEN leaked + 1 ELSE leaked
    /\ BackOff
    /\ UNCHANGED <<builder, forceCh, hbAge, snapAge, forceAge, runAge, withheld, due, upstream,
                   stop, disturbed>>

\* The backoff is over: a fresh run with a fresh heartbeat.
Respawn ==
    /\ phase = "backoff" /\ wait = 0 /\ ~stop
    /\ phase' = "running" /\ worker' = "starting"
    /\ hbAge' = 0 /\ runAge' = 0
    /\ UNCHANGED <<builder, leaked, forceCh, wait, backoff, snapAge, forceAge, withheld, due,
                   upstream, stop, disturbed>>

\* Mutant: the backoff sleeps through the shutdown.
StopRunningSleeps ==
    /\ stop
    /\ \/ phase = "running" /\ phase' = "draining"
       \/ phase = "draining" /\ worker = "exited" /\ phase' = "stopped"
       \/ phase = "backoff" /\ phase' = "backoff"
    /\ UNCHANGED <<builder, worker, leaked, forceCh, timers, withheld, due, upstream, stop, disturbed>>

\* The parent context is cancelled while the run is monitored, or during the backoff.
StopRunning ==
    /\ stop
    /\ \/ phase = "running" /\ phase' = "draining"
       \/ phase = "draining" /\ worker = "exited" /\ phase' = "stopped"
       \/ phase = "backoff" /\ phase' = "stopped"
    /\ UNCHANGED <<builder, worker, leaked, forceCh, timers, withheld, due, upstream, stop, disturbed>>

----------------------------------------------------------------------------
(* The watchdog, and the world.                                            *)

\* watchdogTick: force-restart a stale mirror, at most once per HardCeiling, and
\* withhold the ping beyond TripCeiling.  The liveness probe always answers: the
\* health record is in every snapshot.
WatchdogTick ==
    /\ "watchdog" \in due /\ due' = due \ {"watchdog"} /\ ~stop
    /\ IF builder /\ snapAge > HardCeiling /\ forceAge > HardCeiling
       THEN forceCh' = TRUE /\ forceAge' = 0
       ELSE UNCHANGED <<forceCh, forceAge>>
    /\ withheld' = (snapAge > TripCeiling)
    /\ UNCHANGED <<builder, phase, worker, leaked, wait, backoff, hbAge, snapAge, runAge, upstream,
                   stop, disturbed>>

\* The diagnostics page asks for a refresh.
RefreshMirror ==
    /\ World /\ builder /\ WorkerFaults
    /\ ~forceCh /\ ~stop /\ forceCh' = TRUE /\ disturbed' = TRUE
    /\ UNCHANGED <<builder, phase, worker, leaked, timers, withheld, upstream, stop>>

UpstreamLost ==
    /\ World
    /\ upstream /\ upstream' = FALSE /\ disturbed' = TRUE
    /\ UNCHANGED <<builder, phase, worker, leaked, forceCh, timers, withheld, stop>>

UpstreamBack ==
    /\ World
    /\ ~upstream /\ upstream' = TRUE
    /\ UNCHANGED <<builder, phase, worker, leaked, forceCh, timers, withheld, stop, disturbed>>

Shutdown ==
    /\ ~stop /\ stop' = TRUE
    /\ UNCHANGED <<builder, phase, worker, leaked, forceCh, timers, withheld, due, upstream, disturbed>>

\* systemd kills and restarts a daemon that stopped pinging.
SystemdRestart ==
    /\ withheld /\ ~stop
    /\ phase' = "running" /\ worker' = "starting" /\ leaked' = 0 /\ forceCh' = FALSE
    /\ wait' = 0 /\ backoff' = DefaultBackoff
    /\ hbAge' = 0 /\ snapAge' = 0 /\ forceAge' = HardCeiling + 1 /\ runAge' = 0
    /\ withheld' = FALSE /\ due' = Actors
    /\ UNCHANGED <<builder, upstream, stop, disturbed>>

Older(age, ceiling) == IF age <= ceiling THEN age + 1 ELSE age

\* A unit of time passes once everybody who has a step in it took it.
Idle ==
    /\ due \cap {"monitor", "watchdog"} = {}
    /\ ~(worker = "live" /\ "cycle" \in due) /\ worker # "starting"
    /\ ~(phase = "running" /\ (forceCh \/ worker = "exited"))
    /\ ~(phase = "backoff" /\ wait = 0)

SupTick ==
    /\ Idle /\ ~stop
    /\ due' = Actors
    /\ wait' = IF wait > 0 THEN wait - 1 ELSE 0
    /\ hbAge' = Older(hbAge, Ceiling) /\ snapAge' = IF builder THEN Older(snapAge, TripCeiling) ELSE 0
    /\ forceAge' = Older(forceAge, HardCeiling) /\ runAge' = Older(runAge, HealthyRun)
    /\ UNCHANGED <<builder, phase, worker, leaked, forceCh, backoff, withheld, upstream, stop, disturbed>>

\* During a shutdown only the grace period still counts.
StopTick ==
    /\ stop /\ phase = "cancelled" /\ wait > 0 /\ wait' = wait - 1
    /\ UNCHANGED <<builder, phase, worker, leaked, forceCh, backoff, hbAge, snapAge, forceAge, runAge,
                   withheld, due, upstream, stop, disturbed>>

Stopped == stop /\ phase \in {"stopped", "draining"} /\ UNCHANGED supVars

Faults == (\E how \in {"wedged", "deaf"} : Wedge(how)) \/ Panic \/ UpstreamLost

SupNext ==
    \/ Start \/ Cycle \/ Unwedge \/ Exit \/ LeakedCycle \/ Faults
    \/ Returned \/ ForceRequested \/ MonitorTick \/ Reap \/ Abandon \/ Respawn \/ StopRunning
    \/ WatchdogTick \/ RefreshMirror \/ UpstreamBack \/ Shutdown \/ SystemdRestart
    \/ SupTick \/ StopTick \/ Stopped

SupSpec == SupInit /\ [][SupNext]_supVars

\* Goroutines are scheduled, tickers fire and time passes; a cancelled run that
\* honours its context returns.
SupFairSpec ==
    /\ SupSpec
    /\ WF_supVars(Start) /\ WF_supVars(Cycle) /\ WF_supVars(Exit)
    /\ WF_supVars(Returned \/ ForceRequested \/ Reap \/ Abandon \/ Respawn \/ StopRunning)
    /\ WF_supVars(MonitorTick) /\ WF_supVars(WatchdogTick) /\ WF_supVars(SupTick \/ StopTick)

----------------------------------------------------------------------------
(* Properties.                                                             *)

\* builder.go:41-43: a healthy mirror is never restarted or reported, however long it
\* has nothing to rebuild.
NoFalseAlarm ==
    ~disturbed /\ ~stop => phase = "running" /\ ~forceCh /\ ~withheld

\* A run without progress does not stay: it recovers or is replaced, even if it
\* ignores its context and late ticks of abandoned runs refresh its heartbeat.
HungIsReplaced == worker \in {"wedged", "deaf"} ~> worker \notin {"wedged", "deaf"} \/ stop

\* After any restart the worker runs again.
Restarts == phase \in {"cancelled", "backoff"} ~> phase = "running" \/ stop

\* A shutdown ends, unless the worker ignores its context.
ShutdownEnds == stop ~> phase = "stopped" \/ worker = "deaf"
=============================================================================
