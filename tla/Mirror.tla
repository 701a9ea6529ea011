------------------------------- MODULE Mirror -------------------------------
(***************************************************************************)
(* The Cloudflare mirror worker: internal/mirror/builder.go (Run, refresh, *)
(* republish) and internal/mirror/poller.go (cycle), with the warm cache   *)
(* it persists to and the vhost feed (internal/vhost/vhost.go) and DDR     *)
(* provider it folds into every snapshot it publishes.                     *)
(*                                                                         *)
(* A cycle asks for each zone's serial, decides, fetches each zone's       *)
(* records, reads the vhost set, publishes under b.mu and saves file by    *)
(* file: one step each, because Cloudflare is edited, the vhost feed and   *)
(* the DDR advert change, calls and writes fail, the supervisor restarts   *)
(* the worker and the process crashes in between.  Time is counted in      *)
(* cycles.  The loops visit zones in any order.                            *)
(***************************************************************************)
EXTENDS WarmCache, FiniteSets

CONSTANTS
    Account,        \* the local zones that exist in the Cloudflare account
    FirstSerial,    \* the serial of version 0 of every zone
    ForcedCycles,   \* the forced full refresh, in cycles
    SerialLag,      \* how many edits a recursive resolver's SOA may lag behind
    MaxEdits,       \* bound: edits of the zones
    MaxChanges,     \* bound: changes of the vhost list and of the DDR advert
    MaxFaults,      \* bound: failed and lagging calls, failed writes, corrupted files
    MaxRestarts     \* bound: worker restarts and process crashes

ASSUME MirrorAssumption ==
    /\ Account \subseteq Zones
    /\ FirstSerial \in 1 .. (Modulus - 1)
    /\ ForcedCycles \in Nat \ {0}
    /\ {SerialLag, MaxEdits, MaxChanges, MaxFaults, MaxRestarts} \subseteq Nat
    /\ MaxEdits + 1 < Modulus \div 2   \* a serial never moves by half its range, 0 skipped

VARIABLES
    cf,         \* version of each zone's records at Cloudflare, and how many
    edits,      \* edits made them
    edge,       \* version of the vhost list at the reverse proxy
    feed,       \* version of Feed.current
    applying,   \* the feed has stored a set and not yet called ApplyVHosts
    ddr,        \* version of the DDR advert, and whether Republish is due
    ddrDue,
    pub,        \* the published snapshot, equal to b.last
    confirmed,  \* confirmedAt belongs to the latest cycle
    disk,       \* the warm cache
    run,        \* the local state of Run, refresh and the poller
    faults, restarts

cfVars == <<cf, edits>>
vhostVars == <<edge, feed, applying>>
ddrVars == <<ddr, ddrDue>>
vars == <<cfVars, vhostVars, ddrVars, pub, confirmed, disk, run, faults, restarts>>

\* model.Snapshot.  healthy is CFHealthy: set by a build, not by a warm start.
Cold == [zones |-> NoZones, vhosts |-> 0, ddr |-> 0, healthy |-> FALSE]

NoObs == [z \in Zones |-> 0]
\* The locals.  obs: serials observed by the cycle (0: none); first: lastFull is zero;
\* age: cycles since lastFull; todo: zones a loop has still to visit.
Booting == [at |-> "boot", todo |-> {}, obs |-> NoObs, snap |-> Cold,
            states |-> [z \in Zones |-> ZeroState], first |-> TRUE, age |-> 0]

\* A first start: an account whose zones are still empty, no cache on disk.
Init ==
    /\ cf = [z \in Zones |-> 0]
    /\ edge = 0 /\ feed = 0 /\ applying = FALSE
    /\ ddr = 0 /\ ddrDue = FALSE
    /\ pub = Cold /\ confirmed = FALSE
    /\ disk = EmptyDisk
    /\ run = Booting
    /\ edits = 0 /\ faults = 0 /\ restarts = 0

\* One failure of whatever the worker was doing.
Fault == faults < MaxFaults /\ faults' = faults + 1

\* The SOA serial of version v.  No zone ever serves serial 0.
SerialOf(v) == 1 + ((FirstSerial - 1 + v) % (Modulus - 1))
VersionOf(s) == (s - FirstSerial) % (Modulus - 1)

----------------------------------------------------------------------------
(* Run: warm start.                                                        *)

Polling(r) == [r EXCEPT !.at = "poll", !.todo = Zones, !.obs = NoObs, !.snap = Cold]

\* cache.Load: publish what it has, if anything; noteConfirmed comes after.
LoadWarm ==
    /\ run.at = "boot"
    /\ LET zones == LoadZones(disk)
           seeded == [run EXCEPT !.states = LoadStates(disk)]
       IN  IF Present(zones) = {}
           THEN run' = Polling(seeded) /\ confirmed' = TRUE
           ELSE /\ run' = [seeded EXCEPT !.at = "vhosts", !.snap = [Cold EXCEPT !.zones = zones]]
                /\ UNCHANGED confirmed
    /\ UNCHANGED <<cfVars, vhostVars, ddrVars, pub, disk, faults, restarts>>

\* The index cannot be read: the poller starts without serial states.
LoadFails ==
    /\ run.at = "boot" /\ Fault
    /\ run' = Polling(run) /\ confirmed' = TRUE
    /\ UNCHANGED <<cfVars, vhostVars, ddrVars, pub, disk, restarts>>

----------------------------------------------------------------------------
(* cycle: poll the serials and decide.                                     *)

PollSerial(z) ==
    /\ run.at = "poll" /\ z \in run.todo
    /\ run' = [run EXCEPT !.todo = @ \ {z}, !.obs[z] = SerialOf(cf[z])]
    /\ UNCHANGED <<cfVars, vhostVars, ddrVars, pub, confirmed, disk, faults, restarts>>

\* The answer comes from a resolver's cache, and an edit is not in it yet.
SerialLags(z, v) ==
    /\ run.at = "poll" /\ z \in run.todo /\ Fault
    /\ v < cf[z] /\ cf[z] - v <= SerialLag
    /\ run' = [run EXCEPT !.todo = @ \ {z}, !.obs[z] = SerialOf(v)]
    /\ UNCHANGED <<cfVars, vhostVars, ddrVars, pub, confirmed, disk, restarts>>

SerialFails(z) ==
    /\ run.at = "poll" /\ z \in run.todo /\ Fault
    /\ run' = [run EXCEPT !.todo = @ \ {z}]
    /\ UNCHANGED <<cfVars, vhostVars, ddrVars, pub, confirmed, disk, restarts>>

Observed == {z \in Zones : run.obs[z] # 0}
Need == \E z \in Observed : ShouldFetch(run.states[z], run.obs[z])

Forced == ~run.first /\ run.age >= ForcedCycles

\* Mutant: the "warm + unchanged" shortcut: no reconcile on the first cycle.
NeverReconcile == FALSE

Reconcile == run.first /\ Observed # {}

Waiting(r) == [r EXCEPT !.at = "wait", !.todo = {}, !.obs = NoObs, !.snap = Cold]

\* Nothing to rebuild: current if the upstream was reached at all.
Quiet ==
    /\ run.at = "poll" /\ run.todo = {}
    /\ ~Need /\ ~Forced /\ ~Reconcile
    /\ run' = Waiting(run)
    /\ confirmed' = (Observed # {})
    /\ UNCHANGED <<cfVars, vhostVars, ddrVars, pub, disk, faults, restarts>>

StartRefresh ==
    /\ run.at = "poll" /\ run.todo = {}
    /\ Need \/ Forced \/ Reconcile
    /\ run' = [run EXCEPT !.at = "build", !.todo = Account,
                          !.snap = [Cold EXCEPT !.healthy = TRUE]]
    /\ UNCHANGED <<cfVars, vhostVars, ddrVars, pub, confirmed, disk, faults, restarts>>

----------------------------------------------------------------------------
(* refresh: BuildSnapshot, stamp, publish, save.                           *)

Fetched(z, flat) ==
    /\ run.at = "build" /\ z \in run.todo
    /\ run' = [run EXCEPT !.todo = @ \ {z},
                          !.snap.zones[z] = [ver |-> cf[z], serial |-> 0, stale |-> FALSE,
                                             flat |-> flat]]
    /\ UNCHANGED <<cfVars, vhostVars, ddrVars, pub, confirmed, disk, restarts>>

FetchZone(z) == Fetched(z, TRUE) /\ UNCHANGED faults

\* A tunnel's addresses cannot be resolved: the zone is built without them.
FlattenFails(z) == Fetched(z, FALSE) /\ Fault

\* The zone list or the records of one zone cannot be fetched: the previous
\* snapshot and the states stay, lastFull too.
BuildFails ==
    /\ run.at = "build" /\ Fault
    /\ run' = Waiting(run) /\ confirmed' = FALSE
    /\ UNCHANGED <<cfVars, vhostVars, ddrVars, pub, disk, restarts>>

\* LastFetchedSerial and the served SOA take the observed serial.
Stamped(zones) ==
    [z \in Zones |-> IF zones[z] # NoZone /\ run.obs[z] # 0
                     THEN [zones[z] EXCEPT !.serial = run.obs[z]] ELSE zones[z]]

\* b.vhosts() is read before b.mu is taken.
ReadVHosts ==
    /\ \/ run.at = "build" /\ run.todo = {}
       \/ run.at = "vhosts"
    /\ run' = [run EXCEPT !.at = "publish", !.snap.vhosts = feed,
                          !.snap.zones = Stamped(@)]
    /\ UNCHANGED <<cfVars, vhostVars, ddrVars, pub, confirmed, disk, faults, restarts>>

\* Mutant: the DDR advert that was last published is kept.
PublishKeepsDDR ==
    /\ run.at = "publish"
    /\ pub' = run.snap
    /\ IF run.snap.healthy
       THEN /\ run' = [run EXCEPT !.at = "save", !.todo = Present(run.snap.zones)]
            /\ UNCHANGED confirmed
       ELSE run' = Polling(run) /\ confirmed' = TRUE
    /\ UNCHANGED <<cfVars, vhostVars, ddrVars, disk, faults, restarts>>

\* Under b.mu: the DDR advert, b.last and the published snapshot.  A warm start goes
\* on to the first cycle, a refresh to Save.
Publish ==
    /\ run.at = "publish"
    /\ pub' = [run.snap EXCEPT !.ddr = ddr]
    /\ IF run.snap.healthy
       THEN /\ run' = [run EXCEPT !.at = "save", !.todo = Present(run.snap.zones)]
            /\ UNCHANGED confirmed
       ELSE run' = Polling(run) /\ confirmed' = TRUE
    /\ UNCHANGED <<cfVars, vhostVars, ddrVars, disk, faults, restarts>>

SaveZone(z) ==
    /\ run.at = "save" /\ z \in run.todo
    /\ disk' = WriteZone(disk, z, run.snap.zones[z])
    /\ run' = [run EXCEPT !.todo = @ \ {z}]
    /\ UNCHANGED <<cfVars, vhostVars, ddrVars, pub, confirmed, faults, restarts>>

\* refresh returned nil: the observed serials become the fetched ones.
EndRefresh ==
    /\ run' = [Waiting(run) EXCEPT
                 !.states = [z \in Zones |-> IF z \in Observed
                                             THEN [last |-> run.obs[z], fetched |-> TRUE]
                                             ELSE run.states[z]],
                 !.first = FALSE, !.age = 0]
    /\ confirmed' = TRUE

\* Mutant: the index may be written before the zone files.
SaveIndexEarly ==
    /\ run.at = "save"
    /\ disk' = WriteIndex(disk, run.snap.zones)
    /\ IF run.todo = {} THEN EndRefresh ELSE UNCHANGED <<run, confirmed>>
    /\ UNCHANGED <<cfVars, vhostVars, ddrVars, pub, faults, restarts>>

SaveIndex ==
    /\ run.at = "save" /\ run.todo = {}
    /\ disk' = WriteIndex(disk, run.snap.zones)
    /\ EndRefresh
    /\ UNCHANGED <<cfVars, vhostVars, ddrVars, pub, faults, restarts>>

\* A write fails: Save stops there, which refresh only logs.
SaveFails ==
    /\ run.at = "save" /\ Fault
    /\ EndRefresh
    /\ UNCHANGED <<cfVars, vhostVars, ddrVars, pub, disk, restarts>>

\* The poller's ticker.
NextCycle ==
    /\ run.at = "wait"
    /\ run' = [Polling(run) EXCEPT !.age = IF @ < ForcedCycles THEN @ + 1 ELSE @]
    /\ UNCHANGED <<cfVars, vhostVars, ddrVars, pub, confirmed, disk, faults, restarts>>

----------------------------------------------------------------------------
(* republish, and what the worker does not control.                        *)

\* republish: nothing before the first publish (b.last is nil).
Republished == IF pub = Cold THEN Cold ELSE [pub EXCEPT !.vhosts = feed, !.ddr = ddr]

\* Feed.poll fetched a new list and stored it; onChange follows the unlock.
FeedPoll ==
    /\ edge # feed /\ ~applying
    /\ feed' = edge /\ applying' = TRUE
    /\ UNCHANGED <<cfVars, edge, ddrVars, pub, confirmed, disk, run, faults, restarts>>

ApplyVHosts ==
    /\ applying /\ applying' = FALSE
    /\ pub' = Republished
    /\ UNCHANGED <<cfVars, edge, feed, ddrVars, confirmed, disk, run, faults, restarts>>

\* The encrypted listeners bound, or a certificate was reloaded.
DDRChange ==
    /\ edge + ddr < MaxChanges /\ ddr' = ddr + 1 /\ ddrDue' = TRUE
    /\ UNCHANGED <<cfVars, vhostVars, pub, confirmed, disk, run, faults, restarts>>

Republish ==
    /\ ddrDue /\ ddrDue' = FALSE
    /\ pub' = Republished
    /\ UNCHANGED <<cfVars, vhostVars, ddr, confirmed, disk, run, faults, restarts>>

Edit(z) ==
    /\ edits < MaxEdits /\ edits' = edits + 1
    /\ cf' = [cf EXCEPT ![z] = @ + 1]
    /\ UNCHANGED <<vhostVars, ddrVars, pub, confirmed, disk, run, faults, restarts>>

EdgeChange ==
    /\ edge + ddr < MaxChanges /\ edge' = edge + 1
    /\ UNCHANGED <<cfVars, feed, applying, ddrVars, pub, confirmed, disk, run, faults, restarts>>

\* A zone file is damaged on disk.
CorruptFile(z) ==
    /\ Readable(disk, z) /\ Fault
    /\ disk' = WriteZone(disk, z, Corrupt)
    /\ UNCHANGED <<cfVars, vhostVars, ddrVars, pub, confirmed, run, restarts>>

\* The supervisor cancels the worker, whose calls then fail, and runs it again.  The
\* process and its snapshot live on.
RestartWorker ==
    /\ run.at \in {"poll", "build", "wait"}
    /\ restarts < MaxRestarts /\ restarts' = restarts + 1
    /\ run' = Booting
    /\ UNCHANGED <<cfVars, vhostVars, ddrVars, pub, confirmed, disk, faults>>

\* The process dies and systemd starts it again.
Crash ==
    /\ restarts < MaxRestarts /\ restarts' = restarts + 1
    /\ run' = Booting /\ pub' = Cold /\ confirmed' = FALSE
    /\ feed' = 0 /\ applying' = FALSE /\ ddr' = 0 /\ ddrDue' = FALSE
    /\ UNCHANGED <<cfVars, edge, disk, faults>>

----------------------------------------------------------------------------
Step ==
    \/ LoadWarm
    \/ \E z \in Zones : PollSerial(z) \/ FetchZone(z) \/ SaveZone(z)
    \/ Quiet \/ StartRefresh
    \/ ReadVHosts \/ Publish \/ SaveIndex \/ NextCycle

Environment ==
    \/ LoadFails \/ BuildFails \/ SaveFails
    \/ \E z \in Zones : \E v \in 0 .. MaxEdits : SerialLags(z, v)
    \/ \E z \in Zones : SerialFails(z) \/ FlattenFails(z) \/ Edit(z) \/ CorruptFile(z)
    \/ EdgeChange \/ DDRChange \/ RestartWorker \/ Crash

Next == Step \/ FeedPoll \/ ApplyVHosts \/ Republish \/ Environment

Spec == Init /\ [][Next]_vars

\* The worker, the vhost feed and the caller of Republish keep running; calls and
\* writes do not fail forever (MaxFaults).
FairSpec == Spec /\ WF_vars(Step) /\ WF_vars(FeedPoll) /\ WF_vars(ApplyVHosts)
                 /\ WF_vars(Republish)

----------------------------------------------------------------------------
(* Properties.                                                             *)

\* The index never claims a serial newer than the records of the zone file it
\* stands for, wherever Save stopped: a warm start cannot skip a fetch it needs.
DiskCovers ==
    \A z \in Zones :
       disk.index[z] # NotIndexed /\ disk.index[z].serial # 0 /\ Readable(disk, z)
          => VersionOf(disk.index[z].serial) <= disk.file[z].ver

\* The poller's state of a zone never claims a serial newer than the records that
\* are being served.
StatesCover ==
    \A z \in Account :
       run.at # "boot" /\ run.states[z].fetched /\ run.states[z].last # 0
          /\ ~(run.at \in {"vhosts", "publish"} /\ ~run.snap.healthy)
          => pub.zones[z] # NoZone /\ VersionOf(run.states[z].last) <= pub.zones[z].ver

\* A cycle that rebuilds nothing has seen no zone whose serial is newer than the
\* records served, across the wrap of the serial, faults, crashes and restarts, as
\* long as the zone was published with an observed serial.
KnownSerialNotMissed ==
    [][Quiet => \A z \in Observed \cap Account :
                   pub.zones[z] # NoZone
                   /\ (pub.zones[z].serial # 0 => VersionOf(run.obs[z]) <= pub.zones[z].ver)]_vars

\* No publisher replaces a DDR advert by an older one: refresh and republish read
\* it under the mutex.
DDRNeverOlder == [][pub'.ddr >= pub.ddr \/ pub' = Cold]_vars

\* What Cloudflare, the reverse proxy and the DDR provider have is eventually
\* served, and no zone stays marked stale or without the addresses of its tunnels: those a
\* refresh could not resolve are resolved by a later forced one, as the serial does not move.
Current ==
    /\ \A z \in Account : pub.zones[z] # NoZone /\ pub.zones[z].ver = cf[z]
                          /\ ~pub.zones[z].stale /\ pub.zones[z].flat
    /\ pub.vhosts = edge /\ pub.ddr = ddr
Converges == <>[]Current
=============================================================================
