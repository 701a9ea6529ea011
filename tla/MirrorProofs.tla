---------------------------- MODULE MirrorProofs ----------------------------
(***************************************************************************)
(* Proofs about the mirror worker: for every set of zones, every serial    *)
(* width and every number of edits, faults and restarts, the index on disk *)
(* and the poller's states never claim more than the records they stand    *)
(* for, no cycle rests on an older serial, and no publisher brings an      *)
(* older DDR advert back.                                                  *)
(***************************************************************************)
EXTENDS Mirror, TLAPS

\* The shapes of what the worker holds.
Serials == 0 .. (Modulus - 1)
Records == [ver : Nat, serial : Serials, stale : BOOLEAN, flat : BOOLEAN]
Snapshots == [zones : [Zones -> Records \cup {NoZone}], vhosts : Nat, ddr : Nat,
              healthy : BOOLEAN]
Places == {"boot", "vhosts", "poll", "build", "publish", "save", "wait"}

Runs == [at : Places, todo : SUBSET Zones, obs : [Zones -> Serials], snap : Snapshots,
         states : [Zones -> [last : Serials, fetched : BOOLEAN]], first : BOOLEAN, age : Nat]
Disks == [file : [Zones -> Records \cup {NoZone, Corrupt}],
          index : [Zones -> [serial : Serials, hasRecords : BOOLEAN] \cup {NotIndexed}]]

TypeOK ==
    /\ edits \in 0 .. MaxEdits
    /\ cf \in [Zones -> 0 .. edits]
    /\ edge \in Nat /\ feed \in Nat /\ ddr \in Nat
    /\ pub \in Snapshots
    /\ disk \in Disks
    /\ run \in Runs

\* Serial s stands for a version up to n, or for none.
Upto(s, n) == s # 0 => VersionOf(s) <= n

\* Every serial the worker holds was once served by Cloudflare.
SerialsServed ==
    \A z \in Zones :
       /\ Upto(run.obs[z], cf[z])
       /\ Upto(run.states[z].last, cf[z])
       /\ disk.index[z] # NotIndexed => Upto(disk.index[z].serial, cf[z])

\* A snapshot on its way from a refresh to the disk, and one from the warm cache.
Fresh == run.at \in {"build", "save"} \/ (run.at = "publish" /\ run.snap.healthy)
Warm == run.at = "vhosts" \/ (run.at = "publish" /\ ~run.snap.healthy)

\* The records of a refresh are at least as new as every serial that was known when
\* it began; once it is stamped, it carries the serial the cycle observed.
RefreshCovers ==
    Fresh =>
       /\ run.snap.healthy
       /\ \A z \in Zones : run.snap.zones[z] # NoZone =>
             /\ Upto(run.obs[z], run.snap.zones[z].ver)
             /\ Upto(run.states[z].last, run.snap.zones[z].ver)
             /\ disk.index[z] # NotIndexed
                   => Upto(disk.index[z].serial, run.snap.zones[z].ver)
             /\ run.snap.zones[z].serial = IF run.at = "build" THEN 0 ELSE run.obs[z]
       /\ \A z \in Account :
             (run.at = "build" /\ z \in run.todo) \/ run.snap.zones[z] # NoZone

\* While a snapshot is saved it is the one that is served, and the files already
\* written hold its zones unless they were damaged since.
SaveProgress ==
    run.at = "save" =>
       /\ pub.zones = run.snap.zones
       /\ run.todo \subseteq Present(run.snap.zones)
       /\ \A z \in Present(run.snap.zones) \ run.todo :
             disk.file[z] \in {run.snap.zones[z], Corrupt}

\* A warm snapshot covers the states that were loaded with it.
WarmCovers ==
    /\ run.at = "boot" => run = Booting
    /\ Warm =>
          /\ run.first
          /\ run.obs = NoObs
          /\ run.at = "vhosts" => ~run.snap.healthy
          /\ \A z \in Zones : run.states[z].fetched /\ run.states[z].last # 0 =>
                run.snap.zones[z] # NoZone
                /\ VersionOf(run.states[z].last) <= run.snap.zones[z].ver

\* After the first refresh every zone of the account is served, and one whose state
\* has no serial was fetched by a cycle that observed none.
RefreshedOnce ==
    ~run.first => \A z \in Account :
       /\ pub.zones[z] # NoZone
       /\ run.at # "save" /\ run.states[z].last = 0 => pub.zones[z].serial = 0

Inv == /\ TypeOK /\ SerialsServed /\ RefreshCovers /\ SaveProgress /\ WarmCovers
       /\ RefreshedOnce /\ DiskCovers /\ StatesCover /\ pub.ddr <= ddr

----------------------------------------------------------------------------
(* Serial arithmetic.                                                      *)

\* VersionOf undoes SerialOf: the wrap skips serial 0.
LEMMA VersionCases ==
    ASSUME NEW s \in 1 .. (Modulus - 1)
    PROVE  VersionOf(s) = IF s >= FirstSerial THEN s - FirstSerial
                          ELSE s - FirstSerial + Modulus - 1
  <1> DEFINE d == s - FirstSerial
             m == Modulus - 1
  <1>1. m \in Nat \ {0} /\ d \in Int /\ -m <= d /\ d < m
    BY WarmAssumption, MirrorAssumption
  <1>2. d % m = IF 0 <= d THEN d ELSE d + m
    <2> HIDE DEF d, m
    <2> QED BY <1>1, SMTT(60)
  <1> QED
    BY <1>1, <1>2, WarmAssumption, MirrorAssumption DEF VersionOf

\* What a zone of version v answers is a serial of version v.
LEMMA SerialVersion ==
    ASSUME NEW v \in 0 .. MaxEdits
    PROVE  /\ SerialOf(v) \in 1 .. (Modulus - 1)
           /\ VersionOf(SerialOf(v)) = v
  <1>0. MaxEdits < Modulus - 1
    BY WarmAssumption, MirrorAssumption
  <1>1. SerialOf(v) = IF FirstSerial + v < Modulus THEN FirstSerial + v
                      ELSE FirstSerial + v - (Modulus - 1)
    <2> DEFINE d == FirstSerial - 1 + v
               m == Modulus - 1
    <2>1. m \in Nat \ {0} /\ d \in Int /\ 0 <= d /\ d < 2 * m
      BY <1>0, WarmAssumption, MirrorAssumption
    <2>2. d % m = IF d < m THEN d ELSE d - m
      <3> HIDE DEF d, m
      <3> QED BY <2>1, SMTT(60)
    <2> QED
      BY <2>1, <2>2, WarmAssumption, MirrorAssumption DEF SerialOf
  <1>2. SerialOf(v) \in 1 .. (Modulus - 1)
    BY <1>0, <1>1, WarmAssumption, MirrorAssumption
  <1> QED
    BY <1>0, <1>1, <1>2, VersionCases, WarmAssumption, MirrorAssumption

\* SerialLt does not miss a newer version, across the wrap: ShouldFetch of
\* internal/mirror/serial.go.
LEMMA NewerIsLater ==
    ASSUME NEW a \in 1 .. (Modulus - 1), NEW b \in 1 .. (Modulus - 1),
           VersionOf(a) <= MaxEdits, VersionOf(b) <= MaxEdits, ~SerialLt(a, b)
    PROVE  VersionOf(b) <= VersionOf(a)
  <1>1. SUFFICES ASSUME VersionOf(a) < VersionOf(b) PROVE SerialLt(a, b)
    BY VersionCases, WarmAssumption, MirrorAssumption
  <1>2. (b - a) % Modulus = IF a <= b THEN b - a ELSE b - a + Modulus
    <2> DEFINE d == b - a
    <2>1. d \in Int /\ -Modulus <= d /\ d < Modulus /\ Modulus \in Nat \ {0}
      BY WarmAssumption
    <2>2. d % Modulus = IF 0 <= d THEN d ELSE d + Modulus
      <3> HIDE DEF d
      <3> QED BY <2>1, SMTT(60)
    <2> QED
      BY <2>1, <2>2
  <1> QED
    BY <1>1, <1>2, VersionCases, WarmAssumption, MirrorAssumption DEF SerialLt
----------------------------------------------------------------------------
(* The type invariant.                                                     *)

\* The values the worker starts from have the shapes.
LEMMA Shapes ==
    /\ Cold \in Snapshots /\ NoObs \in [Zones -> Serials]
    /\ Booting \in Runs /\ EmptyDisk \in Disks
  <1>1. Cold \in Snapshots /\ NoObs \in [Zones -> Serials]
    BY WarmAssumption DEF Cold, Snapshots, NoZones, NoObs, Serials
  <1>2. Booting \in Runs
    BY <1>1, WarmAssumption DEF Booting, Runs, Places, ZeroState, Serials
  <1> QED
    BY <1>1, <1>2 DEF EmptyDisk, Disks, NoZones

\* Every action keeps the shapes.
LEMMA TypeStep == TypeOK /\ [Next]_vars => TypeOK'
  <1> SUFFICES ASSUME TypeOK, [Next]_vars PROVE TypeOK'
    OBVIOUS
  <1> USE WarmAssumption, MirrorAssumption DEF TypeOK, cfVars, vhostVars, ddrVars
  <1>1. CASE LoadWarm
    <2> DEFINE zones == LoadZones(disk)
               warm == [Cold EXCEPT !.zones = zones]
    <2>1. LoadStates(disk) \in [Zones -> [last : Serials, fetched : BOOLEAN]]
      BY DEF LoadStates, Disks, Serials, ZeroState, Readable
    <2>2. zones \in [Zones -> Records \cup {NoZone}]
      <3> SUFFICES ASSUME NEW z \in Zones PROVE zones[z] \in Records \cup {NoZone}
        BY DEF LoadZones
      <3>1. CASE disk.index[z] # NotIndexed /\ Readable(disk, z)
        <4>1. disk.file[z] \in Records
          BY <3>1 DEF Disks, Readable
        <4> QED
          BY <3>1, <4>1 DEF LoadZones, Records
      <3> QED
        BY <3>1 DEF LoadZones
    <2>3. warm \in Snapshots
      BY <2>2, Shapes DEF Snapshots
    <2>4. run' \in Runs
      <3> HIDE DEF warm, zones
      <3>1. CASE Present(zones) = {}
        <4> DEFINE seeded == [run EXCEPT !.states = LoadStates(disk)]
        <4>1. seeded \in Runs
          BY <2>1 DEF Runs
        <4>2. run' = Polling(seeded)
          BY <1>1, <3>1 DEF LoadWarm, zones
        <4> HIDE DEF seeded
        <4> QED
          BY <4>1, <4>2, Shapes DEF Polling, Runs, Places
      <3>2. CASE Present(zones) # {}
        BY <3>2, <1>1, <2>1, <2>3 DEF LoadWarm, Runs, Places, zones, warm
      <3> QED
        BY <3>1, <3>2
    <2> QED
      BY <1>1, <2>4 DEF LoadWarm
  <1>2. CASE LoadFails
    BY Shapes, <1>2 DEF LoadFails, Runs, Polling, Places
  <1>3. ASSUME NEW z \in Zones, PollSerial(z) PROVE TypeOK'
    <2>1. SerialOf(cf[z]) \in Serials
      BY SerialVersion DEF Serials
    <2> QED
      BY <1>3, <2>1 DEF PollSerial, Runs
  <1>4. ASSUME NEW z \in Zones, NEW v \in 0 .. MaxEdits, SerialLags(z, v) PROVE TypeOK'
    <2>1. SerialOf(v) \in Serials
      BY SerialVersion DEF Serials
    <2> QED
      BY <1>4, <2>1 DEF SerialLags, Runs
  <1>5. ASSUME NEW z \in Zones, SerialFails(z) PROVE TypeOK'
    BY <1>5 DEF SerialFails, Runs
  <1>6. CASE Quiet
    BY Shapes, <1>6 DEF Quiet, Runs, Waiting, Places
  <1>7. CASE StartRefresh
    BY Shapes, <1>7 DEF StartRefresh, Runs, Places, Snapshots
  <1>8. ASSUME NEW z \in Zones, NEW flat \in BOOLEAN, Fetched(z, flat) PROVE TypeOK'
    <2> DEFINE new == [ver |-> cf[z], serial |-> 0, stale |-> FALSE, flat |-> flat]
               zones == [run.snap.zones EXCEPT ![z] = new]
               snap == [run.snap EXCEPT !.zones = zones]
    <2>1. new \in Records
      BY DEF Records, Serials
    <2>2. snap \in Snapshots
      <3> HIDE DEF new
      <3> QED BY <2>1 DEF Snapshots, Runs
    <2>3. run' = [run EXCEPT !.todo = @ \ {z}, !.snap = snap]
      BY <1>8 DEF Fetched, Runs, Snapshots
    <2>4. run' \in Runs
      <3> HIDE DEF snap
      <3> QED BY <2>2, <2>3 DEF Runs
    <2> QED
      BY <1>8, <2>4 DEF Fetched
  <1>9. CASE BuildFails
    BY Shapes, <1>9 DEF BuildFails, Runs, Waiting, Places
  <1>10. CASE ReadVHosts
    <2> DEFINE snap == [run.snap EXCEPT !.vhosts = feed, !.zones = Stamped(run.snap.zones)]
    <2>1. Stamped(run.snap.zones) \in [Zones -> Records \cup {NoZone}]
      <3> SUFFICES ASSUME NEW z \in Zones
                   PROVE  Stamped(run.snap.zones)[z] \in Records \cup {NoZone}
        BY DEF Stamped
      <3>1. run.snap.zones[z] \in Records \cup {NoZone} /\ run.obs[z] \in Serials
        BY DEF Runs, Snapshots
      <3> QED
        BY <3>1 DEF Stamped, Records
    <2>2. snap \in Snapshots
      BY <2>1 DEF Snapshots, Runs
    <2>3. run' = [run EXCEPT !.at = "publish", !.snap = snap]
      BY <1>10 DEF ReadVHosts, Runs, Snapshots
    <2>4. run' \in Runs
      <3> HIDE DEF snap
      <3> QED BY <2>2, <2>3 DEF Runs, Places
    <2> QED
      BY <1>10, <2>4 DEF ReadVHosts
  <1>11. CASE Publish
    <2>1. [run.snap EXCEPT !.ddr = ddr] \in Snapshots
      BY DEF Snapshots, Runs
    <2>2. run' \in Runs
      <3>1. Present(run.snap.zones) \subseteq Zones
        BY DEF Present
      <3>2. CASE run.snap.healthy
        BY <1>11, <3>1, <3>2 DEF Publish, Runs, Places
      <3>3. CASE ~run.snap.healthy
        <4>1. Polling(run) \in Runs
          BY Shapes DEF Polling, Runs, Places
        <4> QED
          BY <1>11, <3>3, <4>1 DEF Publish
      <3> QED
        BY <3>2, <3>3
    <2> QED
      BY <1>11, <2>1, <2>2 DEF Publish
  <1>12. ASSUME NEW z \in Zones, SaveZone(z) PROVE TypeOK'
    <2>1. run.snap.zones[z] \in Records \cup {NoZone}
      BY DEF Runs, Snapshots
    <2>2. disk' \in Disks
      BY <1>12, <2>1 DEF SaveZone, WriteZone, Disks
    <2>3. run' \in Runs
      BY <1>12 DEF SaveZone, Runs
    <2> QED
      BY <1>12, <2>2, <2>3 DEF SaveZone
  <1>13. CASE SaveIndex
    <2>1. run' \in Runs
      BY <1>13, Shapes DEF SaveIndex, EndRefresh, Runs, Waiting, Places, Observed
    <2>2. WriteIndex(disk, run.snap.zones) \in Disks
      <3>1. \A z \in Zones : run.snap.zones[z] = NoZone \/ run.snap.zones[z].serial \in Serials
        BY DEF Runs, Snapshots, Records
      <3> QED
        BY <3>1 DEF Disks, WriteIndex, HasRecords
    <2> QED
      BY <1>13, <2>1, <2>2 DEF SaveIndex
  <1>14. CASE SaveFails
    BY Shapes, <1>14 DEF SaveFails, Runs, Waiting, Places, EndRefresh, Observed
  <1>15. CASE NextCycle
    <2>1. Polling(run) \in Runs
      BY Shapes DEF Polling, Runs, Places
    <2>2. run' \in Runs
      <3> DEFINE r == Polling(run)
                 age == IF r.age < ForcedCycles THEN r.age + 1 ELSE r.age
      <3>1. r \in Runs /\ age \in Nat
        BY <2>1 DEF Runs
      <3>2. run' = [r EXCEPT !.age = age]
        BY <1>15 DEF NextCycle
      <3> HIDE DEF r, age
      <3> QED
        BY <3>1, <3>2 DEF Runs
    <2> QED
      BY <1>15, <2>2 DEF NextCycle
  <1>16. CASE FeedPoll
    BY <1>16 DEF FeedPoll
  <1>17. CASE ApplyVHosts
    BY Shapes, <1>17 DEF ApplyVHosts, Republished, Snapshots
  <1>18. CASE DDRChange
    BY <1>18 DEF DDRChange
  <1>19. CASE Republish
    BY Shapes, <1>19 DEF Republish, Republished, Snapshots
  <1>20. ASSUME NEW z \in Zones, Edit(z) PROVE TypeOK'
    BY <1>20 DEF Edit
  <1>21. CASE EdgeChange
    BY <1>21 DEF EdgeChange
  <1>22. ASSUME NEW z \in Zones, CorruptFile(z) PROVE TypeOK'
    BY <1>22 DEF CorruptFile, Disks, WriteZone
  <1>23. CASE RestartWorker
    BY Shapes, <1>23 DEF RestartWorker
  <1>24. CASE Crash
    BY Shapes, <1>24 DEF Crash
  <1>25. CASE UNCHANGED vars
    BY <1>25 DEF vars
  <1> QED
    BY <1>1, <1>2, <1>3, <1>4, <1>5, <1>6, <1>7, <1>8, <1>9, <1>10, <1>11, <1>12, <1>13, <1>14, <1>15, <1>16, <1>17, <1>18, <1>19, <1>20, <1>21, <1>22, <1>23, <1>24, <1>25 DEF Next, Step, Environment, FetchZone, FlattenFails

----------------------------------------------------------------------------
(* The inductive invariant, one lemma per kind of step.                    *)

\* A version is a number.
LEMMA VersionType == \A s \in Serials : s # 0 => VersionOf(s) \in Nat
  BY VersionCases, WarmAssumption, MirrorAssumption DEF Serials

\* A step that leaves the worker, the disk and the zones served alone: the vhost feed,
\* the DDR provider and republish.
LEMMA KeepsWorker ==
    ASSUME Inv, TypeOK', run' = run, disk' = disk, cf' = cf,
           pub'.zones = pub.zones, pub'.ddr <= ddr'
    PROVE  Inv'
  <1>1. SerialsServed' /\ RefreshCovers' /\ WarmCovers'
    BY DEF Inv, SerialsServed, RefreshCovers, WarmCovers, Fresh, Warm
  <1>2. SaveProgress' /\ RefreshedOnce'
    BY DEF Inv, SaveProgress, RefreshedOnce
  <1>3. DiskCovers' /\ StatesCover'
    BY DEF Inv, DiskCovers, StatesCover, Readable
  <1> QED
    BY <1>1, <1>2, <1>3 DEF Inv

\* A cycle or a start that ends, or the next cycle: only the locals are reset.
LEMMA KeepsStates ==
    ASSUME Inv, TypeOK', run.at \in {"poll", "build", "wait", "boot"},
           run'.at \in {"wait", "poll"}, run'.obs = NoObs, run'.states = run.states,
           run'.first = run.first, disk' = disk, cf' = cf, pub' = pub, ddr' = ddr
    PROVE  Inv'
  <1>1. SerialsServed'
    BY DEF Inv, SerialsServed, Upto, NoObs
  <1>2. RefreshCovers' /\ SaveProgress' /\ WarmCovers'
    BY DEF RefreshCovers, SaveProgress, WarmCovers, Fresh, Warm
  <1>3. RefreshedOnce'
    BY DEF Inv, RefreshedOnce
  <1>4. DiskCovers'
    BY DEF Inv, DiskCovers, Readable
  <1>5. StatesCover'
    BY MirrorAssumption DEF Inv, StatesCover, WarmCovers, Booting, ZeroState
  <1> QED
    BY <1>1, <1>2, <1>3, <1>4, <1>5 DEF Inv

\* The worker or the process starts again.
LEMMA Restarted ==
    ASSUME Inv, TypeOK', run' = Booting, disk' = disk, cf' = cf,
           pub' = pub \/ pub' = Cold, pub'.ddr <= ddr'
    PROVE  Inv'
  <1>1. SerialsServed'
    BY DEF Inv, SerialsServed, Upto, NoObs, Booting, ZeroState
  <1>2. RefreshCovers' /\ SaveProgress' /\ WarmCovers'
    BY DEF RefreshCovers, SaveProgress, WarmCovers, Fresh, Warm, Booting
  <1>3. RefreshedOnce' /\ StatesCover'
    BY DEF RefreshedOnce, StatesCover, Booting
  <1>4. DiskCovers'
    BY DEF Inv, DiskCovers, Readable
  <1> QED
    BY <1>1, <1>2, <1>3, <1>4 DEF Inv

\* One serial is answered, or its query failed.
LEMMA Polled ==
    ASSUME Inv, TypeOK', run.at = "poll", run'.at = "poll",
           run'.states = run.states, run'.first = run.first,
           \A z \in Zones : Upto(run'.obs[z], cf[z]),
           disk' = disk, cf' = cf, pub' = pub, ddr' = ddr
    PROVE  Inv'
  <1>1. SerialsServed'
    BY DEF Inv, SerialsServed
  <1>2. RefreshCovers' /\ SaveProgress' /\ WarmCovers'
    BY DEF RefreshCovers, SaveProgress, WarmCovers, Fresh, Warm
  <1>3. RefreshedOnce' /\ StatesCover'
    BY DEF Inv, RefreshedOnce, StatesCover
  <1>4. DiskCovers'
    BY DEF Inv, DiskCovers, Readable
  <1> QED
    BY <1>1, <1>2, <1>3, <1>4 DEF Inv

\* cache.Load: the states come from the index, which the files cover.
LEMMA LoadWarmKeeps == ASSUME Inv, TypeOK', LoadWarm PROVE Inv'
  <1> DEFINE zones == LoadZones(disk)
  <1>1. /\ disk' = disk /\ cf' = cf /\ pub' = pub /\ ddr' = ddr
        /\ run'.states = LoadStates(disk) /\ run'.first = TRUE /\ run'.obs = NoObs
        /\ \/ run'.at = "poll" /\ Present(zones) = {}
           \/ run'.at = "vhosts" /\ run'.snap.zones = zones /\ run'.snap.healthy = FALSE
    <2>0. disk' = disk /\ cf' = cf /\ pub' = pub /\ ddr' = ddr
      BY DEF LoadWarm, cfVars, ddrVars
    <2>1. run \in Runs
      BY DEF Inv, TypeOK
    <2>2. run.first = TRUE /\ run.obs = NoObs
      BY DEF Inv, WarmCovers, LoadWarm, Booting
    <2>3. CASE Present(zones) = {}
      <3>1. run' = [[run EXCEPT !.states = LoadStates(disk)] EXCEPT
                      !.at = "poll", !.todo = Zones, !.obs = NoObs, !.snap = Cold]
        BY <2>3 DEF LoadWarm, Polling
      <3>2. /\ run'.at = "poll" /\ run'.obs = NoObs /\ run'.first = run.first
            /\ run'.states = LoadStates(disk)
        BY <2>1, <3>1 DEF Runs
      <3> QED
        BY <2>0, <2>2, <2>3, <3>2
    <2>4. CASE Present(zones) # {}
      <3> DEFINE warm == [Cold EXCEPT !.zones = zones]
      <3>1. run' = [[run EXCEPT !.states = LoadStates(disk)] EXCEPT
                      !.at = "vhosts", !.snap = warm]
        BY <2>4 DEF LoadWarm
      <3>2. warm.zones = zones /\ warm.healthy = FALSE
        BY DEF Cold
      <3> HIDE DEF warm, zones
      <3> QED
        BY <2>0, <2>1, <2>2, <3>1, <3>2 DEF Runs
    <2> QED
      BY <2>3, <2>4
  <1>2. \A z \in Zones :
           /\ Upto(LoadStates(disk)[z].last, cf[z])
           /\ LoadStates(disk)[z].fetched /\ LoadStates(disk)[z].last # 0 =>
                 zones[z] # NoZone /\ VersionOf(LoadStates(disk)[z].last) <= zones[z].ver
    <2> SUFFICES ASSUME NEW z \in Zones
                 PROVE  LET st == LoadStates(disk)[z]
                        IN  /\ Upto(st.last, cf[z])
                            /\ st.fetched /\ st.last # 0 =>
                                  zones[z] # NoZone /\ VersionOf(st.last) <= zones[z].ver
      OBVIOUS
    <2>1. CASE disk.index[z] = NotIndexed
      BY <2>1 DEF LoadStates, ZeroState, Upto
    <2>2. CASE disk.index[z] # NotIndexed
      <3>1. Upto(disk.index[z].serial, cf[z])
        BY <2>2 DEF Inv, SerialsServed
      <3>2. CASE Readable(disk, z)
        <4>1. disk.file[z] \in Records
          BY <3>2 DEF Inv, TypeOK, Disks, Readable
        <4>2. zones[z] # NoZone /\ zones[z].ver = disk.file[z].ver
          BY <2>2, <3>2, <4>1 DEF LoadZones, Records, NoZone
        <4> QED
          BY <2>2, <3>1, <3>2, <4>2 DEF Inv, DiskCovers, LoadStates
      <3> QED
        BY <2>2, <3>1, <3>2 DEF LoadStates
    <2> QED
      BY <2>1, <2>2
  <1>3. SerialsServed'
    BY <1>1, <1>2 DEF Inv, SerialsServed, Upto, NoObs
  <1>4. RefreshCovers' /\ SaveProgress'
    BY <1>1 DEF RefreshCovers, SaveProgress, Fresh
  <1>5. WarmCovers'
    BY <1>1, <1>2 DEF WarmCovers, Warm
  <1>6. RefreshedOnce' /\ DiskCovers'
    BY <1>1 DEF Inv, RefreshedOnce, DiskCovers, Readable
  <1>7. StatesCover'
    BY <1>1, <1>2, MirrorAssumption DEF StatesCover, Present
  <1> QED
    BY <1>1, <1>3, <1>4, <1>5, <1>6, <1>7 DEF Inv

\* cycle decides for a refresh: nothing is fetched yet.
LEMMA StartRefreshKeeps == ASSUME Inv, TypeOK', StartRefresh PROVE Inv'
  <1>1. /\ disk' = disk /\ cf' = cf /\ pub' = pub /\ ddr' = ddr /\ run.at = "poll"
        /\ run'.states = run.states /\ run'.first = run.first /\ run'.obs = run.obs
        /\ run'.at = "build" /\ run'.todo = Account
        /\ run'.snap.zones = NoZones /\ run'.snap.healthy = TRUE
    BY DEF Inv, TypeOK, Runs, StartRefresh, Cold, cfVars, ddrVars
  <1>2. SerialsServed' /\ DiskCovers'
    BY <1>1 DEF Inv, SerialsServed, DiskCovers, Readable
  <1>3. RefreshCovers'
    BY <1>1, MirrorAssumption DEF RefreshCovers, NoZones
  <1>4. SaveProgress' /\ WarmCovers'
    BY <1>1 DEF SaveProgress, WarmCovers, Warm
  <1>5. RefreshedOnce' /\ StatesCover'
    BY <1>1 DEF Inv, RefreshedOnce, StatesCover
  <1> QED
    BY <1>1, <1>2, <1>3, <1>4, <1>5 DEF Inv

\* A zone is fetched: its records are those of the moment, so no serial known so far
\* is newer.
LEMMA FetchZoneKeeps ==
    ASSUME NEW z \in Zones, NEW flat \in BOOLEAN, Inv, TypeOK', Fetched(z, flat) PROVE Inv'
  <1>1. /\ disk' = disk /\ cf' = cf /\ pub' = pub /\ ddr' = ddr /\ run.at = "build"
        /\ run'.states = run.states /\ run'.first = run.first /\ run'.obs = run.obs
        /\ run'.at = "build" /\ run'.todo = run.todo \ {z}
        /\ run'.snap.zones = [run.snap.zones EXCEPT
                                ![z] = [ver |-> cf[z], serial |-> 0, stale |-> FALSE, flat |-> flat]]
        /\ run'.snap.healthy = run.snap.healthy
    BY DEF Inv, TypeOK, Runs, Snapshots, Fetched, cfVars, ddrVars
  <1>2. SerialsServed' /\ DiskCovers'
    BY <1>1 DEF Inv, SerialsServed, DiskCovers, Readable
  <1>3. RefreshCovers'
    <2>1. run.snap.zones \in [Zones -> Records \cup {NoZone}]
      BY DEF Inv, TypeOK, Runs, Snapshots
    <2> QED
      BY <1>1, <2>1, MirrorAssumption DEF Inv, RefreshCovers, SerialsServed, Fresh, NoZone
  <1>4. SaveProgress' /\ WarmCovers'
    BY <1>1 DEF SaveProgress, WarmCovers, Warm
  <1>5. RefreshedOnce' /\ StatesCover'
    BY <1>1 DEF Inv, RefreshedOnce, StatesCover
  <1> QED
    BY <1>1, <1>2, <1>3, <1>4, <1>5 DEF Inv

\* The serial is stamped into a refresh; a warm snapshot keeps its own.
LEMMA ReadVHostsKeeps == ASSUME Inv, TypeOK', ReadVHosts PROVE Inv'
  <1>1. /\ disk' = disk /\ cf' = cf /\ pub' = pub /\ ddr' = ddr
        /\ (run.at = "build" /\ run.todo = {}) \/ run.at = "vhosts"
        /\ run'.states = run.states /\ run'.first = run.first /\ run'.obs = run.obs
        /\ run'.at = "publish" /\ run'.snap.healthy = run.snap.healthy
        /\ run'.snap.zones = Stamped(run.snap.zones)
    BY DEF Inv, TypeOK, Runs, Snapshots, ReadVHosts, cfVars, ddrVars
  <1>2. \A z \in Zones :
           /\ Stamped(run.snap.zones)[z] # NoZone <=> run.snap.zones[z] # NoZone
           /\ run.snap.zones[z] # NoZone =>
                 /\ Stamped(run.snap.zones)[z].ver = run.snap.zones[z].ver
                 /\ Stamped(run.snap.zones)[z].serial =
                       IF run.obs[z] # 0 THEN run.obs[z] ELSE run.snap.zones[z].serial
    <2> SUFFICES ASSUME NEW z \in Zones, run.snap.zones[z] \in Records
                 PROVE  /\ Stamped(run.snap.zones)[z] # NoZone
                        /\ Stamped(run.snap.zones)[z].ver = run.snap.zones[z].ver
                        /\ Stamped(run.snap.zones)[z].serial =
                             IF run.obs[z] # 0 THEN run.obs[z] ELSE run.snap.zones[z].serial
      BY DEF Inv, TypeOK, Runs, Snapshots, Stamped
    <2> QED
      BY DEF Stamped, Records, NoZone
  <1>3. SerialsServed' /\ DiskCovers'
    BY <1>1 DEF Inv, SerialsServed, DiskCovers, Readable
  <1>4. RefreshCovers'
    BY <1>1, <1>2, MirrorAssumption DEF Inv, RefreshCovers, WarmCovers, Fresh, Warm
  <1>5. SaveProgress' /\ WarmCovers'
    BY <1>1, <1>2 DEF Inv, SaveProgress, RefreshCovers, WarmCovers, Fresh, Warm
  <1>6. RefreshedOnce' /\ StatesCover'
    BY <1>1 DEF Inv, RefreshedOnce, StatesCover, RefreshCovers, WarmCovers, Fresh, Warm
  <1> QED
    BY <1>1, <1>3, <1>4, <1>5, <1>6 DEF Inv

\* refresh or the warm start publishes: what is served covers the states.
LEMMA PublishKeeps == ASSUME Inv, TypeOK', Publish PROVE Inv'
  <1>1. /\ disk' = disk /\ cf' = cf /\ ddr' = ddr /\ run.at = "publish"
        /\ pub'.zones = run.snap.zones /\ pub'.ddr = ddr
    BY DEF Inv, TypeOK, Runs, Snapshots, Publish, cfVars, ddrVars
  <1>2. DiskCovers' /\ pub'.ddr <= ddr'
    BY <1>1 DEF Inv, TypeOK, DiskCovers, Readable
  <1>3. CASE run.snap.healthy
    <2>1. /\ run'.at = "save" /\ run'.todo = Present(run.snap.zones)
          /\ run'.snap = run.snap /\ run'.obs = run.obs
          /\ run'.states = run.states /\ run'.first = run.first
      BY <1>3 DEF Inv, TypeOK, Runs, Publish
    <2>2. SerialsServed' /\ RefreshCovers'
      BY <1>1, <1>3, <2>1 DEF Inv, SerialsServed, RefreshCovers, Fresh
    <2>3. SaveProgress' /\ WarmCovers'
      BY <1>1, <2>1 DEF SaveProgress, WarmCovers, Warm
    <2>4. RefreshedOnce' /\ StatesCover'
      BY <1>1, <1>3, <2>1, MirrorAssumption
         DEF Inv, RefreshCovers, RefreshedOnce, StatesCover, Fresh, Upto
    <2> QED
      BY <1>2, <2>2, <2>3, <2>4 DEF Inv
  <1>4. CASE ~run.snap.healthy
    <2>1. /\ run'.at = "poll" /\ run'.obs = NoObs
          /\ run'.states = run.states /\ run'.first = run.first
      <3>1. run \in Runs /\ run' = Polling(run)
        BY <1>4 DEF Inv, TypeOK, Publish
      <3> QED
        BY <3>1 DEF Runs, Polling
    <2>2. SerialsServed'
      BY <1>1, <2>1 DEF Inv, SerialsServed, Upto, NoObs
    <2>3. RefreshCovers' /\ SaveProgress' /\ WarmCovers'
      BY <2>1 DEF RefreshCovers, SaveProgress, WarmCovers, Fresh, Warm
    <2>4. RefreshedOnce' /\ StatesCover'
      BY <1>1, <1>4, <2>1, MirrorAssumption DEF Inv, WarmCovers, RefreshedOnce, StatesCover, Warm
    <2> QED
      BY <1>2, <2>2, <2>3, <2>4 DEF Inv
  <1> QED
    BY <1>3, <1>4

\* A zone file is replaced by newer records: the old index stays covered.
LEMMA SaveZoneKeeps == ASSUME NEW z \in Zones, Inv, TypeOK', SaveZone(z) PROVE Inv'
  <1>1. /\ cf' = cf /\ pub' = pub /\ ddr' = ddr /\ run.at = "save" /\ z \in run.todo
        /\ run'.states = run.states /\ run'.first = run.first /\ run'.obs = run.obs
        /\ run'.at = "save" /\ run'.todo = run.todo \ {z} /\ run'.snap = run.snap
        /\ disk'.index = disk.index
        /\ disk'.file = [disk.file EXCEPT ![z] = run.snap.zones[z]]
    BY DEF Inv, TypeOK, Runs, Disks, SaveZone, WriteZone, cfVars, ddrVars
  <1>2. disk.file \in [Zones -> Records \cup {NoZone, Corrupt}]
    BY DEF Inv, TypeOK, Disks
  <1>3. SerialsServed' /\ RefreshCovers'
    BY <1>1 DEF Inv, SerialsServed, RefreshCovers, Fresh
  <1>4. SaveProgress' /\ WarmCovers'
    <2>1. WarmCovers'
      BY <1>1 DEF WarmCovers, Warm
    <2>2. /\ pub.zones = run.snap.zones /\ run.todo \subseteq Present(run.snap.zones)
          /\ \A w \in Present(run.snap.zones) \ run.todo :
                disk.file[w] \in {run.snap.zones[w], Corrupt}
      BY <1>1 DEF Inv, SaveProgress
    <2>3. ASSUME NEW w \in Present(run.snap.zones) \ run'.todo
          PROVE  disk'.file[w] \in {run.snap.zones[w], Corrupt}
      <3>1. w \in Zones
        BY DEF Present
      <3>2. CASE w = z
        BY <1>1, <1>2, <3>1, <3>2
      <3>3. CASE w # z
        BY <1>1, <1>2, <2>2, <3>1, <3>3
      <3> QED
        BY <3>2, <3>3
    <2>4. pub'.zones = run'.snap.zones /\ run'.todo \subseteq Present(run'.snap.zones)
      BY <1>1, <2>2
    <2>5. SaveProgress'
      BY <1>1, <2>3, <2>4 DEF SaveProgress
    <2> QED
      BY <2>1, <2>5
  <1>5. RefreshedOnce' /\ StatesCover'
    BY <1>1 DEF Inv, RefreshedOnce, StatesCover
  <1>6. DiskCovers'
    BY <1>1, <1>2 DEF Inv, DiskCovers, SaveProgress, RefreshCovers, Fresh, Present, Readable, Upto
  <1> QED
    BY <1>1, <1>3, <1>4, <1>5, <1>6 DEF Inv

\* refresh returns: the observed serials become the states.
LEMMA EndRefreshKeeps ==
    ASSUME Inv, TypeOK', run.at = "save", EndRefresh, cf' = cf, pub' = pub, ddr' = ddr,
           DiskCovers',
           \A z \in Zones : disk'.index[z] # NotIndexed => Upto(disk'.index[z].serial, cf[z])
    PROVE  Inv'
  <1>1. /\ run'.at = "wait" /\ run'.obs = NoObs /\ run'.first = FALSE
        /\ run'.states = [z \in Zones |-> IF run.obs[z] # 0
                                          THEN [last |-> run.obs[z], fetched |-> TRUE]
                                          ELSE run.states[z]]
    BY DEF Inv, TypeOK, Runs, EndRefresh, Waiting, Observed
  <1>2. SerialsServed'
    BY <1>1 DEF Inv, SerialsServed, Upto, NoObs
  <1>3. RefreshCovers' /\ SaveProgress' /\ WarmCovers'
    BY <1>1 DEF RefreshCovers, SaveProgress, WarmCovers, Fresh, Warm
  <1>4. RefreshedOnce' /\ StatesCover'
    BY <1>1, MirrorAssumption
       DEF Inv, RefreshCovers, SaveProgress, RefreshedOnce, StatesCover, Fresh, Upto
  <1> QED
    BY <1>2, <1>3, <1>4 DEF Inv

\* Save's last write: every file the new index names holds the zone it stands for.
LEMMA SaveIndexKeeps == ASSUME Inv, TypeOK', SaveIndex PROVE Inv'
  <1>1. /\ run.at = "save" /\ run.todo = {} /\ EndRefresh
        /\ cf' = cf /\ pub' = pub /\ ddr' = ddr /\ disk'.file = disk.file
        /\ disk'.index = [z \in Zones |-> IF run.snap.zones[z] = NoZone THEN NotIndexed
                                          ELSE [serial |-> run.snap.zones[z].serial,
                                                hasRecords |-> HasRecords(run.snap.zones[z])]]
    BY DEF Inv, TypeOK, Disks, SaveIndex, WriteIndex, cfVars, ddrVars
  <1>2. \A z \in Zones : disk'.index[z] # NotIndexed =>
           disk'.index[z].serial = run.obs[z] /\ run.snap.zones[z] # NoZone
    BY <1>1 DEF Inv, RefreshCovers, Fresh
  <1>3. DiskCovers'
    BY <1>1, <1>2 DEF Inv, DiskCovers, SaveProgress, RefreshCovers, Fresh, Present, Readable, Upto
  <1>4. \A z \in Zones : disk'.index[z] # NotIndexed => Upto(disk'.index[z].serial, cf[z])
    BY <1>2 DEF Inv, SerialsServed
  <1> QED
    BY <1>1, <1>3, <1>4, EndRefreshKeeps

\* A write fails: the old index stays beside the files written so far.
LEMMA SaveFailsKeeps == ASSUME Inv, TypeOK', SaveFails PROVE Inv'
  <1>1. /\ run.at = "save" /\ EndRefresh
        /\ cf' = cf /\ pub' = pub /\ ddr' = ddr /\ disk' = disk
    BY DEF SaveFails, cfVars, ddrVars
  <1>2. DiskCovers'
    BY <1>1 DEF Inv, DiskCovers, Readable
  <1>3. \A z \in Zones : disk'.index[z] # NotIndexed => Upto(disk'.index[z].serial, cf[z])
    BY <1>1 DEF Inv, SerialsServed
  <1> QED
    BY <1>1, <1>2, <1>3, EndRefreshKeeps

\* A zone is edited at Cloudflare: serials served before stay behind it.
LEMMA EditKeeps == ASSUME NEW z \in Zones, Inv, TypeOK', Edit(z) PROVE Inv'
  <1>1. /\ run' = run /\ disk' = disk /\ pub' = pub /\ ddr' = ddr
        /\ \A y \in Zones : cf[y] \in Nat /\ cf'[y] \in Nat /\ cf[y] <= cf'[y]
    BY MirrorAssumption DEF Inv, TypeOK, Edit, ddrVars
  <1>2. SerialsServed'
    <2>1. \A y \in Zones : /\ run.obs[y] \in Serials /\ run.states[y].last \in Serials
                           /\ disk.index[y] # NotIndexed => disk.index[y].serial \in Serials
      BY DEF Inv, TypeOK, Runs, Disks
    <2> QED
      BY <1>1, <2>1, VersionType DEF Inv, SerialsServed, Upto
  <1>3. RefreshCovers' /\ SaveProgress' /\ WarmCovers'
    BY <1>1 DEF Inv, RefreshCovers, SaveProgress, WarmCovers, Fresh, Warm
  <1>4. RefreshedOnce' /\ DiskCovers' /\ StatesCover'
    BY <1>1 DEF Inv, RefreshedOnce, DiskCovers, StatesCover, Readable
  <1> QED
    BY <1>1, <1>2, <1>3, <1>4 DEF Inv

\* A damaged file is one that Load skips.
LEMMA CorruptFileKeeps == ASSUME NEW z \in Zones, Inv, TypeOK', CorruptFile(z) PROVE Inv'
  <1>1. /\ run' = run /\ cf' = cf /\ pub' = pub /\ ddr' = ddr
        /\ disk'.index = disk.index /\ disk'.file = [disk.file EXCEPT ![z] = Corrupt]
    BY DEF Inv, TypeOK, Disks, CorruptFile, WriteZone, cfVars, ddrVars
  <1>2. disk.file \in [Zones -> Records \cup {NoZone, Corrupt}]
    BY DEF Inv, TypeOK, Disks
  <1>3. SerialsServed' /\ RefreshCovers' /\ WarmCovers'
    BY <1>1 DEF Inv, SerialsServed, RefreshCovers, WarmCovers, Fresh, Warm
  <1>4. SaveProgress'
    BY <1>1, <1>2 DEF Inv, SaveProgress, Present
  <1>5. DiskCovers'
    BY <1>1, <1>2 DEF Inv, DiskCovers, Readable
  <1>6. RefreshedOnce' /\ StatesCover'
    BY <1>1 DEF Inv, RefreshedOnce, StatesCover
  <1> QED
    BY <1>1, <1>3, <1>4, <1>5, <1>6 DEF Inv

----------------------------------------------------------------------------
(* The theorems.                                                           *)

\* Every step of the worker and of what surrounds it keeps the invariant.
LEMMA InvStep == Inv /\ [Next]_vars => Inv'
  <1> SUFFICES ASSUME Inv, [Next]_vars PROVE Inv'
    OBVIOUS
  <1>0. TypeOK'
    BY TypeStep DEF Inv
  <1>1. CASE LoadWarm
    BY <1>0, <1>1, LoadWarmKeeps
  <1>2. CASE LoadFails
    BY <1>0, <1>2, KeepsStates DEF LoadFails, Polling, Inv, TypeOK, Runs, cfVars, ddrVars
  <1>3. ASSUME NEW z \in Zones, PollSerial(z) PROVE Inv'
    <2>1. Upto(SerialOf(cf[z]), cf[z])
      <3>1. cf[z] \in 0 .. MaxEdits
        BY MirrorAssumption DEF Inv, TypeOK
      <3> QED
        BY <3>1, SerialVersion DEF Upto
    <2>2. \A y \in Zones : Upto(run'.obs[y], cf[y])
      BY <1>3, <2>1 DEF PollSerial, Inv, TypeOK, Runs, SerialsServed
    <2> QED
      BY <1>0, <1>3, <2>2, Polled DEF PollSerial, Inv, TypeOK, Runs, cfVars, ddrVars
  <1>4. ASSUME NEW z \in Zones, NEW v \in 0 .. MaxEdits, SerialLags(z, v) PROVE Inv'
    <2>1. Upto(SerialOf(v), cf[z])
      BY <1>4, SerialVersion DEF SerialLags, Inv, TypeOK, Upto
    <2>2. \A y \in Zones : Upto(run'.obs[y], cf[y])
      BY <1>4, <2>1 DEF SerialLags, Inv, TypeOK, Runs, SerialsServed
    <2> QED
      BY <1>0, <1>4, <2>2, Polled DEF SerialLags, Inv, TypeOK, Runs, cfVars, ddrVars
  <1>5. ASSUME NEW z \in Zones, SerialFails(z) PROVE Inv'
    BY <1>0, <1>5, Polled DEF SerialFails, Inv, TypeOK, Runs, SerialsServed, cfVars, ddrVars
  <1>6. CASE Quiet
    BY <1>0, <1>6, KeepsStates DEF Quiet, Waiting, Inv, TypeOK, Runs, cfVars, ddrVars
  <1>7. CASE StartRefresh
    BY <1>0, <1>7, StartRefreshKeeps
  <1>8. ASSUME NEW z \in Zones, FetchZone(z) \/ FlattenFails(z) PROVE Inv'
    BY <1>0, <1>8, FetchZoneKeeps DEF FetchZone, FlattenFails
  <1>9. CASE BuildFails
    BY <1>0, <1>9, KeepsStates DEF BuildFails, Waiting, Inv, TypeOK, Runs, cfVars, ddrVars
  <1>10. CASE ReadVHosts
    BY <1>0, <1>10, ReadVHostsKeeps
  <1>11. CASE Publish
    BY <1>0, <1>11, PublishKeeps
  <1>12. ASSUME NEW z \in Zones, SaveZone(z) PROVE Inv'
    BY <1>0, <1>12, SaveZoneKeeps
  <1>13. CASE SaveIndex
    BY <1>0, <1>13, SaveIndexKeeps
  <1>14. CASE SaveFails
    BY <1>0, <1>14, SaveFailsKeeps
  <1>15. CASE NextCycle
    BY <1>0, <1>15, KeepsStates DEF NextCycle, Polling, Inv, TypeOK, Runs, cfVars, ddrVars
  <1>16. CASE FeedPoll \/ EdgeChange \/ DDRChange
    BY <1>0, <1>16, KeepsWorker DEF FeedPoll, EdgeChange, DDRChange, Inv, TypeOK, Snapshots,
       cfVars, vhostVars, ddrVars
  <1>17. CASE ApplyVHosts \/ Republish
    <2>1. Republished.zones = pub.zones /\ Republished.ddr <= ddr
      BY DEF Republished, Inv, TypeOK, Snapshots, Cold
    <2> QED
      BY <1>0, <1>17, <2>1, KeepsWorker DEF ApplyVHosts, Republish, cfVars, ddrVars
  <1>18. ASSUME NEW z \in Zones, Edit(z) PROVE Inv'
    BY <1>0, <1>18, EditKeeps
  <1>19. ASSUME NEW z \in Zones, CorruptFile(z) PROVE Inv'
    BY <1>0, <1>19, CorruptFileKeeps
  <1>20. CASE RestartWorker
    BY <1>0, <1>20, Restarted DEF RestartWorker, Inv, cfVars, ddrVars
  <1>21. CASE Crash
    BY <1>0, <1>21, Restarted DEF Crash, Cold, cfVars
  <1>22. CASE UNCHANGED vars
    BY <1>0, <1>22, KeepsWorker DEF Inv, vars, cfVars, ddrVars
  <1> QED
    BY <1>1, <1>2, <1>3, <1>4, <1>5, <1>6, <1>7, <1>8, <1>9, <1>10, <1>11, <1>12, <1>13, <1>14,
       <1>15, <1>16, <1>17, <1>18, <1>19, <1>20, <1>21, <1>22 DEF Next, Step, Environment

\* The invariant holds from a first start on.
THEOREM Invariance == Spec => []Inv
  <1>1. Init => Inv
    <2> SUFFICES ASSUME Init PROVE Inv
      OBVIOUS
    <2>1. TypeOK
      BY Shapes, MirrorAssumption DEF Init, TypeOK
    <2>2. SerialsServed /\ DiskCovers
      BY DEF Init, SerialsServed, DiskCovers, Upto, Booting, NoObs, ZeroState, EmptyDisk
    <2>3. RefreshCovers /\ SaveProgress /\ WarmCovers /\ RefreshedOnce /\ StatesCover
      BY DEF Init, RefreshCovers, SaveProgress, WarmCovers, RefreshedOnce, StatesCover, Fresh,
             Warm, Booting
    <2>4. pub.ddr <= ddr
      BY DEF Init, Cold
    <2> QED
      BY <2>1, <2>2, <2>3, <2>4 DEF Inv
  <1> QED
    BY <1>1, InvStep, PTL DEF Spec

\* Save writes every zone file before the index, and a crash, a failed write or a
\* damaged file in between never leaves an index that claims a serial newer than the
\* records of a file it stands for.
THEOREM DiskCoversHolds == Spec => []DiskCovers
  BY Invariance, PTL DEF Inv

\* The serial states the poller compares with, from the warm cache or from a refresh,
\* never claim a serial newer than the records that are being served.
THEOREM StatesCoverHolds == Spec => []StatesCover
  BY Invariance, PTL DEF Inv

\* A cycle that rebuilds nothing has not seen a serial newer than the records served,
\* for every serial width and first serial, across the wrap, faults and restarts.
THEOREM KnownSerialNotMissedHolds == Spec => KnownSerialNotMissed
  <1>1. ASSUME Inv, Quiet, NEW z \in Observed \cap Account
        PROVE  /\ pub.zones[z] # NoZone
               /\ pub.zones[z].serial # 0 => VersionOf(run.obs[z]) <= pub.zones[z].ver
    <2>1. /\ z \in Zones /\ run.at = "poll" /\ ~run.first /\ run.obs[z] # 0
          /\ run.states[z].fetched /\ ~SerialLt(run.states[z].last, run.obs[z])
      BY <1>1 DEF Quiet, Reconcile, Need, ShouldFetch, Observed
    <2>2. pub.zones[z] # NoZone /\ (run.states[z].last = 0 => pub.zones[z].serial = 0)
      BY <1>1, <2>1 DEF Inv, RefreshedOnce
    <2>3. CASE run.states[z].last # 0
      <3>1. /\ run.obs[z] \in 1 .. (Modulus - 1) /\ run.states[z].last \in 1 .. (Modulus - 1)
            /\ cf[z] \in Nat /\ cf[z] <= MaxEdits /\ pub.zones[z].ver \in Nat
        BY <1>1, <2>1, <2>2, <2>3, WarmAssumption, MirrorAssumption
           DEF Inv, TypeOK, Runs, Serials, Snapshots, Records
      <3>2. /\ VersionOf(run.obs[z]) \in Nat /\ VersionOf(run.states[z].last) \in Nat
        BY <3>1, VersionType DEF Serials
      <3>3. /\ VersionOf(run.obs[z]) <= MaxEdits /\ VersionOf(run.states[z].last) <= MaxEdits
        BY <1>1, <2>1, <2>3, <3>1, <3>2, MirrorAssumption DEF Inv, SerialsServed, Upto
      <3>4. VersionOf(run.obs[z]) <= VersionOf(run.states[z].last)
        BY <2>1, <3>1, <3>3, NewerIsLater
      <3>5. VersionOf(run.states[z].last) <= pub.zones[z].ver
        BY <1>1, <2>1, <2>3 DEF Inv, StatesCover
      <3> QED
        BY <2>2, <3>1, <3>2, <3>4, <3>5
    <2> QED
      BY <2>2, <2>3
  <1>2. Inv => (Quiet => \A z \in Observed \cap Account :
                   pub.zones[z] # NoZone
                   /\ (pub.zones[z].serial # 0 => VersionOf(run.obs[z]) <= pub.zones[z].ver))
    BY <1>1
  <1> QED
    BY <1>2, Invariance, PTL DEF KnownSerialNotMissed

\* refresh, the warm start and republish read the DDR advert under the mutex, so no
\* publisher replaces it by an older one.
THEOREM DDRNeverOlderHolds == Spec => DDRNeverOlder
  <1>1. Inv /\ [Next]_vars => (pub'.ddr >= pub.ddr \/ pub' = Cold)
    <2> SUFFICES ASSUME Inv, [Next]_vars, pub' # Cold PROVE pub'.ddr >= pub.ddr
      OBVIOUS
    <2>1. pub' = pub \/ pub'.ddr = ddr
      BY DEF Next, Step, Environment, LoadWarm, LoadFails, PollSerial, SerialLags, SerialFails,
             Quiet, StartRefresh, Fetched, FetchZone, FlattenFails, BuildFails, ReadVHosts,
             Publish, SaveZone, SaveIndex,
             SaveFails, NextCycle, FeedPoll, ApplyVHosts, DDRChange, Republish, Republished, Edit,
             EdgeChange, CorruptFile, RestartWorker, Crash, vars, Inv, TypeOK, Runs, Snapshots
    <2> QED
      BY <2>1 DEF Inv, TypeOK, Snapshots
  <1> QED
    BY <1>1, Invariance, PTL DEF Spec, DDRNeverOlder
=============================================================================
