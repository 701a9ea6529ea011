-------------------------------- MODULE Ddns --------------------------------
(***************************************************************************)
(* internal/ddns/ddns.go: announcements are submitted to a bounded queue   *)
(* that drops its oldest element; one goroutine takes them, reads the      *)
(* host's records from the mirror's snapshot, plans edits, passes the rate *)
(* guards and applies the plan to Cloudflare call by call.                 *)
(*                                                                         *)
(* Addresses are numbers in the order of their text.  A record stands for  *)
(* a non-proxied A or AAAA record; cf is what Cloudflare has, mirror what  *)
(* the snapshot says, zone by zone as of some earlier time.                *)
(***************************************************************************)
EXTENDS Integers, FiniteSets, Sequences, SequencesExt

CONSTANTS
    Hosts,          \* short host labels
    Names,          \* FQDNs, each in a zone of its own
    HostOf,         \* the label of a name
    Eligible,       \* Config.Eligible
    DryRun,         \* Config.DryRun
    V4, V6,         \* addresses
    Announced,      \* the address sets that are announced; empty for an expired host
    Public,         \* those netmatch.IsDDNSEligible accepts
    FirstRecords,   \* what Cloudflare may have at the start: sets of records
    FirstId,        \* a record ID none of them has
    QueueCap,       \* chanCap
    Rate,           \* Config.Rate, zero for none
    GlobalBurst, GlobalRefill,
    MaxSubmits,     \* bound: announcements
    MaxFaults,      \* bound: failed calls and crashes
    MaxTime         \* bound: the last tick of the clock

Addrs == V4 \cup V6
Record == [id : Nat, name : Names, addr : Addrs]

ASSUME DdnsAssumption ==
    /\ HostOf \in [Names -> Hosts]
    /\ Eligible \subseteq Names /\ DryRun \in BOOLEAN
    /\ Addrs \subseteq Nat /\ IsFiniteSet(Addrs) /\ V4 \cap V6 = {} /\ Public \subseteq Addrs
    /\ Announced \subseteq SUBSET Addrs
    /\ QueueCap \in Nat \ {0}
    /\ Rate \in Nat /\ GlobalBurst \in Nat \ {0} /\ GlobalRefill \in Nat \ {0}
    /\ {MaxSubmits, MaxFaults, MaxTime} \subseteq Nat

ASSUME FirstRecordsAssumption ==
    /\ FirstId \in Nat
    /\ \A R \in FirstRecords :
          R \subseteq Record /\ IsFiniteSet(R) /\ \A r, s \in R : r.id < FirstId /\ (r.id = s.id => r = s)

VARIABLES
    queue,      \* w.ch
    sub,        \* the Submit that holds submitMu
    wr,         \* the goroutine of Run
    last,       \* w.lastByHost
    bucket,     \* w.global; tokens count in units of 1/GlobalRefill
    audit,      \* the number of audit entries and the result of the last
    cf, nextId, \* Cloudflare: its records, and an unused record ID
    mirror,     \* the published snapshot
    clock,
    submitted, taken,   \* histories: the announcements given, and the one taken last
    passes,             \* history: plans that passed the guards since the start
    faults

writerVars == <<wr, last, bucket, audit, taken, passes>>
cfVars == <<cf, nextId>>
vars == <<queue, sub, writerVars, cfVars, mirror, clock, submitted, faults>>

Never == -1
Change == [host : Hosts, addrs : SUBSET Addrs, n : Nat]
IdleSub == [at |-> "idle"]
IdleWr == [at |-> "idle"]

----------------------------------------------------------------------------
(* Planning.                                                               *)

\* Mutant: private addresses are published.
DesiredUnfiltered(c) == c.addrs

Desired(c) == c.addrs \cap Public
Contents(recs) == {r.addr : r \in recs}

\* RecordsForHost and filterEligibleRecords; an empty allowlist filters nothing.
RecordsForHost(recs, h) ==
    {r \in recs : HostOf[r.name] = h /\ (Eligible = {} \/ r.name \in Eligible)}

\* What buildPlan adds and deletes in one family, in order.  sort.Slice leaves
\* records of equal content in any order.
Added(recs, want, family) ==
    {s \in SetToSeqs((want \ Contents(recs)) \cap family) :
       \A i, j \in DOMAIN s : i < j => s[i] < s[j]}
Deleted(recs, want, family) ==
    {s \in SetToSeqs({r \in recs : r.addr \in family \ want}) :
       \A i, j \in DOMAIN s : i < j => s[i].addr <= s[j].addr}

Update(r, a) == [do |-> "update", id |-> r.id, name |-> r.name, addr |-> a]
Create(r, a) == [do |-> "create", id |-> 0, name |-> r.name, addr |-> a]
Delete(r) == [do |-> "delete", id |-> r.id, name |-> r.name, addr |-> r.addr]

Less(m, n) == IF m < n THEN m ELSE n
Paired(add, del) == Less(Len(add), Len(del))

\* Edits within a family first, then the surplus creates, in the zone and under the
\* name of the first record, then the surplus deletes.
Edits(add, del) == [i \in 1 .. Paired(add, del) |-> Update(del[i], add[i])]
Creates(add, del, r0) ==
    [i \in 1 .. (Len(add) - Paired(add, del)) |-> Create(r0, add[Paired(add, del) + i])]
Deletes(add, del) ==
    [i \in 1 .. (Len(del) - Paired(add, del)) |-> Delete(del[Paired(add, del) + i])]

\* Mutant: the surplus records are deleted before anything replaces them.
PlanDeletesFirst(add4, del4, add6, del6, r0) ==
    Deletes(add4, del4) \o Deletes(add6, del6)
    \o Edits(add4, del4) \o Edits(add6, del6)
    \o Creates(add4, del4, r0) \o Creates(add6, del6, r0)

\* Mutant: addresses without a record to reuse are forgotten.
PlanNoCreates(add4, del4, add6, del6, r0) ==
    Edits(add4, del4) \o Edits(add6, del6) \o Deletes(add4, del4) \o Deletes(add6, del6)

Plan(add4, del4, add6, del6, r0) ==
    Edits(add4, del4) \o Edits(add6, del6)
    \o Creates(add4, del4, r0) \o Creates(add6, del6, r0)
    \o Deletes(add4, del4) \o Deletes(add6, del6)

\* buildPlan: the snapshot's zones are a map, so any record may be the first.
BuildPlan(recs, want) ==
    {Plan(a4, d4, a6, d6, r0) :
       a4 \in Added(recs, want, V4), d4 \in Deleted(recs, want, V4),
       a6 \in Added(recs, want, V6), d6 \in Deleted(recs, want, V6), r0 \in recs}

----------------------------------------------------------------------------
(* The global token bucket.                                                *)

FullBucket(now) == [tokens |-> GlobalBurst * GlobalRefill, last |-> now]

Refilled(b, now) == Less(GlobalBurst * GlobalRefill, b.tokens + (now - b.last))

BucketAllows(b, now) == Refilled(b, now) >= GlobalRefill

\* Mutant: the bucket keeps the time of its first use, and refills from it again.
AfterBucketAllowStale(b, now) ==
    [tokens |-> IF BucketAllows(b, now) THEN Refilled(b, now) - GlobalRefill
                                        ELSE Refilled(b, now),
     last |-> b.last]

AfterBucketAllow(b, now) ==
    [tokens |-> IF BucketAllows(b, now) THEN Refilled(b, now) - GlobalRefill
                                        ELSE Refilled(b, now),
     last |-> now]

----------------------------------------------------------------------------
(* Submit: three channel operations under submitMu, against Run's receive. *)

\* New, over any of the record sets.
Init ==
    /\ queue = <<>> /\ sub = IdleSub /\ wr = IdleWr
    /\ last = [h \in Hosts |-> Never] /\ bucket = FullBucket(0)
    /\ audit = [seq |-> 0, result |-> "none"]
    /\ cf \in FirstRecords /\ mirror = cf
    /\ nextId = FirstId
    /\ clock = 0 /\ submitted = 0 /\ taken = 0 /\ passes = 0 /\ faults = 0

Submit(h, addrs) ==
    LET c == [host |-> h, addrs |-> addrs, n |-> submitted + 1] IN
    /\ sub.at = "idle" /\ submitted < MaxSubmits
    /\ submitted' = submitted + 1
    /\ \/ Len(queue) < QueueCap /\ queue' = Append(queue, c) /\ sub' = sub
       \/ Len(queue) = QueueCap /\ queue' = queue /\ sub' = [at |-> "drop", c |-> c]
    /\ UNCHANGED <<writerVars, cfVars, mirror, clock, faults>>

\* Drop the oldest, unless the writer has emptied the queue meanwhile.
SubmitDrop ==
    /\ sub.at = "drop" /\ sub' = [sub EXCEPT !.at = "retry"]
    /\ queue' = IF queue = <<>> THEN queue ELSE Tail(queue)
    /\ UNCHANGED <<writerVars, cfVars, mirror, clock, submitted, faults>>

\* Mutant: the change is not tried again after the oldest was dropped.
SubmitRetryNever ==
    /\ sub.at = "retry" /\ sub' = IdleSub
    /\ UNCHANGED <<queue, writerVars, cfVars, mirror, clock, submitted, faults>>

SubmitRetry ==
    /\ sub.at = "retry" /\ sub' = IdleSub
    /\ queue' = IF Len(queue) < QueueCap THEN Append(queue, sub.c) ELSE queue
    /\ UNCHANGED <<writerVars, cfVars, mirror, clock, submitted, faults>>

----------------------------------------------------------------------------
(* Run and Reconcile.                                                      *)

Take ==
    /\ wr.at = "idle" /\ queue # <<>>
    /\ wr' = [at |-> "decide", c |-> Head(queue)]
    /\ queue' = Tail(queue) /\ taken' = Head(queue).n
    /\ UNCHANGED <<sub, last, bucket, audit, passes, cfVars, mirror, clock, submitted, faults>>

Records == RecordsForHost(mirror, wr.c.host)
Audited(result) == audit' = [seq |-> audit.seq + 1, result |-> result]

\* Nothing public, nothing eligible, or nothing to change.
Dismiss ==
    /\ wr.at = "decide"
    /\ \/ Desired(wr.c) = {}
       \/ Records = {}
       \/ Contents(Records) = Desired(wr.c)
    /\ wr' = IdleWr
    /\ UNCHANGED <<queue, sub, last, bucket, audit, taken, passes, cfVars, mirror, clock,
                   submitted, faults>>

HasPlan ==
    /\ wr.at = "decide"
    /\ Desired(wr.c) # {} /\ Records # {} /\ Contents(Records) # Desired(wr.c)

HostLimited ==
    Rate > 0 /\ last[wr.c.host] # Never /\ clock - last[wr.c.host] < Rate

\* The per-host interval, then the global bucket.
RateLimited ==
    /\ HasPlan
    /\ \/ HostLimited /\ bucket' = bucket
       \/ ~HostLimited /\ ~BucketAllows(bucket, clock)
                       /\ bucket' = AfterBucketAllow(bucket, clock)
    /\ Audited("rate-limited") /\ wr' = IdleWr
    /\ UNCHANGED <<queue, sub, last, taken, passes, cfVars, mirror, clock, submitted, faults>>

\* The guards let the plan pass: the host's interval starts, in a dry run too.
Pass ==
    /\ HasPlan /\ ~HostLimited /\ BucketAllows(bucket, clock)
    /\ bucket' = AfterBucketAllow(bucket, clock)
    /\ last' = [last EXCEPT ![wr.c.host] = clock]
    /\ passes' = passes + 1
    /\ IF DryRun \/ Eligible = {}
       THEN wr' = IdleWr /\ Audited("dry-run")
       ELSE /\ \E ops \in BuildPlan(Records, Desired(wr.c)) :
                  wr' = [at |-> "apply", c |-> wr.c, ops |-> ops,
                         fresh |-> Records = RecordsForHost(cf, wr.c.host)]
            /\ audit' = audit
    /\ UNCHANGED <<queue, sub, taken, cfVars, mirror, clock, submitted, faults>>

\* Cloudflare carries out a call, or refuses one that names a record it does not have.
Known(op) == \E r \in cf : r.id = op.id
Carried(op) ==
    CASE op.do = "create" -> /\ cf' = cf \cup {[id |-> nextId, name |-> op.name, addr |-> op.addr]}
                             /\ nextId' = nextId + 1
      [] op.do = "update" -> /\ cf' = {IF r.id = op.id THEN [r EXCEPT !.addr = op.addr] ELSE r : r \in cf}
                             /\ nextId' = nextId
      [] OTHER            -> /\ cf' = {r \in cf : r.id # op.id}
                             /\ nextId' = nextId

ApplyCall ==
    /\ wr.at = "apply" /\ wr.ops # <<>>
    /\ Head(wr.ops).do = "create" \/ Known(Head(wr.ops))
    /\ Carried(Head(wr.ops))
    /\ wr' = [wr EXCEPT !.ops = Tail(@)]
    /\ UNCHANGED <<queue, sub, last, bucket, audit, taken, passes, mirror, clock, submitted, faults>>

\* A call fails, or is carried out and its answer is lost: the rest of the plan is
\* dropped.
CallFails ==
    /\ wr.at = "apply" /\ wr.ops # <<>>
    /\ LET op == Head(wr.ops) IN
       \/ op.do # "create" /\ ~Known(op) /\ UNCHANGED <<cfVars, faults>>
       \/ faults < MaxFaults /\ faults' = faults + 1 /\ UNCHANGED cfVars
       \/ /\ faults < MaxFaults /\ faults' = faults + 1
          /\ op.do = "create" \/ Known(op)
          /\ Carried(op)
    /\ Audited("error") /\ wr' = IdleWr
    /\ UNCHANGED <<queue, sub, last, bucket, taken, passes, mirror, clock, submitted>>

Applied ==
    /\ wr.at = "apply" /\ wr.ops = <<>>
    /\ Audited("applied") /\ wr' = IdleWr
    /\ UNCHANGED <<queue, sub, last, bucket, taken, passes, cfVars, mirror, clock, submitted, faults>>

----------------------------------------------------------------------------
(* The mirror, crashes, time.                                              *)

\* The mirror publishes one zone as Cloudflare has it now.
RefreshZone(n) ==
    /\ mirror' = {r \in mirror : r.name # n} \cup {r \in cf : r.name = n}
    /\ UNCHANGED <<queue, sub, writerVars, cfVars, clock, submitted, faults>>

\* The process dies and New starts over; the mirror serves its last snapshot.
Crash ==
    /\ faults < MaxFaults /\ faults' = faults + 1
    /\ queue' = <<>> /\ sub' = IdleSub /\ wr' = IdleWr
    /\ last' = [h \in Hosts |-> Never] /\ bucket' = FullBucket(clock)
    /\ audit' = [seq |-> 0, result |-> "none"] /\ taken' = submitted /\ passes' = 0
    /\ UNCHANGED <<cfVars, mirror, clock, submitted>>

Tick ==
    /\ clock < MaxTime /\ clock' = clock + 1
    /\ UNCHANGED <<queue, sub, writerVars, cfVars, mirror, submitted, faults>>

Next ==
    \/ \E h \in Hosts : \E addrs \in Announced : Submit(h, addrs)
    \/ SubmitDrop \/ SubmitRetry
    \/ Take \/ Dismiss \/ RateLimited \/ Pass \/ ApplyCall \/ CallFails \/ Applied
    \/ \E n \in Names : RefreshZone(n)
    \/ Crash \/ Tick

Spec == Init /\ [][Next]_vars

----------------------------------------------------------------------------
(* Properties.                                                             *)

\* Submit's drop-oldest never loses the newest announcement, and never reorders: at
\* rest it is the last of the queue or was taken, whatever Run received between the
\* three channel operations.
NewestKept ==
    /\ \A i, j \in DOMAIN queue : i < j => queue[i].n < queue[j].n
    /\ \A i \in DOMAIN queue : taken < queue[i].n
    /\ sub.at = "idle" /\ taken < submitted => queue # <<>> /\ Last(queue).n = submitted

\* The guards bound the plans that reach Cloudflare: a burst, then one per refill
\* interval, however the announcements come.
WriteBudget == passes * GlobalRefill <= GlobalBurst * GlobalRefill + clock

\* What is written has an eligible name and a public address, whatever was announced
\* and however old the snapshot is.
GuardedWrites ==
    [][\A r \in cf' \ cf : r.name \in Eligible /\ r.addr \in Public]_vars

\* guide/diagnostics.md:213: a plan that was carried out and was made from the
\* records Cloudflare had leaves the host with exactly the announced addresses.
AppliedConverges ==
    [][Applied /\ wr.fresh
          => Contents(RecordsForHost(cf, wr.c.host)) = Desired(wr.c)]_vars

\* Updates, then creates, then deletes: a plan made from the records Cloudflare had
\* never takes a host's last record, also when it fails half way.
HostKeepsAddress ==
    [][\A h \in Hosts :
          RecordsForHost(cf, h) # {} /\ (wr.at = "apply" => wr.fresh)
             => RecordsForHost(cf', h) # {}]_vars
=============================================================================
