# splitdns: TLA+ models and proofs

splitdns is a split-horizon DNS daemon. One process answers DNS for a home or small
network out of a mirror of the owner's Cloudflare zones, forwards everything else
to encrypted upstreams, learns local hosts by mDNS and writes changed public addresses
back to Cloudflare. This directory models it in TLA+, checks the models
with TLC on small instances, and proves the central invariants with TLAPS for every
value of the constants. Line numbers are those of the source tree beside this
directory.

## The system

Three planes share one process and communicate through immutable snapshots, bounded
queues and callbacks.

| part | state | operations | what makes it hard |
|---|---|---|---|
| circuit breaker, `forwarder/breaker.go` | state, ring of outcome buckets, half-open count | allow, record | callers hold a permit across a network exchange; results arrive in another state |
| forwarder, `forwarder/forwarder.go` | breakers and operator switches per upstream | Forward, tryAll, SetBackendEnabled, ResetBackends | walks over lists while breakers and switches change |
| answer cache, `anscache/anscache.go` | map and recency list | Lookup, Store, StoreFail, Flush | clock read outside the lock, stores out of order, size bound |
| server, `server/server.go` | one goroutine per query, two limiters | ServeDNS, forwardCached, serveForwarded | lookup, exchange and store are separate steps; a slot is given up for a wait |
| mirror, `mirror/*.go` | poller states, published snapshot, warm cache on disk | cycle, refresh, republish, Save, Load | crash between files, partial failures, serial wrap, three publishers |
| vhost feed, `vhost/vhost.go` | current set | poll, callback | set and publication are two steps |
| supervisor and watchdog, `supervisor/*.go` | heartbeats, restart state, force channel | superviseWorker, monitor, watchdogTick | hung and leaked goroutines, timeouts against late returns |
| DDNS writer, `ddns/ddns.go` | queue, rate guards, audit | Submit, Run, Reconcile | stale snapshot, a plan of several calls, lost answers |
| mDNS cache, source, on-demand resolver, `mdns/*.go` | host tables, view, in-flight table | HandlePacket, Expire, Resolve | view published after the lock is released; waiters |
| announcements, `cmd/splitdns-notify`, `mdns/notifysock.go`, `mdns/tsig.go` | relay loop, socket, accepted MACs | announce, relayLoop, Run, Verify | lost and copied packets, refused peers, the replay window in whole seconds |
| resolver, `resolver/*.go` | none (reads snapshots) | Resolve | each of the steps of its precedence decides alone whether a name exists |
| reverse zones, `revzone`, `config.go` | none | FromPrefixes, ResolveReverseZones | prefixes inside an octet or nibble |
| encrypted listeners, certificates, `encrypted/*.go` | certificate, file times, advert | reload, Valid, DoH handler | two reloaders between the two writes of a renewal, in either order |
| query log, `qlog/qlog.go` | ring, counters, clients | Record, Recent, TopClients | wrap of the ring, table at its bound |
| Cloudflare client, log limiter, hostinfo, model, diag | none or start-up only | | |

The parts interact in these places: the server calls cache and forwarder for a name the
resolver does not own; the mirror, the vhost feed and the certificate manager publish
into one snapshot that the resolver and the DDNS writer read; the mDNS source submits
address changes to the DDNS writer; announcements reach the mDNS source over the notify
socket or as signed UDP packets, straight from a lease hook or through a relay; every question the server
ends is one entry of the query log; the supervisor runs every worker, and the watchdog
reads the mirror's age to force a restart or to withhold the systemd ping.

## Modules

| module | models | checked by |
|---|---|---|
| `Breaker` | one breaker as operators on a record | used by the next two |
| `BreakerUse` | callers of one breaker, an exchange between allow and record | run `breaker`, `BreakerUseProofs` |
| `Forwarder` | queries that walk primary, fallback and stub lists | run `forwarder`, `ForwarderProofs` |
| `AnswerCache` | the cache as operators on a record | used by the next one |
| `ForwardPath` | requests through `forwardCached` | run `forward_path`, `ForwardPathProofs` |
| `WarmCache` | serial arithmetic, index and zone files | used by the next one |
| `Mirror` | poller, builder, vhost feed, DDR provider, disk, Cloudflare | run `mirror`, `MirrorProofs` |
| `Supervisor` | one supervised worker, its monitor, the watchdog | run `supervisor`, `BreakerUseProofs` |
| `Ddns` | queue, writer, Cloudflare records, a snapshot that lags | run `ddns`, `DdnsProofs` |
| `MdnsCache` | the two mDNS host stores as operators on a record | used by the next one |
| `MdnsSource` | concurrent packets, the expiry ticker, the change callback, views | runs `mdns`, `mdns_told`, `MdnsSourceProofs` |
| `OnDemand` | queries for unknown hosts: limiters, flights, buckets, waits | run `ondemand`, `OnDemandProofs` |
| `Resolver` | `Resolve` and its helpers as operators on a question, a snapshot and a view | used by `Horizon` |
| `ReverseZones` | derivation and coverage of reverse zones | used by `Horizon` |
| `ZoneBuild` | from an account's records to a snapshot | used by `Horizon` |
| `Horizon` | what changes what is answered: refreshes, vhosts, adverts, hosts; the rebind filter | run `resolver` |
| `RecentLog` | what the query log promises | refined by the next one |
| `QueryLog` | the ring, its counters, its clients | run `frontend`, `FrontEndProofs` |
| `Certificates` | renewal, the two reloaders, handshakes, DDR advert | run `frontend` |
| `FrontEnd` | `ServeDNS` and the DoH handler, with the two above | run `frontend`, `FrontEndProofs` |
| `SigVerifier` | TSIG signing and `Verify` | used by `Notify`, `DdnsProofs` |
| `Notify` | `splitdns-notify`, its relay, the notify socket, UDP | run `notify` |

The `MC*` modules only give values to constants that a configuration file cannot write
(sequences, functions, symmetry sets); `MCFrontEnd` also says which initial states go together. Definitions whose comment begins with "Mutant"
are altered forms of the definition below them; they are used by no specification, and
show that the properties notice such a change. Variables are commented with the field
they stand for, and actions have the name of the function or of the step of it.

**Atomicity.** A step of a model is what the code does between two points at which
another goroutine can get in: a critical section, one channel operation, one network
call, one file rename. `Submit` of the DDNS writer is three actions because the consumer
does not take its mutex; `refresh` of the mirror is fetch per zone, read of the vhost
set (before the mutex), publish, save per file; `Store` of the cache reads the clock in
a step before the one that takes the lock.

**Breaker.** `br` holds the fields of `breaker`. Time is an integer, and the failure ratio a
fraction `FailNum/FailDen`. `log`, `lastTrip`, `probes` and `recordedAt` are histories:
what a breaker that forgot nothing would know.

**Forwarder.** Each query carries its list, its position in the list, whether an upstream was allowed,
and histories of what was tried, disabled or down while it ran. A query starts with
the list `Forward` chooses, skips refused and disabled upstreams, exchanges with an
allowed one, makes the forced pass when none was allowed, and falls back to cleartext.

**ForwardPath.** An entry is kind, insertion time, TTL and the time the upstream spoke (a history). The
TTL of the answer a client gets is computed with the wrap of an unsigned integer
(`Modulus`). Clock reads may lag behind the lock by `MaxLag`, exchanges take at
most `Budget`.

**Mirror.** Records of a zone are a version number, and the SOA serial is a function of it
modulo `Modulus`, with 0 standing for "not observed" as in the code; `flat` says whether the zone has the addresses of its
tunnels, which a refresh may fail to resolve. The answer to a
serial query may lag (`SerialLag`). The disk is a set of zone files and an index, each of
which may be unreadable. `Crash` loses all but the disk; `RestartWorker` only the
worker. `edits` counts the edits of all zones, whose bound keeps a serial from moving by half its range.

**Supervisor.** `builder` chooses once whether the worker is the mirror, which the watchdog looks at, or
another. A worker runs, wedges (returns on cancel), or is deaf (ignores its
context), and abandoned runs may go on ticking the shared heartbeat.

**Ddns.** A record is an ID, a name and an address; the snapshot follows Cloudflare zone
by zone at any time or not at all. A call fails, or succeeds with its answer
lost. Sorting by text is the order of the numbers that stand for addresses.

**MdnsSource.** `cache` holds both stores, a host without addresses being an absent one. A handler
applies the announcements of its packet one critical section at a time, makes the calls
of `onChange` after the lock is released, then builds a view under the lock and stores it in a
further step. `sent`, `from` and `strong` are histories. A service or descriptor that is
news only makes the handler publish.

**OnDemand.** Each client has one query at a time, which moves through `lookup`, `slot`, `solicit`,
`wait`, `clean` and `again`, the places between two critical sections or channel operations
of `ServeDNS` and `Resolve`. A flight is a number, and its channel is closed when the number
is in `closed`. The time is read before the lock, as in the code, so a bucket may be used
with an earlier time than before. From `StopAt` on the daemon's context is done, and a wait may end by it. Packets are reduced to the host they make known.

**Resolver, ReverseZones, ZoneBuild, Horizon.** A name is a sequence of labels, a record an owner, a type
and a value, an address one with a scope. `Resolve` follows the order of the function: `resolver.arpa`, the resolver's own name,
static names, reverse zones, local suffixes, stub zones, managed zones (redirect, overlay, recovery of search-list names,
records, wildcard), forward. `Horizon` holds the snapshot and the view and changes
them independently; the invariants quantify over all `Queries` in every state. An upstream
answers with records of every scope, to which `applyRebindFilter` is applied.

**FrontEnd.** A request goes through the places of `ServeDNS`: allowed or refused, slot or
shed, resolved, waiting for a host with its slot given up, forwarded, logged. Which rcode an upstream or
the cache gives is a choice; `ForwardPath` has the detail. A DoH request first meets the handler, which
answers it with an HTTP error or hands it on. `Certificates` has the two files, their
times and pairs, the poller and the SIGHUP goroutine of `startEncrypted` with a step per file access and per store,
the one-place channel between signal and goroutine, and the clock that makes a certificate expire. The goroutines are
there only if DDR is advertised and a listener is up (`Reloads`). A renewal writes its files in either order, also before `Run`
has looked for the first time. A reply counts as sent when it is handed to `WriteMsg`, whose error the code only logs. `QueryLog` keeps the ring as the code does, with the
index that wraps; the score by which `TopClients` drops a client is a choice of who has gone cold.

**SigVerifier, Notify.** A MAC is the identity of the announcement it signs. A second of the clock has `Parts`
instants, because the window is checked in whole seconds and the retention of a MAC with the
full time. `Verify` is three steps of a read loop, the check, the second clock read and the critical section, and several loops take them
at the same time; above `SeenCap` a MAC is accepted and not recorded. `kept` and `lead` are histories. Signers' clocks may be anything. A user's delivery config is computed from files and flags as
`loadNotifyConfig` and `announcer` do it. Packing fails for an unknown algorithm or a secret that is not base64, writing to the socket may
fail at any time, and the look-up of a peer's groups may fail; the relay repeats nothing. UDP packets in `wire` are never taken out, so they may be
lost, delayed, reordered and copied.

## What the runs show

| run | instance | shows |
|---|---|---|
| `breaker` | 3 callers, 5 calls, 7 instants | while closed, the bucket ring is a sliding window; half-open has a probe in flight, never more than its budget, and resolves; open means no attempt before the cooldown |
| `forwarder` | 2 queries, 3 upstreams | breakers alone never end a walk: a query that went on to cleartext or failed had asked an upstream of the list it left, or each was switched off while it ran |
| `forward_path` | 2 requests, 2 keys, 1 entry | list and map agree; an answer's age is bounded however stores and clock reads interleave; each request ends |
| `mirror` | 2 zones, 1 fault, 1 crash or restart, all publishers | disk index and poller states never claim more than the records they stand for; a quiet cycle misses no edit of a zone with a known serial, across the wrap; DDR adverts never go backwards; everything converges once edits and faults stop, the addresses of tunnels included |
| `supervisor` | one worker of either kind | no false alarms; hung workers are replaced; restarts and shutdowns end |
| `ddns` | 2 hosts, 3 names, 3 announcements | see "Properties of the DDNS writer" |
| `mdns` | 3 hosts, 2 handlers and the ticker | an allocation of strong trust outlives whatever happens in the volatile store; nothing else creates one; the view becomes what the stores hold |
| `ondemand` | 2 clients, 2 labels, 1 handler | limiter slots balance on every path; a waiter is never left on a flight that nobody will close; multicast stays in its budget; every query for an unknown host ends |
| `resolver` | 12 accounts, vhosts, adverts, 3 hosts and their announcements, 3 networks | a name that is answered for one type is never NXDOMAIN for another; an empty answer carries the SOA of the longest zone of the name; a managed name is not answered from unverified hosts; a name of the LAN is not answered with a public wildcard, and LAN addresses from upstream are passed only under configured zones; the server is authoritative for exactly the listed reverse zones and the aligned prefixes in scope |
| `frontend` | 3 requests in 4 workloads, 2 renewals, 2 signals | log and counters tell what was sent, by every path and transport, and slots balance; the ring refines `RecentLog`; a renewal that is followed by SIGHUP is served for good, in whichever order its files are written and reloads overtake each other; a file change that the poll meets complete is served without one |
| `notify` | 2 announcements, 2 read loops, 3 users, 5 machines | a signed announcement whose MAC was recorded is believed again only if its signer led by the fudge, less what passes within `Verify`; every line the relay took is tried; what an authorized user wrote to the socket is believed in the end, through noise and refused peers |

One run finds a disagreement between the code and what its comments say; TLC's trace
is the evidence.

- `mdns_told`: `diffLocked` marks a set of addresses as notified whatever the trust of the
  announcement. If a host announces itself untrusted first, the same set from a trusted
  source is no change, and `onChange`, the trigger of the DDNS writer, is not called
  (`cache.go:87-88` says it is).

Other disagreements met on the way have no run of their own:

- the forced pass of the forwarder is made only if *no* upstream was allowed: if a dead one is allowed
  and fails while the live one is skipped for its open breaker, the query fails
  (`forwarder.go:179-181` says the breaker can never make resolution worse);
- a failure marker replaces the good answer that a concurrent request has just stored
  (`server.go:257-259`);
- a zone saved with serial 0 is taken as fetched after a restart; a serial in the upper half
  of the number space is not newer than 0 in RFC 1982 order, so the zone waits for a
  forced cycle (`poller.go:25-26`);
- publishing the warm cache counts as a confirmation, so each forced restart makes the
  mirror young again and the ceiling that withholds the ping is not reached
  (`supervisor.go:16-17`, `main.go:312-313`);
- the records of a host in two zones are pooled, so one name may lose its only record
  (`guide/diagnostics.md:210-212`);
- a woken on-demand waiter may read a view without its host, when another handler has
  stored an older view in between (`resolve.go:186-187`);
- the bucket window is also filled by late results and forced tries in open and half-open state (`breaker.go:17-18` says
  it accumulates only while closed); closing empties it, so the comment's point, a clean slate, holds and is `WindowExact`;
- a negative age, from a clock read before the lock, lengthens a TTL (`anscache.go:171`);
- a restarted mirror worker publishes the older warm cache over a live snapshot until its
  first cycle ends (`builder.go:149-150`);
- a zone whose serial was not observed is served with a synthetic one (`mirror.go:339-340`);
- a cycle in which only some zones answered still counts as a confirmation
  (`builder.go:39-40`);
- `refresh` reads the vhost set before the mutex, so an older set may briefly replace a
  newer one (`builder.go:87-89`);
- the audit log of the daemon is kept in memory only (`main.go:1037-1056`);
- a wildcard CNAME is not followed for A and AAAA, which get NODATA; and only the owner
  itself is checked for an empty non-terminal, not its closest encloser (`mirror.go:108-109`, `zone.go:11-12`);
- a local name without an address of local scope is answered with its public ones
  (`resolver.go:370-374`); an SOA question at the apex gets NODATA;
- a DDR advert is withdrawn when a reload is attempted with the certificate lapsed, not when it expires by the clock
  alone (`certreloader.go:73-74`, `guide/configuration.md:298-299`);
- without `advertise_ddr` there is no reload at all, and SIGHUP is not caught (`guide/encrypted-dns.md:38` and
  `guide/configuration.md:299-300` say the certificate is hot-reloaded on SIGHUP or file change);
- a poll between the two writes of a renewal with the certificate first, the order `guide/encrypted-dns.md:34` and the
  package's test write them in, notes its time, fails to load the pair and does not try again: such a change takes a SIGHUP.
  The second half of `RenewalServed` is about changes whose time was not noted yet;
- nothing orders the reloads of the poll and of SIGHUP: one that read the old pair can put it in service over the renewed one,
  and the older advert may be stored last (`certreloader.go:43-44` calls the swap atomic). The poll that comes next puts the certificate right;
- a request without a client address is allowed by the server (`server.go:123`; `doh.go:162` says otherwise);
- an upstream's failure is logged under the decision that led to it, never under servfail; the log frees the slot
  of a cold client only when `TopClients` is called;
- a signer whose clock is the fudge ahead, or less by the seconds that pass within `Verify`, can have one MAC accepted twice, by the
  rounding to seconds (`tsig.go:81-82`, `CHANGELOG.md:101-102`); above its cap a MAC is accepted and not recorded, and a restart forgets all.
  `SignedOnce` states this edge and is violated by any smaller bound;
- `splitdns-notify` reports success once it could write to the socket, also if the daemon then
  rejects its user; an unsupported algorithm stops the socket path too;
- a refresh that could not resolve a tunnel publishes the zone without its addresses under the new serial, so they come back with
  the next edit or forced refresh (`mirror.go:88-89`).

### Properties of the DDNS writer

`NewestKept`: drop-oldest never loses the newest announcement, though the consumer
receives between the three channel operations. `WriteBudget`: plans that pass the guards
are at most a burst and one per refill interval. `GuardedWrites`: whatever is announced
and however old the snapshot is, only eligible names and public addresses are written.
`AppliedConverges` and `HostKeepsAddress`: a plan made from what Cloudflare had ends with
exactly the announced addresses, and at no call, failed or not, is the host without a record.
The last two are conditional on a current snapshot: with a stale one a plan can
delete a host's last record.

## Bounds

Every bound is a constant with "bound" in its comment (`MaxCalls`, `MaxStarts`,
`MaxTime`, `MaxFaults`, ...). They are chosen so that the case of interest occurs, and
each property has a mutant that is caught within the bounds of its run.

- `breaker`: the window of 5 with 2 buckets and 7 instants makes the ring wrap and
  a gap exceed the window. Three callers give a late result and a probe at the same time.
- `forwarder`: one failure trips, one instant cools, so that all three states occur with
  2 queries. The ratio rule is out of reach there (`MinSamples` 9) and checked in `breaker`.
- `forward_path`: one entry for two keys makes every store evict. TTL 0 records are clamped to `MinTTL`.
- `mirror`: serials are modulo 16 and start at 15, so the two edits cross the wrap and the
  value 0; one fault and one restart give "one zone not observed, then a crash". No symmetry, because
  liveness is checked.
- `supervisor`: ceilings of 2 to 4 ticks keep the order of the code's defaults except that
  the stall ceiling lies between the two watchdog ceilings; one leaked goroutine at a time.
- `ddns`: a queue of 1 with 3 announcements overflows; a burst of 1 with refill 2 makes both
  guards refuse; the announcements include an empty one, a private address, a
  change of address and a second family.
- `mdns`: two volatile hosts and one allocation for three names make both stores evict;
  the packets include two hosts in one packet, a goodbye, a withdrawal, and the same
  addresses with each trust. Two packets and three instants cover an overlap of two handlers
  with the ticker, and the end of every lifetime.
- `ondemand`: one slot of the main limiter for two clients, one flight and one table entry for two labels reach these
  limits, and three queries can exceed the burst of two. The context is done at 1, while queries still come and before a wait times out. The waiter limit is reached in `frontend`. The last
  waits are cut short by the end of the clock.
- `resolver`: nested zones and stubs, wildcards of three kinds, CNAME chains and loops, an empty non-terminal, a tunnel, hosts that are
  a vhost, a DDNS name and neither; addresses of two labels of two bits make prefixes that end at and inside a label.
- `frontend`: a ring of two wraps at the third request; one slot and one waiter make both limiters refuse, one client slot is
  contended; the old certificate expires at 1 and the renewed ones after the end of the clock. The reloaders run beside one request
  over DoT; the other three workloads run without them, with a certificate that lapses. No step of a request reads what a reload
  writes but the handshake, which that request makes. Two renewals and two signals let a signal come during a reload, and one reload overtake another.
- `notify`: each machine has bounds of its own. One lets time pass, six instants of half a second with a fudge of 1, for signers whose
  clock is right or the fudge ahead, two read loops and a set of one MAC: both ends of the window and of the retention, the edge of `SignedOnce` and the cap.
  The others stop the clock, with all users, a line of noise, and both processes told to stop.

Deadlock is checked except in `frontend` and `notify`, whose bounded requests and
announcements come to an end; elsewhere, where all calls have ended, a named stuttering step stands for the idle process.

## Fairness

- `breaker`: every exchange ends, because `dns.Client.Timeout` bounds it.
- `forward_path`: every request's goroutine goes on; its exchange is bounded by the
  context of `forwardCached`.
- `mirror`: the poller's and the feed's tickers fire again and again, and a callback
  that was started goes on. Faults are bounded in number: the property is about
  what happens once they stop.
- `mdns`: handlers go on and the ticker of `Run` fires again and again.
- `ondemand`: the goroutines of queries go on, and time passes, which the
  timer of `odWait` needs. Nothing is assumed of packets.
- `supervisor`: tickers fire and the goroutine of `superviseWorker` goes
  on. Nothing is assumed of a wedged or deaf worker.
- `frontend`: `Run` starts, the ticker of the certificate poll fires again and again, a signal in the channel is taken, and a reload that has
  begun goes on. Nothing is assumed of renewals, of who sends SIGHUP, or of requests.
- `notify`: the relay reads and the socket accepts until they are told to stop. Nothing is assumed of UDP.

All are weak fairness; none is assumed of the environment.

## Proofs

Each theorem holds for every value of the constants that the `ASSUME`s of its module allow. No theorem
assumes that a set of clients, requests, queries or zones is finite; where a property counts, the
inductive invariant carries the finiteness of what is counted.

**BreakerUseProofs**: `TypeCorrect`, `ProbeBudgetHolds`, `HalfOpenHasProbeHolds`,
`ClosedBelowConsecHolds`, `FailFastHolds`. The inductive invariant `IInv` adds to
the properties that `headStart` is not in the future and `TripHistory`: a trip that
was not recovered from is exactly a breaker that is not closed, `openedAt` is its
time, and `halfOpen` counts the exchanges admitted since. Without this link the
histories in `ProbeBudget` and `FailFast` are unrelated to the fields the guards read.
`ClosedBelowConsec` (a closed breaker is below its threshold of consecutive failures) is proved
and has no run.

`NoFalseAlarmHolds` is about `Supervisor`, whose specification has prefixed names (`SupSpec`) so that the two
modules can be extended together. `AlarmInv` adds that an undisturbed worker has confirmed within the last unit of time.

**ForwarderProofs**: `NoSilentSkipHolds`, for any lists and any number of queries. The property looks at a query that
has left a list; `Inv` says what is known while it walks: a walk that was allowed one upstream has asked one of the list, and a forced
pass, or one without breakers, has asked every upstream before its position that was not switched off while it ran. The lists are assumed to be sequences.

**ForwardPathProofs**: `TypeCorrect`, `ListMatchesMapHolds`, `AnswerAgeHolds`. Lemmas
give what each cache operation does to a well-formed list (move to front, removal,
eviction at the bound). The age bound is not inductive: the invariant adds, for each
place a request can be in, how long ago the upstream spoke relative to the clock value the
request holds.

**MirrorProofs**: `DiskCoversHolds`, `StatesCoverHolds`, and the action properties `KnownSerialNotMissedHolds` and
`DDRNeverOlderHolds`. The invariant follows a version of the records from Cloudflare through the answers of a
cycle, the snapshot being built, the published one and each file. What a serial says of a version rests on lemmas about the
order of RFC 1982: it needs fewer edits than half the number space, and one less again, because the
wrap skips 0 (`MirrorAssumption`; with `MaxEdits = Modulus \div 2 - 1` and a wrap the comparison would miss an edit).

**DdnsProofs**: `WriteBudgetHolds` rests on `BudgetInv`, a balance: what was spent
and what is left never exceeds the burst and the time the bucket has accounted
for. `NewestKeptHolds` rests on `QueueInv`: while a Submit is under way its change is
newer than everything queued and taken, and after the drop the queue has room, because the
consumer only shortens it. `GuardedWritesHolds` rests on `PlanInv`: whatever snapshot a plan was made from, each of its
calls that is still to be made names an eligible name and a public address, and on `IdsInv`, that Cloudflare's IDs
are not used again. Addresses and first records are assumed finite, so that they can be sorted.

`SignedOnceHolds` is about `SigVerifier`, for every fudge, number of instants per second, size of the set, and number of announcements, copies and
read loops, with any skew of the signers' clocks. It assumes only that the maximum of the retention is at least twice the
fudge, which holds for the 300 s of `splitdns-notify`. `OnceInv` says of every recorded MAC that it is still in the set, with a time not before its check, or that
twice the fudge has passed since that check; and of every loop that its packet was in the window at a time that is not to come.
The lemma `PruneLate` shows that freshMAC forgets a MAC no earlier. The property is not a state invariant, because
the second acceptance at the edge is a legal step: the theorem bounds it.

**MdnsSourceProofs**: `TrustedSurvivesHolds`, `TrustedProvenanceHolds`. The lemmas say what each operation of the cache
does to either store. The invariant relates an entry of the trusted store to the history `strong`: no other addresses, and
the same time of its last announcement unless its grace is over.

**OnDemandProofs**: `OutboundBudgetHolds`, `FlightsOwnedHolds`, `NoLostWakeHolds`, `SlotsBalancedHolds`. `ReqInv`
has the types and that no request holds a time that is still to come. `BudgetInv` is a balance
again: what was sent and what is left never exceed the burst and the refill up to the last use.
Tokens may be negative after a use with an earlier time, so the budget does not follow from the
balance alone; it is an invariant of its own, paid for by the token of each `Lead`.
`FlightInv` adds that a flight has one leader and that only leaders clean up: without it a clean-up
could remove a later flight of the same label. `SemInv` and `TableInv` are the two halves of `SlotsBalanced`: the lemma
`SemMove` moves one query in or out of a limiter's section, and the tables grow by one only below their bound.

**FrontEndProofs**: `LogKeepsRecentHolds`, the refinement `QSpec => RecentLog`: for every size the ring read backwards is the
last `Size` entries, newest first and without a gap. `RingInv` says that the ring is filled from slot 0, which
ties index and count to the total; a step of `Record` is then a step of the abstract log, all others stutter.
`LedgerExactHolds`, for any number of requests and slots: `LogInv` adds to the property that a request whose reply is
written and whose record is still to come will record what was sent, and states the entries by slot of the ring instead of
by age; `SlotInv` is the balance of the two limiters.

Only model-checked:

- the liveness properties (`HalfOpenResolves`, `EveryRequestEnds`, `Converges`,
  `HungIsReplaced`, `Restarts`, `ShutdownEnds`, `ViewConverges`, `QueriesEnd`, `RenewalServed`, `AnnouncementLands`): fairness is
  outside the prover;
- `WindowExact`, which needs sums over intervals by induction;
- `AppliedConverges` and `HostKeepsAddress`: the effect of a whole plan, which needs the order and number of the
  calls still to be made (`GuardedWrites` only needs each call by itself);
- the properties of `Horizon`, whose operators recurse over names.

## Not modelled

The Cloudflare client, host information, the data model, the diagnostics console and the log limiter
hold no state another part reads, or only pass calls on; their callers' models choose success or failure freely.
Of the configuration only the reverse zones are modelled, of `main` only `startEncrypted`, of network matching only
`IsForwardBlocked`: the rest runs once at start or is a predicate whose answer is an input. The watcher of
reverse zones is not wired into the daemon.

Of the server and the encrypted listeners, binding, shutdown, EDNS and truncation, HTTP cache headers and replies that fail to be packed or written are left out; so are
the exchange on the wire and message sanitising. Of `splitdns-notify`, flag parsing, key generation, socket
activation, the layout of packets and exit codes. Of mDNS, parsing, discovery queries and sockets; of on-demand resolution,
callers without an address (every listener has one). A query of `OnDemand` that is answered or forwarded
gives its slot back in the step of its lookup; `FrontEnd` has the steps in between.

Two compositions are out of reach of a run: `Mirror` with a builder that the supervisor has abandoned, and
`MdnsSource` with `Ddns` (what becomes of a change that the rate guards refused). `PROJECT.json` lists both among the hazards,
and gives the reason per part.
