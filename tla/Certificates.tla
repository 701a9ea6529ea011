---------------------------- MODULE Certificates ----------------------------
(***************************************************************************)
(* internal/encrypted and startEncrypted of cmd/splitdnsd: the certificate *)
(* of the DoT and DoH listeners, its reload by the poll of the file's time *)
(* and by SIGHUP, in two goroutines, and the DDR advert that follows it.   *)
(* Both goroutines are started only where DDR is advertised.               *)
(*                                                                         *)
(* Version v of the pair is a certificate, a key and an expiry.  A renewal *)
(* writes the two files in either order.                                   *)
(***************************************************************************)
EXTENDS Integers

CONSTANTS
    NotAfter,       \* the expiry of each version
    Configured,     \* encrypted transports that are enabled
    MaxSignals,     \* bound on SIGHUPs
    MaxClock        \* bound on the clock

VARIABLES
    clock,
    certFile, keyFile,  \* the versions on disk; a version is also the file's time
    cur,                \* the certificate in service
    advertise,          \* AdvertiseDDR
    last,               \* the time the poll last saw; 0 before Run has looked
    hup,                \* is there a signal in the channel?
    worker,             \* the two goroutines: [pc, cert, adv]
    signals,            \* SIGHUPs sent so far
    asked,              \* history: the pair that was complete at the last SIGHUP
    up,                 \* the listeners
    ddr                 \* the advert, published with the snapshot: its transports

fileVars == <<certFile, keyFile>>
hupVars == <<hup, signals, asked>>
certVars == <<clock, fileVars, cur, advertise, last, hupVars, worker, up, ddr>>

Versions == DOMAIN NotAfter
Workers == {"poll", "hup"}

\* Valid: strictly before the expiry.
Valid(version) == clock < NotAfter[version]

\* startEncrypted, with a valid first pair: each listener may fail to bind, the advert
\* is synchronized once.
CInit ==
    /\ clock = 0
    /\ certFile = 1 /\ keyFile = 1 /\ cur = 1 /\ last = 0
    /\ hup = FALSE /\ signals = 0 /\ asked = 0
    /\ worker = [w \in Workers |-> [pc |-> "idle", cert |-> 1, adv |-> {}]]
    /\ advertise \in BOOLEAN
    /\ up \in SUBSET Configured
    /\ ddr = IF advertise /\ Valid(1) THEN up ELSE {}

\* Do the two goroutines run?
Reloads == advertise /\ up # {}

Tick ==
    /\ clock < MaxClock /\ clock' = clock + 1
    /\ UNCHANGED <<fileVars, cur, advertise, last, hupVars, worker, up, ddr>>

\* The operator or the ACME client renews the pair, one file after the other.
WriteKey ==
    /\ keyFile <= certFile /\ keyFile + 1 \in Versions
    /\ keyFile' = keyFile + 1
    /\ UNCHANGED <<clock, certFile, cur, advertise, last, hupVars, worker, up, ddr>>
WriteCert ==
    /\ certFile <= keyFile /\ certFile + 1 \in Versions
    /\ certFile' = certFile + 1
    /\ UNCHANGED <<clock, keyFile, cur, advertise, last, hupVars, worker, up, ddr>>

StartReload(w) == worker[w].pc = "idle" /\ worker' = [worker EXCEPT ![w].pc = "cert"]

\* Run begins with the time the file has by now, which may be later than the first load.
Watch ==
    /\ Reloads /\ last = 0
    /\ last' = certFile
    /\ UNCHANGED <<clock, fileVars, cur, advertise, hupVars, worker, up, ddr>>

\* A tick of Run: the time is noted before the reload.
Poll ==
    /\ last \notin {0, certFile} /\ StartReload("poll")
    /\ last' = certFile
    /\ UNCHANGED <<clock, fileVars, cur, advertise, hupVars, up, ddr>>

\* Mutant: the channel has no room, and a signal is lost while the goroutine is busy.
QueuedUnbuffered == worker["hup"].pc = "idle"
\* The channel has room for one signal.
Queued == TRUE

\* SIGHUP is sent, where it is caught.
Sighup ==
    /\ Reloads /\ signals < MaxSignals
    /\ signals' = signals + 1
    /\ hup' = (hup \/ Queued)
    /\ asked' = IF certFile = keyFile THEN certFile ELSE asked
    /\ UNCHANGED <<clock, fileVars, cur, advertise, last, worker, up, ddr>>

ReloadNow ==
    /\ hup /\ StartReload("hup")
    /\ hup' = FALSE
    /\ UNCHANGED <<clock, fileVars, cur, advertise, last, signals, asked, up, ddr>>

\* loadValidCert.
Loadable(cert, key) == cert = key /\ clock <= NotAfter[cert]

\* LoadX509KeyPair reads the certificate, ...
ReadCert(w) ==
    /\ worker[w].pc = "cert"
    /\ worker' = [worker EXCEPT ![w].pc = "key", ![w].cert = certFile]
    /\ UNCHANGED <<clock, fileVars, cur, advertise, last, hupVars, up, ddr>>

\* ... then the key; a pair that is not valid leaves the certificate in service.
ReadKey(w) ==
    /\ worker[w].pc = "key"
    /\ worker' = [worker EXCEPT ![w].pc = IF Loadable(worker[w].cert, keyFile) THEN "swap" ELSE "sync"]
    /\ UNCHANGED <<clock, fileVars, cur, advertise, last, hupVars, up, ddr>>

\* The pair that was read is put in service, whatever is there by now.
Reload(w) ==
    /\ worker[w].pc = "swap"
    /\ cur' = worker[w].cert
    /\ worker' = [worker EXCEPT ![w].pc = "sync"]
    /\ UNCHANGED <<clock, fileVars, advertise, last, hupVars, up, ddr>>

\* resync decides on the advert ...
Resync(w) ==
    /\ worker[w].pc = "sync"
    /\ worker' = [worker EXCEPT ![w] = [pc |-> "store", cert |-> 1, adv |-> IF Valid(cur) THEN up ELSE {}]]
    /\ UNCHANGED <<clock, fileVars, cur, advertise, last, hupVars, up, ddr>>

\* ... and stores and republishes it.
Store(w) ==
    /\ worker[w].pc = "store"
    /\ ddr' = worker[w].adv
    /\ worker' = [worker EXCEPT ![w].pc = "idle", ![w].adv = {}]
    /\ UNCHANGED <<clock, fileVars, cur, advertise, last, hupVars, up>>

Work(w) == ReadCert(w) \/ ReadKey(w) \/ Reload(w) \/ Resync(w) \/ Store(w)

\* GetCertificate: the handshake of a listener.
Handshake(transport) == transport \in up /\ clock <= NotAfter[cur]

\* What the daemon's goroutines do by themselves.
Goroutines == Watch \/ Poll \/ ReloadNow \/ \E w \in Workers : Work(w)
CNext == Tick \/ WriteKey \/ WriteCert \/ Sighup \/ Goroutines

----------------------------------------------------------------------------
\* The pair on disk is version v, complete and not expired.
AtRest(v) == certFile = v /\ keyFile = v /\ clock <= NotAfter[v]

\* A SIGHUP after both files of a renewal are written puts the pair in service for good,
\* though the poll failed between the writes, the reload of one goroutine overtakes
\* the other's, or the signal comes during a reload.  A file change alone brings the
\* pair into service once, if the poll has not noted the time of the certificate before
\* its key was there.
RenewalServed ==
    \A v \in Versions :
        /\ <>[](AtRest(v) /\ asked = v) => <>[](cur = v)
        /\ (AtRest(v) /\ last \notin {0, v}) ~> (cur = v \/ ~AtRest(v))
=============================================================================
