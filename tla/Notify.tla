------------------------------- MODULE Notify -------------------------------
(***************************************************************************)
(* splitdns-notify and the resolver's two ears for it.  A client announces *)
(* a host itself (OneShot), or hands the line to a relay that announces it *)
(* (SendToRelay, RelayRead); an announcement goes over the notify socket,  *)
(* whose peers the kernel names, and as UDP packets that may be lost,      *)
(* copied and reordered.  What reaches Source.HandlePacket, and with which *)
(* trust, is what this module is about; MdnsSource says what comes next.   *)
(***************************************************************************)
EXTENDS SigVerifier, Sequences

CONSTANTS
    Uids, Root, Daemon,     \* users; the superuser and the daemon's own
    GroupsOf,               \* the group database, gids by uid
    NotifyUids,             \* notify_uids
    NotifyGroups,           \* notify_groups
    SocketGroup,            \* the group of the socket file
    Mode,                   \* classes the mode of the socket lets write
    AclSupported,           \* does the file system store the ACL?
    DaemonSocket,           \* the daemon's notify socket, also the default path
    Keys,                   \* secrets the resolver verifies with, by key name
    Candidates,             \* where a config is looked for, in order
    Setups,                 \* machines: files, command lines and the bounds to go with them
    Relay                   \* the user the relay runs as

VARIABLES
    ann,        \* each user's delivery config
    bound,      \* bounds of the machine: users who announce, leads of their clocks, lines of
                \* noise, processes that may be told to stop, the clock
    inbox,      \* datagrams the relay has not read
    junk,       \* lines of noise sent so far
    relay,      \* does relayLoop run?
    conns,      \* connections to the notify socket, not yet accepted
    listening,  \* does NotifySocket.Run run?
    stopped,    \* processes told to stop
    wire,       \* announcements with a UDP packet on the way
    tried,      \* history: lines that the relay has announced or failed to
    claimed,    \* history: <<announcement, user>> written to the notify socket
    unresolved, \* history: announcements refused because the group lookup failed
    landed      \* announcements handled with strong trust

relayVars == <<inbox, junk, relay, tried>>
socketVars == <<conns, listening, stopped, claimed, unresolved, landed>>
notifyVars == <<ann, bound, wire, relayVars, socketVars>>
vars == <<sigVars, notifyVars>>

Noise == "noise"
None == ""
Garbled == "not base64"

-----------------------------------------------------------------------------
\* The delivery config of a command line f on a machine with these files.

NoConfig == [socket |-> None, key |-> None, secret |-> None, algo |-> None, servers |-> {}]

\* A named file that does not load is no config; an unnamed one is passed over.
loadNotifyConfig(f, files) ==
    LET found == SelectSeq(Candidates, LAMBDA p : p \in DOMAIN files) IN
    IF f.config # None
    THEN IF f.config \in DOMAIN files THEN files[f.config] ELSE NoConfig
    ELSE IF found = <<>> THEN NoConfig ELSE files[Head(found)]

effectiveSocket(flag, cfg) ==
    IF flag # None THEN flag ELSE IF cfg # None THEN cfg ELSE DaemonSocket

Or(flag, cfg) == IF flag # None THEN flag ELSE cfg

\* Unresolvable servers are dropped; multicast reaches the resolver's segment.
buildTargets(servers, multicast) ==
    {s \in servers : s # "unresolvable"} \cup (IF multicast THEN {"multicast"} ELSE {})

announcer(f, files) ==
    LET cfg == loadNotifyConfig(f, files) IN
    [socket |-> IF f.noSocket THEN None ELSE effectiveSocket(f.socket, cfg.socket),
     key |-> Or(f.key, cfg.key), secret |-> Or(f.secret, cfg.secret), algo |-> cfg.algo,
     noTSIG |-> f.noTSIG,
     targets |-> buildTargets(IF f.servers = {} THEN cfg.servers ELSE f.servers, f.multicast)]

Signs(a) == ~a.noTSIG /\ a.key # None /\ a.secret # None
\* An algorithm that tsigAlgorithm does not know stops send before any path is tried.
tsigAlgorithm(algo) ==
    IF algo = None THEN "hmac-sha256"
    ELSE IF algo \in {"hmac-sha256", "hmac-sha512", "hmac-sha1"} THEN algo ELSE None
\* So does a secret that is not base64.
Packs(a) == Signs(a) => tsigAlgorithm(a.algo) # None /\ a.secret # Garbled
\* Can the resolver check what a signs?
Verifiable(a) == Signs(a) /\ a.key \in DOMAIN Keys /\ Keys[a.key] = a.secret

-----------------------------------------------------------------------------
\* Who may write to the notify socket, and whom the daemon then believes.

\* The kernel's answer to connect: the mode, and the ACL that WithGroups stamps, in which
\* the mode's group bits cap what the named groups get.
AclGroups == IF AclSupported THEN NotifyGroups ELSE {}
Connects(uid) ==
    \/ uid = Root
    \/ LET class == IF uid = Daemon THEN "user"
                    ELSE IF GroupsOf[uid] \cap ({SocketGroup} \cup AclGroups) # {} THEN "group"
                    ELSE "other"
       IN class \in Mode

AllowUID(uid) == uid \in {Root, Daemon} \cup NotifyUids
\* The group database may not have the user, or may not be readable.
authorized(uid, found) == AllowUID(uid) \/ (found /\ GroupsOf[uid] \cap NotifyGroups # {})

\* May the packet be written?  Also then dial and write can fail, by their deadlines.
sendUnix(uid) == ann[uid].socket = DaemonSocket /\ listening /\ Connects(uid)

-----------------------------------------------------------------------------
Init ==
    /\ SInit
    /\ \E m \in Setups : /\ ann = [u \in Uids |-> announcer(m.flags[u], m.files)]
                         /\ bound = m.bound
    /\ inbox = <<>> /\ junk = 0 /\ relay = TRUE /\ tried = {}
    /\ conns = <<>> /\ listening = TRUE /\ stopped = {} /\ wire = {}
    /\ claimed = {} /\ unresolved = {} /\ landed = {}

Queued(id) == \E i \in DOMAIN inbox : inbox[i] = id
Fresh(id) == id \notin signed \cup wire \cup tried \cup {c[1] : c \in claimed} /\ ~Queued(id)

\* announcer.send for a user: one message, signed once, over the socket and to every
\* target; any of these may fail.
Send(id, uid) ==
    LET a == ann[uid] IN
    /\ IF Packs(a) /\ Verifiable(a)
       THEN \E ahead \in bound.leads : Sign(id, ahead)
       ELSE UNCHANGED sigVars
    /\ \/ /\ Packs(a) /\ sendUnix(uid)
          /\ conns' = Append(conns, [id |-> id, uid |-> uid])
          /\ claimed' = claimed \cup {<<id, uid>>}
       \/ UNCHANGED <<conns, claimed>>
    /\ \E reached \in SUBSET a.targets :
          wire' = IF Packs(a) /\ reached # {} THEN wire \cup {id} ELSE wire

\* A client announces by itself: it reports the socket as "authenticated" once it could
\* write to it.
OneShot(id, uid) ==
    /\ Fresh(id) /\ uid \in bound.users \ {Relay}
    /\ Send(id, uid)
    /\ UNCHANGED <<ann, bound, relayVars, listening, stopped, unresolved, landed>>

\* -relay: the line is one datagram, and the client exits with 0 once it is queued.
sendToRelay(id) ==
    /\ Fresh(id) /\ relay /\ Relay \in bound.users
    /\ inbox' = Append(inbox, id)
    /\ UNCHANGED <<sigVars, ann, bound, junk, relay, tried, wire, socketVars>>

\* Another writer's line that is empty, too short or without a valid address.
SendNoise ==
    /\ junk < bound.junk /\ relay
    /\ junk' = junk + 1
    /\ inbox' = Append(inbox, Noise)
    /\ UNCHANGED <<sigVars, ann, bound, relay, tried, wire, socketVars>>

\* Mutant: a line that cannot be parsed ends the loop.
MalformedFatal == relay' = FALSE
\* relayLoop goes on after a line it cannot parse.
Malformed == UNCHANGED relay

\* One round of relayLoop: a failed delivery is counted and not tried again.
RelayRead ==
    /\ relay /\ inbox # <<>>
    /\ inbox' = Tail(inbox)
    /\ IF Head(inbox) = Noise
       THEN Malformed /\ UNCHANGED <<sigVars, conns, claimed, wire, tried>>
       ELSE Send(Head(inbox), Relay) /\ tried' = tried \cup {Head(inbox)} /\ UNCHANGED relay
    /\ UNCHANGED <<ann, bound, junk, listening, stopped, unresolved, landed>>

\* SIGTERM closes the relay's socket: unread lines are lost.
StopRelay ==
    /\ relay /\ "relay" \in bound.stops
    /\ relay' = FALSE /\ inbox' = <<>> /\ stopped' = stopped \cup {"relay"}
    /\ UNCHANGED <<sigVars, ann, bound, junk, tried, wire, conns, listening, claimed, unresolved, landed>>

\* One round of NotifySocket.Run: handle asks for the peer's uid before it reads.
Accept ==
    /\ listening /\ conns # <<>>
    /\ conns' = Tail(conns)
    /\ \E found \in BOOLEAN :
          LET peer == Head(conns) IN
          /\ landed' = IF authorized(peer.uid, found) THEN landed \cup {peer.id} ELSE landed
          /\ unresolved' = IF AllowUID(peer.uid) \/ found THEN unresolved
                           ELSE unresolved \cup {peer.id}
    /\ UNCHANGED <<sigVars, ann, bound, relayVars, wire, listening, stopped, claimed>>

\* Shutdown closes the listener, with the connections nobody accepted, and Run returns.
StopDaemon ==
    /\ listening /\ "daemon" \in bound.stops
    /\ listening' = FALSE /\ conns' = <<>> /\ stopped' = stopped \cup {"daemon"}
    /\ UNCHANGED <<sigVars, ann, bound, relayVars, wire, claimed, unresolved, landed>>

\* readLoop on a copy of a packet: a signature that verifies makes it strong.  Other packets
\* have weak trust or none, by their source and require_signature (MdnsSource).
Receive(l) ==
    /\ listening
    /\ \/ (\E id \in wire : TsigVerify(l, id)) /\ UNCHANGED landed
       \/ ReadNow(l) /\ UNCHANGED landed
       \/ FreshMAC(l) /\ landed' = landed \cup {loop[l].id}
       \/ Replayed(l) /\ UNCHANGED landed
    /\ UNCHANGED <<ann, bound, relayVars, wire, conns, listening, stopped, claimed, unresolved>>

\* The clock matters while the daemon runs.
Pass == sec * Parts + part < bound.moments /\ listening /\ STick /\ UNCHANGED notifyVars

Next ==
    \/ \E id \in Ids : sendToRelay(id) \/ \E uid \in Uids : OneShot(id, uid)
    \/ \E l \in Loops : Receive(l)
    \/ SendNoise \/ RelayRead \/ StopRelay \/ Accept \/ StopDaemon \/ Pass

Spec == Init /\ [][Next]_vars
\* Both loops run until their socket is closed.
FairSpec == Spec /\ WF_vars(RelayRead) /\ WF_vars(Accept)

\* Every line that a client of the relay got rid of is announced, or failed, in the end,
\* whatever lines the relay could make nothing of and whatever failures came before it,
\* unless the relay was told to stop.  What a user of notify_uids or of a notify group
\* could write to the notify socket, the relay's writes included, is handled with strong
\* trust in the end, though refused peers are in the queue before it, unless the daemon
\* was told to stop or the group lookup failed for a member of the group.
AnnouncementLands ==
    \A id \in Ids :
        /\ Queued(id) ~> (id \in tried \/ "relay" \in stopped)
        /\ \A uid \in Uids :
              (<<id, uid>> \in claimed /\ authorized(uid, TRUE)) ~>
                 (id \in landed \/ "daemon" \in stopped \/ (~AllowUID(uid) /\ id \in unresolved))
=============================================================================
