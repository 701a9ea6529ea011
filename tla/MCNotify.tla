------------------------------ MODULE MCNotify ------------------------------
(***************************************************************************)
(* Two announcements, and room for one MAC.  The relay is in the notify    *)
(* group, an admin in notify_uids, and a guest of the socket's own group   *)
(* may connect but is refused.  Machines: time passes for an admin who     *)
(* signs and only multicasts, with a clock that is right or the fudge      *)
(* ahead; elsewhere it stands still, with clients that are behind:         *)
(* everyone goes by a config with a key; a key in the daemon's config,     *)
(* with clients that do not sign and a relay that does not use the socket; *)
(* a key of an unknown algorithm, with clients that name a config that is  *)
(* not there and do not multicast; a secret that is not base64.            *)
(***************************************************************************)
EXTENDS Notify, TLC

MCGroupsOf == [relay |-> {"notify"}, guest |-> {"splitdns"}, admin |-> {"splitdns"}]
MCKeys == [k1 |-> "s1"]
MCCandidates == <<"notify.toml", "splitdnsd.toml">>

Flags == [config |-> None, socket |-> None, noSocket |-> FALSE, key |-> None,
          secret |-> None, noTSIG |-> FALSE, servers |-> {}, multicast |-> TRUE]
Signing == [socket |-> None, key |-> "k1", secret |-> "s1", algo |-> None,
            servers |-> {"resolver", "unresolvable"}]
Named(f, relayFlags) == [u \in Uids |-> IF u = Relay THEN relayFlags ELSE f]

Timed == [users |-> {"admin"}, leads |-> 0 .. 1, junk |-> 0, stops |-> {}, moments |-> 5]
Lines == [users |-> Uids, leads |-> {-1}, junk |-> 1, stops |-> {"relay", "daemon"}, moments |-> 0]

MCSetups ==
    {[files |-> ("notify.toml" :> Signing),
      flags |-> Named([Flags EXCEPT !.noSocket = TRUE], Flags), bound |-> Timed],
     [files |-> ("notify.toml" :> Signing),
      flags |-> Named(Flags, Flags), bound |-> Lines],
     [files |-> ("splitdnsd.toml" :> [Signing EXCEPT !.socket = DaemonSocket]),
      flags |-> Named([Flags EXCEPT !.noTSIG = TRUE], [Flags EXCEPT !.noSocket = TRUE]), bound |-> Lines],
     [files |-> ("notify.toml" :> [Signing EXCEPT !.algo = "hmac-md5"]),
      flags |-> Named([Flags EXCEPT !.config = "missing", !.multicast = FALSE], Flags), bound |-> Lines],
     [files |-> ("notify.toml" :> [Signing EXCEPT !.secret = Garbled]),
      flags |-> Named(Flags, Flags), bound |-> Lines]}
=============================================================================
