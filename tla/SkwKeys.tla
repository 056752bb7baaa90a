------------------------------- MODULE SkwKeys -------------------------------
(***************************************************************************)
(* skwifi's keys: cfg80211 adds, deletes and selects them, the driver      *)
(* keeps a table for the interface and two for its peer, the firmware has  *)
(* its own.  The receive thread checks packet numbers against the tables   *)
(* while a call changes them.                                              *)
(***************************************************************************)
EXTENDS Integers, Sequences, FiniteSets

CONSTANTS
    KeyIdx,         \* key indices
    MaxKeys,        \* bound: keys made
    MaxKeyCalls,    \* bound: other calls, joins and leaves
    MaxKeyRefused,  \* bound: refused commands
    MaxPn           \* bound: frames the peer sends

ASSUME KeyConstants == /\ KeyIdx \subseteq Nat /\ IsFiniteSet(KeyIdx)
                       /\ {MaxKeys, MaxKeyCalls, MaxKeyRefused, MaxPn} \subseteq Nat

Confs == {"iface", "ptk", "gtk"}    \* iface->key_conf, peer->ptk_conf, peer->gtk_conf
OfPeer == {"ptk", "gtk"}
Slots == (Confs \cup {"unicast"}) \X KeyIdx     \* of the firmware
Ids == 1 .. MaxKeys
NoKey == 0

VARIABLES
    conf,       \* the tables: cipher, key and rx_pn by index, installed_bitmap, the flag WEP_SHARE
    keyPeer,    \* ctx->peer
    call,       \* the call under way, between its first step and the firmware's answer
    fwkeys,     \* the key in each of the firmware's slots
    fwpeer,     \* the firmware has the peer
    sender,     \* the peer's pairwise key and the packet number it uses next
    air,        \* frames on their way: key and packet number
    look,       \* the index the receive thread has found, or -1
    keySeen,    \* the highest number accepted under each key, and what went wrong (ghost)
    keyFuel

KeyVars == <<conf, keyPeer, call, fwkeys, fwpeer, sender, air, look, keySeen, keyFuel>>

NoCall == [at |-> "idle", c |-> "iface", i |-> 0, id |-> NoKey, both |-> FALSE]
EmptyConf == [cipher |-> "none", key |-> [i \in KeyIdx |-> NoKey], rx_pn |-> [i \in KeyIdx |-> 0],
              bitmap |-> {}, wep_share |-> FALSE]

KeyInit ==
    /\ conf = [c \in Confs |-> EmptyConf] /\ keyPeer = FALSE /\ call = NoCall
    /\ fwkeys = [s \in Slots |-> NoKey] /\ fwpeer = FALSE
    /\ sender = [id |-> NoKey, pn |-> 0] /\ air = <<>> /\ look = -1
    /\ keySeen = [top |-> [k \in Ids |-> 0], back |-> FALSE, refused |-> FALSE, mixed |-> FALSE, lost |-> FALSE]
    /\ keyFuel = [keys |-> 0, calls |-> MaxKeyCalls, refused |-> MaxKeyRefused, pn |-> MaxPn]

keyRx == <<sender, air, look>>
KeyCall == keyFuel.calls > 0 /\ keyFuel' = [keyFuel EXCEPT !.calls = @ - 1]
KeyRefused == /\ keyFuel.refused > 0 /\ keyFuel' = [keyFuel EXCEPT !.refused = @ - 1]
              /\ keySeen' = [keySeen EXCEPT !.refused = TRUE]

----------------------------------------------------------------------------
(* cfg80211's calls.  They hold the wiphy's lock, so there is one at a time; a call about a
   peer holds the peer's lock as well. *)

(* Fault: a new key keeps the packet number of the old one. *)
skw_set_key_pn(c, i, cipher, id) ==
    conf' = [conf EXCEPT ![c] = [cipher |-> cipher, key |-> [@.key EXCEPT ![i] = id],
                                 rx_pn |-> @.rx_pn,
                                 bitmap |-> @.bitmap \cup {i},
                                 wep_share |-> @.wep_share \/ cipher = "wep"]]

(* skw_set_key up to its command: the key is in the table, and checked against, at once. *)
skw_set_key(c, i, cipher, id) ==
    conf' = [conf EXCEPT ![c] = [cipher |-> cipher, key |-> [@.key EXCEPT ![i] = id],
                                 rx_pn |-> [@.rx_pn EXCEPT ![i] = 0],
                                 bitmap |-> @.bitmap \cup {i},
                                 wep_share |-> @.wep_share \/ cipher = "wep"]]

(* WEP keys stay in the driver until they are selected or a station joins.  A network has WEP
   keys or others, never both. *)
skw_add_key(c, i, cipher) ==
    /\ call = NoCall /\ keyFuel.keys < MaxKeys
    /\ c \in OfPeer => keyPeer
    /\ cipher = "wep" => c = "iface"
    /\ conf[c].bitmap # {} => cipher = conf[c].cipher
    /\ keyFuel' = [keyFuel EXCEPT !.keys = @ + 1]
    /\ skw_set_key(c, i, cipher, keyFuel.keys + 1)
    /\ call' = IF cipher = "wep" THEN NoCall
               ELSE [at |-> "add", c |-> c, i |-> i, id |-> keyFuel.keys + 1, both |-> FALSE]
    /\ UNCHANGED <<keyPeer, fwkeys, fwpeer, keyRx, keySeen>>

(* A table entry is cleared. *)
Cleared(c, i) == [conf EXCEPT ![c].key[i] = NoKey, ![c].rx_pn[i] = 0, ![c].bitmap = @ \ {i}]

(* The answer.  After a refusal, or when the answer is lost, the table has no key at all: not
   the new one, and not the one it replaced. *)
skw_cmd_add_key ==
    /\ call.at = "add"
    /\ call' = NoCall
    /\ \/ /\ call.c \in OfPeer => fwpeer
          /\ fwkeys' = [fwkeys EXCEPT ![<<call.c, call.i>>] = call.id]
          /\ UNCHANGED <<conf, keySeen, keyFuel>>
       \/ /\ KeyRefused
          /\ fwkeys' \in {fwkeys, [fwkeys EXCEPT ![<<call.c, call.i>>] = call.id]}
          /\ conf' = Cleared(call.c, call.i)
       \/ /\ call.c \in OfPeer /\ ~fwpeer
          /\ conf' = Cleared(call.c, call.i)
          /\ UNCHANGED <<fwkeys, keySeen, keyFuel>>
    /\ UNCHANGED <<keyPeer, fwpeer, keyRx>>

(* skw_del_key: DEL_KEY only for an installed index ... *)
skw_del_key(c, i) ==
    /\ call = NoCall /\ KeyCall
    /\ c \in OfPeer => keyPeer
    /\ i \in conf[c].bitmap
    /\ call' = [at |-> "del", c |-> c, i |-> i, id |-> NoKey, both |-> FALSE]
    /\ UNCHANGED <<conf, keyPeer, fwkeys, fwpeer, keyRx, keySeen>>

(* ... and whatever the answer the key is gone from the table. *)
skw_remove_key ==
    /\ call.at = "del"
    /\ call' = NoCall
    /\ conf' = [Cleared(call.c, call.i) EXCEPT ![call.c].wep_share = FALSE]
    /\ \/ fwkeys' = [fwkeys EXCEPT ![<<call.c, call.i>>] = NoKey] /\ UNCHANGED <<keySeen, keyFuel>>
       \/ KeyRefused /\ UNCHANGED fwkeys
    /\ UNCHANGED <<keyPeer, fwpeer, keyRx>>

(* skw_set_default_key: the interface's key for unicast, then for multicast. *)
skw_set_default_key(i, unicast, multicast) ==
    /\ call = NoCall /\ KeyCall
    /\ i \in conf["iface"].bitmap /\ conf["iface"].key[i] # NoKey
    /\ unicast \/ multicast
    /\ call' = [at |-> IF unicast THEN "unicast" ELSE "multicast", c |-> "iface", i |-> i,
                id |-> conf["iface"].key[i], both |-> unicast /\ multicast]
    /\ UNCHANGED <<conf, keyPeer, fwkeys, fwpeer, keyRx, keySeen>>

DefaultKeyAnswered ==
    /\ call.at \in {"unicast", "multicast"}
    /\ \/ /\ fwkeys' = [fwkeys EXCEPT ![<<IF call.at = "unicast" THEN "unicast" ELSE "iface", call.i>>] = call.id]
          /\ call' = IF call.both THEN [call EXCEPT !.at = "multicast", !.both = FALSE] ELSE NoCall
          /\ UNCHANGED <<keySeen, keyFuel>>
       \/ KeyRefused /\ call' = NoCall /\ UNCHANGED fwkeys
    /\ UNCHANGED <<conf, keyPeer, fwpeer, keyRx>>

----------------------------------------------------------------------------
(* The peer comes and goes. *)

(* skw_key_idx: the installed index if there is exactly one. *)
skw_key_idx(bitmap) == IF Cardinality(bitmap) = 1 THEN CHOOSE i \in bitmap : TRUE ELSE -1

(* skw_set_sta_wep_key, when a station is added. *)
skw_set_sta_wep_key ==
    LET i == skw_key_idx(conf["iface"].bitmap)
    IN IF conf["iface"].wep_share /\ i # -1
         THEN fwkeys' = [fwkeys EXCEPT ![<<"unicast", i>>] = conf["iface"].key[i]]
         ELSE UNCHANGED fwkeys

Join ==
    /\ call = NoCall /\ ~keyPeer /\ ~fwpeer /\ KeyCall
    /\ keyPeer' = TRUE /\ fwpeer' = TRUE
    /\ skw_set_sta_wep_key
    /\ UNCHANGED <<conf, call, keyRx, keySeen>>

(* The firmware drops the peer, with its keys; the driver hears of it later. *)
FirmwareDropsPeer ==
    /\ fwpeer /\ fwpeer' = FALSE
    /\ fwkeys' = [s \in Slots |-> IF s[1] \in OfPeer THEN NoKey ELSE fwkeys[s]]
    /\ sender' = [id |-> NoKey, pn |-> 0]
    /\ UNCHANGED <<conf, keyPeer, call, air, look, keySeen, keyFuel>>

(* skw_peer_free, under the peer's lock: its tables are purged.  Frames still on their way find
   no peer. *)
skw_peer_free ==
    /\ keyPeer /\ ~fwpeer /\ ~(call # NoCall /\ call.c \in OfPeer)
    /\ keyPeer' = FALSE /\ air' = <<>> /\ look' = -1
    /\ conf' = [c \in Confs |-> IF c \in OfPeer THEN EmptyConf ELSE conf[c]]
    /\ UNCHANGED <<call, fwkeys, fwpeer, sender, keySeen, keyFuel>>

(* Leaving the network, or the end of the access point: the interface's table is purged, and the
   firmware forgets the interface's keys with the network. *)
skw_purge_key_conf ==
    /\ call = NoCall /\ ~keyPeer /\ KeyCall
    /\ conf' = [conf EXCEPT !["iface"] = EmptyConf]
    /\ fwkeys' = [s \in Slots |-> IF s[1] \in OfPeer THEN fwkeys[s] ELSE NoKey]
    /\ UNCHANGED <<keyPeer, call, fwpeer, keyRx, keySeen>>

----------------------------------------------------------------------------
(* Receiving. *)

keyTables == <<keyPeer, call, fwkeys, fwpeer>>

(* The peer uses the newest pairwise key the firmware has, from packet number 1 on. *)
PeerRekeys ==
    /\ fwpeer /\ \E i \in KeyIdx : /\ fwkeys[<<"ptk", i>>] > sender.id
                                   /\ sender' = [id |-> fwkeys[<<"ptk", i>>], pn |-> 1]
    /\ UNCHANGED <<keyTables, conf, air, look, keySeen, keyFuel>>

(* A frame, or one that was already sent, once more. *)
PeerSends ==
    /\ fwpeer /\ sender.id # NoKey /\ keyFuel.pn > 0 /\ Len(air) < 2
    /\ keyFuel' = [keyFuel EXCEPT !.pn = @ - 1]
    /\ \E pn \in 1 .. sender.pn :
         /\ air' = Append(air, [id |-> sender.id, pn |-> pn])
         /\ sender' = [sender EXCEPT !.pn = IF pn = @ THEN @ + 1 ELSE @]
    /\ UNCHANGED <<keyTables, conf, look, keySeen>>

(* skw_replay_detect: the index of the only installed key, or no check at all; ... *)
ReplayLooks ==
    /\ look = -1 /\ air # <<>> /\ keyPeer
    /\ LET i == skw_key_idx(conf["ptk"].bitmap)
       IN IF i = -1
            THEN air' = Tail(air) /\ UNCHANGED look
            ELSE look' = i /\ UNCHANGED air
    /\ UNCHANGED <<keyTables, conf, sender, keySeen, keyFuel>>

(* ... a number below the last is refused, the same one is not: the subframes of an A-MSDU
   share theirs.  0 is let through as well; the peer here starts at 1. *)
skw_pn_allowed(pn, rx_pn) == pn >= rx_pn

(* ... then the key in the table, if it is still there.  Which key the frame was encrypted with
   is not looked at. *)
ReplayChecks ==
    /\ look # -1
    /\ LET f == Head(air)
           id == conf["ptk"].key[look]
           new == f.pn > keySeen.top[f.id]
           allowed == skw_pn_allowed(f.pn, conf["ptk"].rx_pn[look])
       IN IF id = NoKey
            THEN UNCHANGED <<conf, keySeen>>
            ELSE /\ conf' = IF allowed THEN [conf EXCEPT !["ptk"].rx_pn[look] = f.pn] ELSE conf
                 /\ keySeen' = [keySeen EXCEPT
                        !.top[f.id] = IF allowed /\ new /\ id = f.id THEN f.pn ELSE @,
                        !.back = @ \/ (allowed /\ id = f.id /\ f.pn < keySeen.top[f.id]),
                        !.mixed = @ \/ (allowed /\ id # f.id),
                        !.lost = @ \/ (~allowed /\ id = f.id /\ new)]
    /\ look' = -1 /\ air' = Tail(air)
    /\ UNCHANGED <<keyTables, sender, keyFuel>>

----------------------------------------------------------------------------
KeyNext ==
    \/ \E c \in Confs, i \in KeyIdx : \/ \E cipher \in {"wep", "ccmp"} : skw_add_key(c, i, cipher)
                                      \/ skw_del_key(c, i)
    \/ skw_cmd_add_key
    \/ skw_remove_key
    \/ \E i \in KeyIdx, u, m \in BOOLEAN : skw_set_default_key(i, u, m)
    \/ DefaultKeyAnswered
    \/ Join
    \/ FirmwareDropsPeer
    \/ skw_peer_free
    \/ skw_purge_key_conf
    \/ PeerRekeys
    \/ PeerSends
    \/ ReplayLooks
    \/ ReplayChecks

KeySpec == KeyInit /\ [][KeyNext]_KeyVars

----------------------------------------------------------------------------
KnownConfs == {c \in Confs : c = "iface" \/ (keyPeer /\ fwpeer)}

(* Between calls every key of a table is the one the firmware uses in its place (WEP keys are
   handed over later); and as long as no command was refused the firmware has no other.  The
   tables of a peer that is gone are empty (skw_set_key, skw_remove_key, skw_peer_free). *)
KeysInStep ==
    /\ \A c \in Confs : conf[c].bitmap = {i \in KeyIdx : conf[c].key[i] # NoKey}
    /\ ~keyPeer => \A c \in OfPeer : conf[c] = EmptyConf
    /\ call = NoCall => \A c \in KnownConfs, i \in KeyIdx :
          conf[c].cipher # "wep" =>
             /\ conf[c].key[i] # NoKey => fwkeys[<<c, i>>] = conf[c].key[i]
             /\ ~keySeen.refused => fwkeys[<<c, i>>] = conf[c].key[i]

(* The packet numbers of what is checked against a key and accepted never go back, whatever is
   installed, deleted and refused meanwhile (skw_replay_detect).  Nothing is checked while two
   pairwise keys are installed, or none. *)
KeysNoReplay == ~keySeen.back

(* A new frame under the installed key is refused only if a frame of an earlier key had been
   counted on that key before (skw_replay_detect updates rx_pn without asking for the key). *)
KeysNewAccepted == keySeen.lost => keySeen.mixed

(* The key tables are those of the firmware, replays are refused and new frames are not. *)
KeysSafe == KeysInStep /\ KeysNoReplay /\ KeysNewAccepted
=============================================================================
