--------------------------- MODULE SkwTablesProofs ---------------------------
(***************************************************************************)
(* The key tables of the WiFi driver, for every number of indices, keys,   *)
(* calls and refused commands.  TLC checks KeysSafe on two indices.  The   *)
(* invariant adds what a call under way may have left apart (CallInv,      *)
(* TableInv) and how the numbers counted in a table relate to those        *)
(* accepted under its key (ReplayInv).                                     *)
(*                                                                         *)
(* The fragment table, for every number of senders, entries and fragments: *)
(* the invariant adds that every entry is a sound beginning (FragTable),   *)
(* how far the packet numbers are (SenderInv), and that the MSDU of which  *)
(* everything has arrived has its entry, no further behind the newest than *)
(* entries have started since (Tracked).                                   *)
(*                                                                         *)
(* The bring-up of the chip, for every firmware directory, block size and  *)
(* number of failures: the invariant adds who may be inside the mutex and  *)
(* what address he finds (TransferInv), that the boot's transfer is the    *)
(* one its place says (BootCallInv), and what of the images has arrived    *)
(* (LoadInv); where the NV data goes is a lemma of its own (NvPlace).      *)
(*                                                                         *)
(* The front panel, for every number of digits and every glyph: the        *)
(* invariant adds how far the holder of the lock has come in what it sends *)
(* and what the controller shows by then (Showing, Darkening), and what    *)
(* the service may believe while a store is still under way (TruthInv).    *)
(***************************************************************************)
EXTENDS SkwKeys, SkwFrag, SkwImage, FrontPanel, FiniteSetTheorems, WellFoundedInduction, TLAPS

Conf == [cipher : {"none", "wep", "ccmp"}, key : [KeyIdx -> 0 .. MaxKeys], rx_pn : [KeyIdx -> Nat],
         bitmap : SUBSET KeyIdx, wep_share : BOOLEAN]
KeyCalls == [at : {"idle", "add", "del", "unicast", "multicast"}, c : Confs, i : KeyIdx \cup {0}, id : 0 .. MaxKeys,
             both : BOOLEAN]

KeyTypeOK ==
    /\ conf \in [Confs -> Conf] /\ keyPeer \in BOOLEAN /\ call \in KeyCalls
    /\ fwkeys \in [Slots -> 0 .. MaxKeys] /\ fwpeer \in BOOLEAN
    /\ sender \in [id : 0 .. MaxKeys, pn : Nat]
    /\ air \in Seq([id : Ids, pn : Nat])
    /\ keySeen \in [top : [Ids -> Nat], back : BOOLEAN, refused : BOOLEAN, mixed : BOOLEAN, lost : BOOLEAN]
    /\ keyFuel \in [keys : 0 .. MaxKeys, calls : Int, refused : Int, pn : Int]

(* The call under way is the only one that may have left a table and the firmware apart, and only
   at its own place. *)
Pending(c, i) == call.at \in {"add", "del"} /\ c = call.c /\ i = call.i
InStep(c, i) ==
    /\ conf[c].cipher # "wep" /\ conf[c].key[i] # NoKey => fwkeys[<<c, i>>] = conf[c].key[i]
    /\ ~keySeen.refused /\ (conf[c].cipher # "wep" \/ conf[c].key[i] = NoKey) => fwkeys[<<c, i>>] = conf[c].key[i]

CallInv ==
    /\ call.at = "idle" => call = NoCall
    /\ call.at # "idle" => call.i \in KeyIdx /\ (call.c \in OfPeer => keyPeer)
    /\ call.at = "add" => conf[call.c].key[call.i] = call.id /\ call.id # NoKey
    /\ call.at \in {"unicast", "multicast"} =>
          call.c = "iface" /\ call.id # NoKey /\ conf["iface"].key[call.i] = call.id

TableInv ==
    /\ \A c \in Confs : conf[c].bitmap = {i \in KeyIdx : conf[c].key[i] # NoKey}
    /\ ~keyPeer => \A c \in OfPeer : conf[c] = EmptyConf
    /\ \A c \in KnownConfs, i \in KeyIdx : ~Pending(c, i) => InStep(c, i)
    /\ ~fwpeer /\ ~keySeen.refused => \A c \in OfPeer, i \in KeyIdx : fwkeys[<<c, i>>] = NoKey

(* A pairwise key is fresh: nothing has been accepted under a number beyond the last one given,
   and no two places have the same one.  What the table counts is at least what was accepted
   under its key, and exactly that unless a frame of another key was counted on it. *)
ReplayInv ==
    /\ look # -1 => look \in KeyIdx /\ keyPeer /\ air # <<>>
    /\ \A k \in Ids : k > keyFuel.keys => keySeen.top[k] = 0
    /\ \A i \in KeyIdx : conf["ptk"].key[i] <= keyFuel.keys
    /\ \A i, j \in KeyIdx : conf["ptk"].key[i] = conf["ptk"].key[j] /\ conf["ptk"].key[i] # NoKey => i = j
    /\ \A i \in KeyIdx : conf["ptk"].key[i] # NoKey =>
          /\ keySeen.top[conf["ptk"].key[i]] <= conf["ptk"].rx_pn[i]
          /\ ~keySeen.mixed => conf["ptk"].rx_pn[i] <= keySeen.top[conf["ptk"].key[i]]

KeyInv == KeyTypeOK /\ CallInv /\ TableInv /\ ReplayInv /\ KeysNoReplay /\ KeysNewAccepted

(* A table with one entry set, or cleared. *)
LEMMA ConfSet ==
    ASSUME conf \in [Confs -> Conf], NEW c \in Confs, NEW r \in Conf
    PROVE  LET d == [conf EXCEPT ![c] = r] IN
           d \in [Confs -> Conf] /\ d[c] = r /\ \A e \in Confs : e # c => d[e] = conf[e]
OBVIOUS

LEMMA ConfCleared ==
    ASSUME conf \in [Confs -> Conf], NEW c \in Confs, NEW i \in KeyIdx, MaxKeys \in Nat
    PROVE  LET d == Cleared(c, i) IN
           /\ d \in [Confs -> Conf] /\ \A e \in Confs : e # c => d[e] = conf[e]
           /\ d[c].key = [conf[c].key EXCEPT ![i] = NoKey] /\ d[c].rx_pn = [conf[c].rx_pn EXCEPT ![i] = 0]
           /\ d[c].bitmap = conf[c].bitmap \ {i} /\ d[c].cipher = conf[c].cipher
<1> DEFINE d == Cleared(c, i)
           r == [cipher |-> conf[c].cipher, key |-> [conf[c].key EXCEPT ![i] = NoKey],
                 rx_pn |-> [conf[c].rx_pn EXCEPT ![i] = 0], bitmap |-> conf[c].bitmap \ {i},
                 wep_share |-> conf[c].wep_share]
<1>0. conf[c] \in Conf /\ 0 \in 0 .. MaxKeys OBVIOUS
<1>1. r \in Conf BY <1>0 DEF Conf, NoKey
<1>2. d[c] = r BY <1>0 DEF Cleared, Conf
<1>3. \A e \in Confs : e # c => d[e] = conf[e] BY DEF Cleared
<1>4. DOMAIN d = Confs BY DEF Cleared
<1>5. d = [e \in Confs |-> d[e]] BY DEF Cleared
<1> HIDE DEF d
<1>6. \A e \in Confs : d[e] \in Conf BY <1>1, <1>2, <1>3
<1>7. d \in [Confs -> Conf] BY <1>5, <1>6
<1> QED BY <1>2, <1>3, <1>7 DEF d

(* The bitmap follows a cleared entry, and the other entries stay. *)
LEMMA ClearedEntries ==
    ASSUME conf \in [Confs -> Conf], NEW d \in [Confs -> Conf], NEW c \in Confs, NEW i \in KeyIdx,
           \A e \in Confs : conf[e].bitmap = {j \in KeyIdx : conf[e].key[j] # NoKey},
           \A e \in Confs : e # c => d[e] = conf[e],
           d[c].key = [conf[c].key EXCEPT ![i] = NoKey], d[c].rx_pn = [conf[c].rx_pn EXCEPT ![i] = 0],
           d[c].bitmap = conf[c].bitmap \ {i}, d[c].cipher = conf[c].cipher
    PROVE  /\ \A e \in Confs, j \in KeyIdx : /\ d[e].key[j] = IF e = c /\ j = i THEN NoKey ELSE conf[e].key[j]
                                             /\ ~(e = c /\ j = i) => d[e].rx_pn[j] = conf[e].rx_pn[j]
                                             /\ d[e].cipher = conf[e].cipher
           /\ \A e \in Confs : d[e].bitmap = {j \in KeyIdx : d[e].key[j] # NoKey}
<1>1. conf[c] \in Conf /\ conf[c].key \in [KeyIdx -> 0 .. MaxKeys] /\ conf[c].rx_pn \in [KeyIdx -> Nat] BY DEF Conf
<1>2. \A j \in KeyIdx : /\ d[c].key[j] = IF j = i THEN NoKey ELSE conf[c].key[j]
                        /\ j # i => d[c].rx_pn[j] = conf[c].rx_pn[j]
  BY <1>1
<1>3. d[c].bitmap = {j \in KeyIdx : d[c].key[j] # NoKey} BY <1>2
<1>4. ASSUME NEW e \in Confs PROVE d[e].bitmap = {j \in KeyIdx : d[e].key[j] # NoKey}
  <2>1. CASE e = c BY <1>3, <2>1
  <2>2. CASE e # c
    <3>1. d[e] = conf[e] BY <2>2
    <3> QED BY <3>1
  <2> QED BY <2>1, <2>2
<1>5. ASSUME NEW e \in Confs, NEW j \in KeyIdx
      PROVE  /\ d[e].key[j] = IF e = c /\ j = i THEN NoKey ELSE conf[e].key[j]
             /\ ~(e = c /\ j = i) => d[e].rx_pn[j] = conf[e].rx_pn[j]
             /\ d[e].cipher = conf[e].cipher
  BY <1>2
<1> QED BY <1>4, <1>5

LEMMA KeyInitInv == KeyInit => KeyInv
<1> SUFFICES ASSUME KeyInit PROVE KeyInv OBVIOUS
<1> USE KeyConstants DEF KeyInit, NoKey
<1>1. /\ EmptyConf \in Conf /\ EmptyConf.bitmap = {} /\ EmptyConf.cipher = "none"
      /\ \A i \in KeyIdx : EmptyConf.key[i] = NoKey /\ EmptyConf.rx_pn[i] = 0
  BY DEF EmptyConf, Conf
<1>2. NoCall \in KeyCalls BY DEF NoCall, KeyCalls, Confs
<1>3. KeyTypeOK
  <2>1. conf \in [Confs -> Conf] /\ fwkeys \in [Slots -> 0 .. MaxKeys] BY <1>1
  <2>2. sender \in [id : 0 .. MaxKeys, pn : Nat] OBVIOUS
  <2>3. keySeen \in [top : [Ids -> Nat], back : BOOLEAN, refused : BOOLEAN, mixed : BOOLEAN, lost : BOOLEAN]
    OBVIOUS
  <2>4. keyFuel \in [keys : 0 .. MaxKeys, calls : Int, refused : Int, pn : Int] OBVIOUS
  <2>5. air \in Seq([id : Ids, pn : Nat]) OBVIOUS
  <2>6. keyPeer \in BOOLEAN /\ fwpeer \in BOOLEAN /\ call \in KeyCalls BY <1>2
  <2> HIDE DEF KeyInit
  <2> QED BY <2>1, <2>2, <2>3, <2>4, <2>5, <2>6 DEF KeyTypeOK
<1>4. CallInv BY DEF CallInv, NoCall
<1>5. \A c \in Confs : conf[c] = EmptyConf OBVIOUS
<1>6. TableInv
  <2>1. \A c \in OfPeer : c \in Confs BY DEF OfPeer, Confs
  <2>2. \A c \in Confs, i \in KeyIdx : <<c, i>> \in Slots /\ fwkeys[<<c, i>>] = NoKey BY DEF Slots
  <2>3. \A c \in Confs, i \in KeyIdx : InStep(c, i) BY <1>1, <1>5, <2>2 DEF InStep
  <2>4. \A c \in KnownConfs : c \in Confs BY DEF KnownConfs
  <2> HIDE DEF KeyInit, NoKey
  <2>5. \A c \in Confs : conf[c].bitmap = {i \in KeyIdx : conf[c].key[i] # NoKey}
    <3>1. SUFFICES ASSUME NEW c \in Confs PROVE conf[c].bitmap = {i \in KeyIdx : conf[c].key[i] # NoKey} OBVIOUS
    <3>2. conf[c] = EmptyConf BY <1>5
    <3> QED BY <1>1, <3>2
  <2> QED BY <1>5, <2>1, <2>2, <2>3, <2>4, <2>5 DEF TableInv
<1>7. ReplayInv BY <1>1, <1>5 DEF ReplayInv, Confs, Ids
<1> QED BY <1>3, <1>4, <1>6, <1>7 DEF KeyInv, KeysNoReplay, KeysNewAccepted

KeyFuel == [keys : 0 .. MaxKeys, calls : Int, refused : Int, pn : Int]
KeyGhost == [top : [Ids -> Nat], back : BOOLEAN, refused : BOOLEAN, mixed : BOOLEAN, lost : BOOLEAN]

(* What a call or a refusal counts leaves the rest of the two records alone. *)
LEMMA FuelRecord ==
    ASSUME NEW f \in KeyFuel, NEW m \in 0 .. MaxKeys
    PROVE  /\ LET g == [f EXCEPT !.calls = @ - 1] IN g \in KeyFuel /\ g.keys = f.keys
           /\ LET g == [f EXCEPT !.refused = @ - 1] IN g \in KeyFuel /\ g.keys = f.keys
           /\ LET g == [f EXCEPT !.pn = @ - 1] IN g \in KeyFuel /\ g.keys = f.keys
           /\ LET g == [f EXCEPT !.keys = m] IN g \in KeyFuel /\ g.keys = m
BY DEF KeyFuel

LEMMA GhostRecord ==
    ASSUME NEW k \in KeyGhost
    PROVE  LET l == [k EXCEPT !.refused = TRUE] IN
           /\ l \in KeyGhost /\ l.top = k.top /\ l.back = k.back /\ l.refused /\ l.mixed = k.mixed /\ l.lost = k.lost
BY DEF KeyGhost

LEMMA FuelKept ==
    ASSUME KeyInv
    PROVE  /\ KeyCall => keyFuel' \in KeyFuel /\ keyFuel'.keys = keyFuel.keys
           /\ KeyRefused => /\ keyFuel' \in KeyFuel /\ keyFuel'.keys = keyFuel.keys
                            /\ keySeen' \in KeyGhost
                            /\ keySeen'.top = keySeen.top /\ keySeen'.back = keySeen.back /\ keySeen'.refused
                            /\ keySeen'.mixed = keySeen.mixed /\ keySeen'.lost = keySeen.lost
<1>1. keyFuel \in KeyFuel /\ keySeen \in KeyGhost BY DEF KeyInv, KeyTypeOK, KeyFuel, KeyGhost
<1>2. keyFuel.keys \in 0 .. MaxKeys BY <1>1 DEF KeyFuel
<1>3. KeyCall => keyFuel' \in KeyFuel /\ keyFuel'.keys = keyFuel.keys BY <1>1, <1>2, FuelRecord DEF KeyCall
<1>4. KeyRefused => keyFuel' \in KeyFuel /\ keyFuel'.keys = keyFuel.keys BY <1>1, <1>2, FuelRecord DEF KeyRefused
<1>5. KeyRefused => /\ keySeen' \in KeyGhost
                    /\ keySeen'.top = keySeen.top /\ keySeen'.back = keySeen.back /\ keySeen'.refused
                    /\ keySeen'.mixed = keySeen.mixed /\ keySeen'.lost = keySeen.lost
  BY <1>1, GhostRecord DEF KeyRefused
<1> QED BY <1>3, <1>4, <1>5

(* A place in a table is a place in the firmware. *)
LEMMA SlotOf == /\ \A c \in Confs, i \in KeyIdx : <<c, i>> \in Slots
                /\ OfPeer \subseteq Confs /\ "iface" \in Confs /\ "ptk" \in Confs /\ KnownConfs \subseteq Confs
                /\ "iface" \notin OfPeer
BY DEF Slots, Confs, OfPeer, KnownConfs

LEMMA AddStep ==
    ASSUME KeyInv, NEW c \in Confs, NEW i \in KeyIdx, NEW cipher \in {"wep", "ccmp"}, skw_add_key(c, i, cipher)
    PROVE  KeyInv'
<1> DEFINE n == keyFuel.keys + 1
           r == [cipher |-> cipher, key |-> [conf[c].key EXCEPT ![i] = n], rx_pn |-> [conf[c].rx_pn EXCEPT ![i] = 0],
                 bitmap |-> conf[c].bitmap \cup {i}, wep_share |-> conf[c].wep_share \/ cipher = "wep"]
<1> USE KeyConstants DEF NoKey
<1>1. keyFuel.keys \in 0 .. MaxKeys /\ n \in 1 .. MaxKeys /\ n \in Ids
  BY DEF KeyInv, KeyTypeOK, skw_add_key, Ids
<1>2. conf \in [Confs -> Conf] /\ conf[c] \in Conf BY DEF KeyInv, KeyTypeOK
<1>3. r \in Conf BY <1>1, <1>2 DEF Conf
<1>4. conf' = [conf EXCEPT ![c] = r] BY DEF skw_add_key, skw_set_key
<1>5. conf' \in [Confs -> Conf] /\ conf'[c] = r /\ \A e \in Confs : e # c => conf'[e] = conf[e]
  <2> HIDE DEF r
  <2> QED BY <1>2, <1>3, <1>4, ConfSet
<1>6. keyFuel' \in KeyFuel /\ keyFuel'.keys = n
  <2>1. keyFuel \in KeyFuel /\ n \in 0 .. MaxKeys BY <1>1 DEF KeyInv, KeyTypeOK, KeyFuel
  <2>2. keyFuel' = [keyFuel EXCEPT !.keys = n] BY DEF skw_add_key
  <2> QED BY <2>1, <2>2, FuelRecord
<1>7. /\ call = NoCall /\ UNCHANGED <<keyPeer, fwkeys, fwpeer, sender, air, look, keySeen>>
      /\ c \in OfPeer => keyPeer
      /\ conf[c].bitmap # {} => cipher = conf[c].cipher
      /\ cipher = "wep" => c = "iface" /\ call' = NoCall
      /\ cipher # "wep" => call' = [at |-> "add", c |-> c, i |-> i, id |-> n, both |-> FALSE]
  BY DEF skw_add_key, keyRx
<1>8. call' \in KeyCalls /\ (call' = NoCall \/ (call'.at = "add" /\ call'.c = c /\ call'.i = i /\ call'.id = n))
  <2>1. NoCall \in KeyCalls BY DEF NoCall, KeyCalls, Confs
  <2>2. [at |-> "add", c |-> c, i |-> i, id |-> n, both |-> FALSE] \in KeyCalls BY <1>1 DEF KeyCalls
  <2>3. CASE cipher = "wep"
    <3>1. call' = NoCall BY <1>7, <2>3
    <3> QED BY <2>1, <3>1, Zenon
  <2>4. CASE cipher # "wep"
    <3>1. call' = [at |-> "add", c |-> c, i |-> i, id |-> n, both |-> FALSE] BY <1>7, <2>4
    <3> HIDE DEF n, NoKey
    <3>2. call' \in KeyCalls BY <2>2, <3>1, Zenon
    <3>3. call'.at = "add" /\ call'.c = c /\ call'.i = i /\ call'.id = n BY <3>1
    <3> QED BY <3>2, <3>3, Zenon
  <2> QED BY <2>3, <2>4
<1>9. KeyTypeOK' BY <1>5, <1>6, <1>7, <1>8 DEF KeyInv, KeyTypeOK, KeyFuel
<1>10. \A e \in Confs, j \in KeyIdx : conf'[e].key[j] = IF e = c /\ j = i THEN n ELSE conf[e].key[j]
  BY <1>2, <1>5 DEF Conf
<1>11. CallInv'
  BY <1>1, <1>7, <1>8, <1>10 DEF CallInv, NoCall
<1>12. TableInv'
  <2>1. \A e \in Confs : conf'[e].bitmap = {j \in KeyIdx : conf'[e].key[j] # NoKey}
    <3>1. conf[c].bitmap = {j \in KeyIdx : conf[c].key[j] # NoKey} BY DEF KeyInv, TableInv
    <3>2. conf'[c].bitmap = conf[c].bitmap \cup {i} BY <1>5
    <3>3. conf'[c].bitmap = {j \in KeyIdx : conf'[c].key[j] # NoKey} BY <1>1, <1>10, <3>1, <3>2
    <3> HIDE DEF r, n
    <3> QED BY <1>5, <3>3 DEF KeyInv, TableInv
  <2>2. ~keyPeer' => \A e \in OfPeer : conf'[e] = EmptyConf
    BY <1>5, <1>7, SlotOf DEF KeyInv, TableInv
  <2>3. ASSUME NEW e \in KnownConfs, NEW j \in KeyIdx, ~Pending(e, j)' PROVE InStep(e, j)'
    <3>1. e \in Confs /\ InStep(e, j)
      BY <1>7, SlotOf DEF KeyInv, TableInv, Pending, NoCall
    <3>2. CASE e # c BY <1>5, <1>7, <3>1, <3>2 DEF InStep
    <3>3. CASE e = c /\ cipher # "wep"
      <4>1. j # i BY <1>7, <2>3, <3>3 DEF Pending
      <4>2. CASE conf[c].bitmap = {}
        <5>1. conf[c].key[j] = NoKey BY <4>2 DEF KeyInv, TableInv
        <5> QED BY <1>7, <1>10, <3>1, <3>3, <4>1, <5>1 DEF InStep
      <4>3. CASE conf[c].bitmap # {}
        <5>1. conf'[c].cipher = conf[c].cipher BY <1>5, <1>7, <4>3
        <5> QED BY <1>7, <1>10, <3>1, <3>3, <4>1, <5>1 DEF InStep
      <4> QED BY <4>2, <4>3
    <3>4. CASE e = c /\ cipher = "wep"
      <4>1. conf'[c].cipher = "wep" BY <1>5, <3>4
      <4>2. conf'[c].key[j] = NoKey => conf[c].key[j] = NoKey BY <1>1, <1>10
      <4> QED BY <1>7, <1>10, <3>1, <3>4, <4>1, <4>2 DEF InStep
    <3> QED BY <3>2, <3>3, <3>4
  <2>4. KnownConfs' = KnownConfs BY <1>7 DEF KnownConfs
  <2>5. (~fwpeer /\ ~keySeen.refused => \A e \in OfPeer, j \in KeyIdx : fwkeys[<<e, j>>] = NoKey)'
    BY <1>7 DEF KeyInv, TableInv
  <2> QED BY <2>1, <2>2, <2>3, <2>4, <2>5 DEF TableInv
<1>13. ReplayInv'
  <2>1. \A j \in KeyIdx : conf["ptk"].key[j] <= keyFuel.keys /\ conf["ptk"].key[j] \in Nat
    BY <1>2, SlotOf DEF KeyInv, ReplayInv, Conf
  <2>2. keySeen.top[n] = 0 BY <1>1 DEF KeyInv, ReplayInv, Ids
  <2>3. \A j \in KeyIdx : conf'["ptk"].rx_pn[j] = IF "ptk" = c /\ j = i THEN 0 ELSE conf["ptk"].rx_pn[j]
    BY <1>2, <1>5, SlotOf DEF Conf
  <2>4. \A j \in KeyIdx : conf'["ptk"].key[j] = IF "ptk" = c /\ j = i THEN n ELSE conf["ptk"].key[j]
    BY <1>10, SlotOf
  <2>5. keyFuel.keys <= n /\ keyFuel.keys # n /\ n \in Nat /\ \A k \in Ids : k > n => k > keyFuel.keys
    BY <1>1 DEF Ids
  <2> HIDE DEF r, n
  <2>6. \A k \in Ids : k > keyFuel'.keys => keySeen'.top[k] = 0
    BY <1>6, <1>7, <2>5 DEF KeyInv, ReplayInv
  <2>7. \A j \in KeyIdx : conf'["ptk"].key[j] <= keyFuel'.keys
    <3>1. keyFuel'.keys = n /\ n \in Nat BY <1>6, <2>5
    <3>2. keyFuel.keys \in Nat /\ keyFuel.keys <= n BY <1>1, <2>5
    <3>3. ASSUME NEW j \in KeyIdx PROVE conf'["ptk"].key[j] <= n
      <4> DEFINE k == conf["ptk"].key[j]
      <4>1. k \in Nat /\ k <= keyFuel.keys BY <2>1, Zenon
      <4>2. conf'["ptk"].key[j] = n \/ conf'["ptk"].key[j] = k BY <2>4, Zenon
      <4> HIDE DEF k
      <4>3. k <= n BY <3>1, <3>2, <4>1
      <4> QED BY <3>1, <4>2, <4>3
    <3> QED BY <3>1, <3>3
  <2>8. \A j \in KeyIdx : conf["ptk"].key[j] # n
    <3>1. keyFuel.keys \in Nat /\ n \in Nat /\ keyFuel.keys < n BY <1>1, <2>5
    <3>2. ASSUME NEW j \in KeyIdx PROVE conf["ptk"].key[j] # n
      <4> DEFINE k == conf["ptk"].key[j]
      <4>1. k \in Nat /\ k <= keyFuel.keys BY <2>1, Zenon
      <4> HIDE DEF k
      <4>2. k # n BY <3>1, <4>1
      <4> QED BY <4>2 DEF k
    <3> QED BY <3>2
  <2>9. \A j, k \in KeyIdx : conf'["ptk"].key[j] = conf'["ptk"].key[k] /\ conf'["ptk"].key[j] # NoKey => j = k
    BY <2>4, <2>8 DEF KeyInv, ReplayInv
  <2>10. \A j \in KeyIdx : conf'["ptk"].key[j] # NoKey =>
          /\ keySeen'.top[conf'["ptk"].key[j]] <= conf'["ptk"].rx_pn[j]
          /\ ~keySeen'.mixed => conf'["ptk"].rx_pn[j] <= keySeen'.top[conf'["ptk"].key[j]]
    BY <1>7, <2>2, <2>3, <2>4 DEF KeyInv, ReplayInv
  <2> QED BY <1>7, <2>6, <2>7, <2>9, <2>10 DEF KeyInv, ReplayInv
<1> QED BY <1>7, <1>9, <1>11, <1>12, <1>13 DEF KeyInv, KeysNoReplay, KeysNewAccepted

(* Steps that only take pairwise keys away keep what is known of the packet numbers. *)
LEMMA ReplayKept ==
    ASSUME KeyInv, keySeen'.top = keySeen.top, keySeen'.mixed = keySeen.mixed, keyFuel'.keys = keyFuel.keys,
           \A i \in KeyIdx : /\ conf'["ptk"].key[i] \in {NoKey, conf["ptk"].key[i]}
                             /\ conf'["ptk"].key[i] # NoKey => conf'["ptk"].rx_pn[i] = conf["ptk"].rx_pn[i],
           look' # -1 => look' \in KeyIdx /\ keyPeer' /\ air' # <<>>
    PROVE  ReplayInv'
<1>1. keyFuel.keys \in 0 .. MaxKeys BY DEF KeyInv, KeyTypeOK
<1>2. \A i \in KeyIdx : conf'["ptk"].key[i] <= keyFuel'.keys BY <1>1, KeyConstants DEF KeyInv, ReplayInv, NoKey
<1> QED BY <1>2 DEF KeyInv, ReplayInv

LEMMA ReplaySame ==
    ASSUME KeyInv, UNCHANGED <<conf, keyPeer, sender, air, look, keySeen>>, keyFuel'.keys = keyFuel.keys
    PROVE  ReplayInv'
BY DEF KeyInv, ReplayInv

LEMMA AnswerStep == ASSUME KeyInv, skw_cmd_add_key PROVE KeyInv'
<1> DEFINE c == call.c
           i == call.i
<1>1. c \in Confs /\ i \in KeyIdx /\ (c \in OfPeer => keyPeer) /\ call.at = "add"
      /\ conf[c].key[i] = call.id /\ call.id # NoKey /\ call.id \in 0 .. MaxKeys
  BY DEF KeyInv, KeyTypeOK, CallInv, KeyCalls, skw_cmd_add_key
<1>2. conf \in [Confs -> Conf] /\ conf[c] \in Conf BY <1>1 DEF KeyInv, KeyTypeOK
<1>3. /\ call' = NoCall /\ UNCHANGED <<keyPeer, fwpeer, sender, air, look>>
  BY DEF skw_cmd_add_key, keyRx
<1>4. NoCall \in KeyCalls BY KeyConstants DEF NoCall, KeyCalls, Confs, NoKey
<1>5. CallInv' BY <1>3 DEF CallInv, NoCall
<1>6. KnownConfs' = KnownConfs /\ KnownConfs \subseteq Confs BY <1>3 DEF KnownConfs
<1>7. fwkeys \in [Slots -> 0 .. MaxKeys] /\ <<c, i>> \in Slots BY <1>1, SlotOf DEF KeyInv, KeyTypeOK
<1>8. \A d \in {fwkeys, [fwkeys EXCEPT ![<<c, i>>] = call.id]} :
         /\ d \in [Slots -> 0 .. MaxKeys]
         /\ \A e \in Confs, j \in KeyIdx : ~(e = c /\ j = i) => d[<<e, j>>] = fwkeys[<<e, j>>]
  BY <1>1, <1>7, SlotOf
<1>9. CASE /\ c \in OfPeer => fwpeer
           /\ fwkeys' = [fwkeys EXCEPT ![<<c, i>>] = call.id]
           /\ UNCHANGED <<conf, keySeen, keyFuel>>
  <2>1. fwkeys'[<<c, i>>] = call.id BY <1>7, <1>9
  <2>2. \A e \in Confs, j \in KeyIdx : ~(e = c /\ j = i) => fwkeys'[<<e, j>>] = fwkeys[<<e, j>>] BY <1>8, <1>9
  <2>3. KeyTypeOK' BY <1>3, <1>4, <1>8, <1>9 DEF KeyInv, KeyTypeOK
  <2>4. ASSUME NEW e \in KnownConfs, NEW j \in KeyIdx PROVE InStep(e, j)'
    <3>1. CASE e = c /\ j = i BY <1>1, <1>9, <2>1, <3>1 DEF InStep
    <3>2. CASE ~(e = c /\ j = i)
      <4>1. InStep(e, j) BY <1>6, <3>2 DEF KeyInv, TableInv, Pending
      <4> QED BY <1>6, <1>9, <2>2, <3>2, <4>1 DEF InStep
    <3> QED BY <3>1, <3>2
  <2>5. (~fwpeer /\ ~keySeen.refused => \A e \in OfPeer, j \in KeyIdx : fwkeys[<<e, j>>] = NoKey)'
    <3>1. ~fwpeer /\ ~keySeen.refused => \A e \in OfPeer, j \in KeyIdx : fwkeys[<<e, j>>] = NoKey
      BY DEF KeyInv, TableInv
    <3>2. ~fwpeer => \A e \in OfPeer : e \in Confs /\ e # c BY <1>9, SlotOf
    <3> QED BY <1>3, <1>9, <2>2, <3>1, <3>2
  <2>6. TableInv' BY <1>3, <1>6, <1>9, <2>4, <2>5 DEF KeyInv, TableInv
  <2>7. ReplayInv' BY <1>3, <1>9, ReplaySame
  <2> QED BY <1>5, <1>9, <2>3, <2>6, <2>7 DEF KeyInv, KeysNoReplay, KeysNewAccepted
<1>10. ASSUME conf' = Cleared(c, i), fwkeys' \in {fwkeys, [fwkeys EXCEPT ![<<c, i>>] = call.id]},
              KeyRefused \/ (c \in OfPeer /\ ~fwpeer /\ UNCHANGED <<fwkeys, keySeen, keyFuel>>)
       PROVE  KeyInv'
  <2> HIDE DEF c, i
  <2>1. /\ conf' \in [Confs -> Conf] /\ \A e \in Confs : e # c => conf'[e] = conf[e]
        /\ conf'[c].key = [conf[c].key EXCEPT ![i] = NoKey] /\ conf'[c].rx_pn = [conf[c].rx_pn EXCEPT ![i] = 0]
        /\ conf'[c].bitmap = conf[c].bitmap \ {i} /\ conf'[c].cipher = conf[c].cipher
    <3>1. MaxKeys \in Nat BY KeyConstants
    <3> DEFINE d == Cleared(c, i)
    <3>2. /\ d \in [Confs -> Conf] /\ \A e \in Confs : e # c => d[e] = conf[e]
          /\ d[c].key = [conf[c].key EXCEPT ![i] = NoKey] /\ d[c].rx_pn = [conf[c].rx_pn EXCEPT ![i] = 0]
          /\ d[c].bitmap = conf[c].bitmap \ {i} /\ d[c].cipher = conf[c].cipher
      BY <1>1, <1>2, <3>1, ConfCleared
    <3>3. conf' = d BY <1>10
    <3> HIDE DEF d
    <3> QED BY <3>2, <3>3
  <2>2. /\ \A e \in Confs, j \in KeyIdx : /\ conf'[e].key[j] = IF e = c /\ j = i THEN NoKey ELSE conf[e].key[j]
                                          /\ ~(e = c /\ j = i) => conf'[e].rx_pn[j] = conf[e].rx_pn[j]
                                          /\ conf'[e].cipher = conf[e].cipher
        /\ \A e \in Confs : conf'[e].bitmap = {j \in KeyIdx : conf'[e].key[j] # NoKey}
    <3>1. \A e \in Confs : conf[e].bitmap = {j \in KeyIdx : conf[e].key[j] # NoKey} BY DEF KeyInv, TableInv
    <3>2. c \in Confs /\ i \in KeyIdx /\ conf \in [Confs -> Conf] BY <1>1, <1>2
    <3> DEFINE d == conf'
    <3> HIDE DEF d
    <3>3. /\ d \in [Confs -> Conf] /\ \A e \in Confs : e # c => d[e] = conf[e]
          /\ d[c].key = [conf[c].key EXCEPT ![i] = NoKey] /\ d[c].rx_pn = [conf[c].rx_pn EXCEPT ![i] = 0]
          /\ d[c].bitmap = conf[c].bitmap \ {i} /\ d[c].cipher = conf[c].cipher
      BY <2>1 DEF d
    <3>4. /\ \A e \in Confs, j \in KeyIdx : /\ d[e].key[j] = IF e = c /\ j = i THEN NoKey ELSE conf[e].key[j]
                                            /\ ~(e = c /\ j = i) => d[e].rx_pn[j] = conf[e].rx_pn[j]
                                            /\ d[e].cipher = conf[e].cipher
          /\ \A e \in Confs : d[e].bitmap = {j \in KeyIdx : d[e].key[j] # NoKey}
      BY <3>1, <3>2, <3>3, ClearedEntries
    <3> QED BY <3>4 DEF d
  <2>3. /\ keyFuel' \in KeyFuel /\ keyFuel'.keys = keyFuel.keys /\ keySeen' \in KeyGhost
        /\ keySeen'.top = keySeen.top /\ keySeen'.back = keySeen.back /\ (keySeen'.refused \/ keySeen' = keySeen)
        /\ keySeen'.mixed = keySeen.mixed /\ keySeen'.lost = keySeen.lost
    BY <1>10, FuelKept DEF KeyInv, KeyTypeOK, KeyFuel, KeyGhost
  <2>4. KeyTypeOK' BY <1>3, <1>4, <1>8, <1>10, <2>1, <2>3 DEF KeyInv, KeyTypeOK, KeyFuel, KeyGhost
  <2>6. ~keyPeer' => \A e \in OfPeer : conf'[e] = EmptyConf BY <1>1, <1>3, <2>1, SlotOf DEF KeyInv, TableInv
  <2>7. ASSUME NEW e \in KnownConfs, NEW j \in KeyIdx PROVE InStep(e, j)'
    <3>0. e \in Confs BY <1>6
    <3>1. CASE c \in OfPeer /\ ~fwpeer /\ UNCHANGED <<fwkeys, keySeen, keyFuel>>
      <4>1. e # c BY <3>1, SlotOf DEF KnownConfs
      <4>2. InStep(e, j) BY <4>1 DEF KeyInv, TableInv, Pending, c
      <4> QED BY <2>1, <3>0, <3>1, <4>1, <4>2 DEF InStep
    <3>2. CASE KeyRefused
      <4>1. keySeen'.refused BY <3>2, FuelKept
      <4>2. CASE e = c /\ j = i BY <2>2, <3>0, <4>1, <4>2 DEF InStep
      <4>3. CASE ~(e = c /\ j = i)
        <5>1. InStep(e, j) BY <4>3 DEF KeyInv, TableInv, Pending, c, i
        <5>2. fwkeys'[<<e, j>>] = fwkeys[<<e, j>>] BY <1>8, <1>10, <3>0, <4>3
        <5>3. conf'[e].key[j] = conf[e].key[j] /\ conf'[e].cipher = conf[e].cipher BY <2>2, <3>0, <4>3
        <5> QED BY <4>1, <5>1, <5>2, <5>3 DEF InStep
      <4> QED BY <4>2, <4>3
    <3> QED BY <1>10, <3>1, <3>2
  <2>8. (~fwpeer /\ ~keySeen.refused => \A e \in OfPeer, j \in KeyIdx : fwkeys[<<e, j>>] = NoKey)'
    <3>1. CASE KeyRefused BY <3>1, FuelKept
    <3>2. CASE UNCHANGED <<fwkeys, keySeen, keyFuel>> BY <1>3, <3>2 DEF KeyInv, TableInv
    <3> QED BY <1>10, <3>1, <3>2
  <2>9. TableInv' BY <1>6, <2>2, <2>6, <2>7, <2>8 DEF TableInv
  <2>10. ReplayInv'
    <3>1. look' # -1 => look' \in KeyIdx /\ keyPeer' /\ air' # <<>> BY <1>3 DEF KeyInv, ReplayInv
    <3>2. \A j \in KeyIdx : /\ conf'["ptk"].key[j] \in {NoKey, conf["ptk"].key[j]}
                            /\ conf'["ptk"].key[j] # NoKey => conf'["ptk"].rx_pn[j] = conf["ptk"].rx_pn[j]
      BY <2>2, SlotOf
    <3> QED BY <2>3, <3>1, <3>2, ReplayKept
  <2> QED BY <1>5, <2>3, <2>4, <2>9, <2>10 DEF KeyInv, KeysNoReplay, KeysNewAccepted
<1> QED BY <1>9, <1>10 DEF skw_cmd_add_key

LEMMA DelStep ==
    ASSUME KeyInv, NEW c \in Confs, NEW i \in KeyIdx, skw_del_key(c, i)
    PROVE  KeyInv'
<1>1. /\ call = NoCall /\ KeyCall /\ (c \in OfPeer => keyPeer)
      /\ UNCHANGED <<conf, keyPeer, fwkeys, fwpeer, sender, air, look, keySeen>>
      /\ call' = [at |-> "del", c |-> c, i |-> i, id |-> NoKey, both |-> FALSE]
  BY DEF skw_del_key, keyRx
<1>2. keyFuel' \in KeyFuel /\ keyFuel'.keys = keyFuel.keys BY <1>1, FuelKept
<1>3. call' \in KeyCalls BY <1>1, KeyConstants DEF KeyCalls, NoKey
<1>4. KeyTypeOK' BY <1>1, <1>2, <1>3 DEF KeyInv, KeyTypeOK, KeyFuel
<1>5. CallInv' BY <1>1 DEF CallInv
<1>6. TableInv'
  <2>1. \A e \in KnownConfs, j \in KeyIdx : InStep(e, j) BY <1>1 DEF KeyInv, TableInv, Pending, NoCall
  <2>2. KnownConfs' = KnownConfs BY <1>1 DEF KnownConfs
  <2>3. \A e \in KnownConfs, j \in KeyIdx : InStep(e, j)' BY <1>1, <2>1 DEF InStep
  <2> QED BY <1>1, <2>2, <2>3 DEF KeyInv, TableInv
<1>7. ReplayInv' BY <1>1, <1>2, ReplaySame
<1> QED BY <1>1, <1>4, <1>5, <1>6, <1>7 DEF KeyInv, KeysNoReplay, KeysNewAccepted

(* The flag of a table is not looked at. *)
LEMMA ConfFlag ==
    ASSUME NEW d \in [Confs -> Conf], NEW c \in Confs
    PROVE  LET e == [d EXCEPT ![c].wep_share = FALSE] IN
           /\ e \in [Confs -> Conf] /\ \A b \in Confs : b # c => e[b] = d[b]
           /\ e[c].key = d[c].key /\ e[c].rx_pn = d[c].rx_pn /\ e[c].bitmap = d[c].bitmap
           /\ e[c].cipher = d[c].cipher
<1> DEFINE e == [d EXCEPT ![c].wep_share = FALSE]
           r == [d[c] EXCEPT !.wep_share = FALSE]
<1>1. d[c] \in Conf OBVIOUS
<1>2. /\ r \in Conf /\ r.key = d[c].key /\ r.rx_pn = d[c].rx_pn /\ r.bitmap = d[c].bitmap
      /\ r.cipher = d[c].cipher
  BY <1>1 DEF Conf
<1>3. e[c] = r /\ e = [b \in Confs |-> e[b]] /\ \A b \in Confs : b # c => e[b] = d[b] OBVIOUS
<1> HIDE DEF e, r
<1>4. \A b \in Confs : e[b] \in Conf BY <1>2, <1>3
<1>5. e \in [Confs -> Conf] BY <1>3, <1>4
<1> QED BY <1>2, <1>3, <1>5 DEF e

LEMMA RemoveStep == ASSUME KeyInv, skw_remove_key PROVE KeyInv'
<1> DEFINE c == call.c
           i == call.i
           d == Cleared(c, i)
<1>1. c \in Confs /\ i \in KeyIdx /\ (c \in OfPeer => keyPeer) /\ call.at = "del"
  BY DEF KeyInv, KeyTypeOK, CallInv, KeyCalls, skw_remove_key
<1>2. conf \in [Confs -> Conf] /\ MaxKeys \in Nat BY KeyConstants DEF KeyInv, KeyTypeOK
<1>3. /\ call' = NoCall /\ UNCHANGED <<keyPeer, fwpeer, sender, air, look>>
      /\ conf' = [d EXCEPT ![c].wep_share = FALSE]
      /\ \/ fwkeys' = [fwkeys EXCEPT ![<<c, i>>] = NoKey] /\ UNCHANGED <<keySeen, keyFuel>>
         \/ KeyRefused /\ UNCHANGED fwkeys
  BY DEF skw_remove_key, keyRx
<1>4. NoCall \in KeyCalls BY KeyConstants DEF NoCall, KeyCalls, Confs, NoKey
<1>5. CallInv' BY <1>3 DEF CallInv, NoCall
<1>6. KnownConfs' = KnownConfs /\ KnownConfs \subseteq Confs BY <1>3 DEF KnownConfs
<1>7. \A e \in KnownConfs, j \in KeyIdx : ~(e = c /\ j = i) => InStep(e, j)
  BY DEF KeyInv, TableInv, Pending
<1>8. fwkeys \in [Slots -> 0 .. MaxKeys] /\ <<c, i>> \in Slots BY <1>1, SlotOf DEF KeyInv, KeyTypeOK
<1> HIDE DEF c, i
<1>9. /\ d \in [Confs -> Conf] /\ \A e \in Confs : e # c => d[e] = conf[e]
      /\ d[c].key = [conf[c].key EXCEPT ![i] = NoKey] /\ d[c].rx_pn = [conf[c].rx_pn EXCEPT ![i] = 0]
      /\ d[c].bitmap = conf[c].bitmap \ {i} /\ d[c].cipher = conf[c].cipher
  BY <1>1, <1>2, ConfCleared
<1> HIDE DEF d
<1>10. /\ conf' \in [Confs -> Conf] /\ \A b \in Confs : b # c => conf'[b] = d[b]
       /\ conf'[c].key = d[c].key /\ conf'[c].rx_pn = d[c].rx_pn /\ conf'[c].bitmap = d[c].bitmap
       /\ conf'[c].cipher = d[c].cipher
  BY <1>1, <1>3, <1>9, ConfFlag
<1>11. /\ conf' \in [Confs -> Conf] /\ \A e \in Confs : e # c => conf'[e] = conf[e]
       /\ conf'[c].key = [conf[c].key EXCEPT ![i] = NoKey] /\ conf'[c].rx_pn = [conf[c].rx_pn EXCEPT ![i] = 0]
       /\ conf'[c].bitmap = conf[c].bitmap \ {i} /\ conf'[c].cipher = conf[c].cipher
  BY <1>9, <1>10
<1>12. /\ \A e \in Confs, j \in KeyIdx : /\ conf'[e].key[j] = IF e = c /\ j = i THEN NoKey ELSE conf[e].key[j]
                                         /\ ~(e = c /\ j = i) => conf'[e].rx_pn[j] = conf[e].rx_pn[j]
                                         /\ conf'[e].cipher = conf[e].cipher
       /\ \A e \in Confs : conf'[e].bitmap = {j \in KeyIdx : conf'[e].key[j] # NoKey}
  <2>1. \A e \in Confs : conf[e].bitmap = {j \in KeyIdx : conf[e].key[j] # NoKey} BY DEF KeyInv, TableInv
  <2> QED BY <1>1, <1>2, <1>11, <2>1, ClearedEntries
<1>13. /\ keyFuel' \in KeyFuel /\ keyFuel'.keys = keyFuel.keys /\ keySeen' \in KeyGhost
       /\ keySeen'.top = keySeen.top /\ keySeen'.back = keySeen.back
       /\ keySeen'.mixed = keySeen.mixed /\ keySeen'.lost = keySeen.lost
       /\ \/ keySeen'.refused /\ fwkeys' = fwkeys
          \/ keySeen' = keySeen /\ fwkeys' = [fwkeys EXCEPT ![<<c, i>>] = NoKey]
  BY <1>3, FuelKept DEF KeyInv, KeyTypeOK, KeyFuel, KeyGhost
<1>14. /\ fwkeys' \in [Slots -> 0 .. MaxKeys]
       /\ \A e \in Confs, j \in KeyIdx : ~(e = c /\ j = i) => fwkeys'[<<e, j>>] = fwkeys[<<e, j>>]
       /\ fwkeys'[<<c, i>>] = NoKey \/ keySeen'.refused
       /\ \A e \in Confs, j \in KeyIdx : fwkeys'[<<e, j>>] \in {fwkeys[<<e, j>>], NoKey}
  BY <1>1, <1>2, <1>8, <1>13, SlotOf DEF NoKey
<1>15. KeyTypeOK' BY <1>3, <1>4, <1>11, <1>13, <1>14 DEF KeyInv, KeyTypeOK, KeyFuel, KeyGhost
<1>16. ~keyPeer' => \A e \in OfPeer : conf'[e] = EmptyConf BY <1>1, <1>3, <1>11, SlotOf DEF KeyInv, TableInv
<1>17. ASSUME NEW e \in KnownConfs, NEW j \in KeyIdx PROVE InStep(e, j)'
  <2>0. e \in Confs BY <1>6
  <2>1. CASE e = c /\ j = i BY <1>12, <1>14, <2>0, <2>1 DEF InStep
  <2>2. CASE ~(e = c /\ j = i)
    <3>1. InStep(e, j) BY <1>7, <2>2
    <3>2. fwkeys'[<<e, j>>] = fwkeys[<<e, j>>] /\ (keySeen'.refused \/ keySeen' = keySeen) BY <1>13, <1>14, <2>0, <2>2
    <3>3. conf'[e].key[j] = conf[e].key[j] /\ conf'[e].cipher = conf[e].cipher BY <1>12, <2>0, <2>2
    <3> QED BY <3>1, <3>2, <3>3 DEF InStep
  <2> QED BY <2>1, <2>2
<1>18. (~fwpeer /\ ~keySeen.refused => \A e \in OfPeer, j \in KeyIdx : fwkeys[<<e, j>>] = NoKey)'
  <2>1. ~fwpeer /\ ~keySeen.refused => \A e \in OfPeer, j \in KeyIdx : fwkeys[<<e, j>>] = NoKey
    BY DEF KeyInv, TableInv
  <2>2. \A e \in OfPeer : e \in Confs BY SlotOf
  <2> QED BY <1>3, <1>13, <1>14, <2>1, <2>2
<1>19. TableInv' BY <1>6, <1>12, <1>16, <1>17, <1>18 DEF TableInv
<1>20. ReplayInv'
  <2>1. look' # -1 => look' \in KeyIdx /\ keyPeer' /\ air' # <<>> BY <1>3 DEF KeyInv, ReplayInv
  <2>2. \A j \in KeyIdx : /\ conf'["ptk"].key[j] \in {NoKey, conf["ptk"].key[j]}
                          /\ conf'["ptk"].key[j] # NoKey => conf'["ptk"].rx_pn[j] = conf["ptk"].rx_pn[j]
    BY <1>12, SlotOf
  <2> QED BY <1>13, <2>1, <2>2, ReplayKept
<1> QED BY <1>5, <1>13, <1>15, <1>19, <1>20 DEF KeyInv, KeysNoReplay, KeysNewAccepted

LEMMA SetDefaultStep ==
    ASSUME KeyInv, NEW i \in KeyIdx, NEW u \in BOOLEAN, NEW m \in BOOLEAN, skw_set_default_key(i, u, m)
    PROVE  KeyInv'
<1>1. /\ call = NoCall /\ KeyCall /\ conf["iface"].key[i] # NoKey
      /\ UNCHANGED <<conf, keyPeer, fwkeys, fwpeer, sender, air, look, keySeen>>
      /\ call' = [at |-> IF u THEN "unicast" ELSE "multicast", c |-> "iface", i |-> i,
                  id |-> conf["iface"].key[i], both |-> u /\ m]
  BY DEF skw_set_default_key, keyRx
<1>2. keyFuel' \in KeyFuel /\ keyFuel'.keys = keyFuel.keys BY <1>1, FuelKept
<1>3. conf["iface"].key[i] \in 0 .. MaxKeys BY SlotOf DEF KeyInv, KeyTypeOK, Conf
<1>4. /\ call' \in KeyCalls /\ call'.at \in {"unicast", "multicast"} /\ call'.c = "iface" /\ call'.i = i
      /\ call'.id = conf["iface"].key[i]
  BY <1>1, <1>3, SlotOf DEF KeyCalls
<1>5. KeyTypeOK' BY <1>1, <1>2, <1>4 DEF KeyInv, KeyTypeOK, KeyFuel
<1>6. CallInv' BY <1>1, <1>4, SlotOf DEF CallInv
<1>7. TableInv'
  <2>1. \A e \in KnownConfs, j \in KeyIdx : InStep(e, j) BY <1>1 DEF KeyInv, TableInv, Pending, NoCall
  <2>2. KnownConfs' = KnownConfs BY <1>1 DEF KnownConfs
  <2>3. \A e \in KnownConfs, j \in KeyIdx : InStep(e, j)' BY <1>1, <2>1 DEF InStep
  <2> QED BY <1>1, <2>2, <2>3 DEF KeyInv, TableInv
<1>8. ReplayInv' BY <1>1, <1>2, ReplaySame
<1> QED BY <1>1, <1>5, <1>6, <1>7, <1>8 DEF KeyInv, KeysNoReplay, KeysNewAccepted

LEMMA CallMoved ==
    ASSUME NEW b \in KeyCalls
    PROVE  LET d == [b EXCEPT !.at = "multicast", !.both = FALSE] IN
           d \in KeyCalls /\ d.at = "multicast" /\ d.c = b.c /\ d.i = b.i /\ d.id = b.id
BY DEF KeyCalls

LEMMA DefaultAnsweredStep == ASSUME KeyInv, DefaultKeyAnswered PROVE KeyInv'
<1> DEFINE i == call.i
           id == call.id
           slot == IF call.at = "unicast" THEN "unicast" ELSE "iface"
<1>1. /\ call \in KeyCalls /\ call.at \in {"unicast", "multicast"} /\ i \in KeyIdx /\ call.c = "iface"
      /\ id # NoKey /\ conf["iface"].key[i] = id /\ id \in 0 .. MaxKeys
  BY DEF KeyInv, KeyTypeOK, CallInv, KeyCalls, DefaultKeyAnswered
<1>2. /\ UNCHANGED <<conf, keyPeer, fwpeer, sender, air, look>>
      /\ call' \in {NoCall, [call EXCEPT !.at = "multicast", !.both = FALSE]}
      /\ \/ fwkeys' = [fwkeys EXCEPT ![<<slot, i>>] = id] /\ UNCHANGED <<keySeen, keyFuel>>
         \/ KeyRefused /\ UNCHANGED fwkeys
  BY DEF DefaultKeyAnswered, keyRx
<1>3. /\ call' \in KeyCalls
      /\ call' = NoCall \/ (call'.at = "multicast" /\ call'.c = "iface" /\ call'.i = i /\ call'.id = id)
  <2>1. NoCall \in KeyCalls BY KeyConstants DEF NoCall, KeyCalls, Confs, NoKey
  <2> QED BY <1>1, <1>2, <2>1, CallMoved
<1>4. /\ keyFuel' \in KeyFuel /\ keyFuel'.keys = keyFuel.keys /\ keySeen' \in KeyGhost
      /\ keySeen'.top = keySeen.top /\ keySeen'.back = keySeen.back
      /\ keySeen'.mixed = keySeen.mixed /\ keySeen'.lost = keySeen.lost
      /\ (keySeen'.refused \/ keySeen' = keySeen)
  BY <1>2, FuelKept DEF KeyInv, KeyTypeOK, KeyFuel, KeyGhost
<1>5. fwkeys \in [Slots -> 0 .. MaxKeys] /\ <<slot, i>> \in Slots
  BY <1>1 DEF KeyInv, KeyTypeOK, Slots, Confs
<1>6. slot \in {"unicast", "iface"} OBVIOUS
<1>7. \A e \in KnownConfs, j \in KeyIdx : InStep(e, j) BY <1>1 DEF KeyInv, TableInv, Pending
<1>8. CallInv' BY <1>1, <1>2, <1>3, SlotOf DEF CallInv, NoCall
<1> HIDE DEF i, id, slot
<1>9. /\ fwkeys' \in [Slots -> 0 .. MaxKeys]
      /\ \A e \in Confs, j \in KeyIdx : ~(e = "iface" /\ j = i) => fwkeys'[<<e, j>>] = fwkeys[<<e, j>>]
      /\ fwkeys'[<<"iface", i>>] \in {fwkeys[<<"iface", i>>], id}
  <2>1. \A e \in Confs : e # "unicast" BY DEF Confs
  <2> QED BY <1>1, <1>2, <1>5, <1>6, <2>1, SlotOf
<1>10. KeyTypeOK' BY <1>2, <1>3, <1>4, <1>9 DEF KeyInv, KeyTypeOK, KeyFuel, KeyGhost
<1>11. TableInv'
  <2>1. KnownConfs' = KnownConfs /\ KnownConfs \subseteq Confs BY <1>2 DEF KnownConfs
  <2>2. ASSUME NEW e \in KnownConfs, NEW j \in KeyIdx PROVE InStep(e, j)'
    <3>1. InStep(e, j) /\ e \in Confs BY <1>7, <2>1
    <3>2. CASE e = "iface" /\ j = i
      <4>1. fwkeys'[<<e, j>>] \in {fwkeys[<<e, j>>], conf[e].key[j]} /\ conf[e].key[j] # NoKey
        BY <1>1, <1>9, <3>2
      <4> QED BY <1>2, <1>4, <3>1, <4>1 DEF InStep
    <3>3. CASE ~(e = "iface" /\ j = i)
      <4>1. fwkeys'[<<e, j>>] = fwkeys[<<e, j>>] BY <1>9, <3>1, <3>3
      <4> QED BY <1>2, <1>4, <3>1, <4>1 DEF InStep
    <3> QED BY <3>2, <3>3
  <2>3. (~fwpeer /\ ~keySeen.refused => \A e \in OfPeer, j \in KeyIdx : fwkeys[<<e, j>>] = NoKey)'
    <3>1. ~fwpeer /\ ~keySeen.refused => \A e \in OfPeer, j \in KeyIdx : fwkeys[<<e, j>>] = NoKey
      BY DEF KeyInv, TableInv
    <3>2. \A e \in OfPeer : e \in Confs /\ e # "iface" BY SlotOf
    <3> QED BY <1>2, <1>4, <1>9, <3>1, <3>2
  <2> QED BY <1>2, <2>1, <2>2, <2>3 DEF KeyInv, TableInv
<1>12. ReplayInv'
  <2>1. look' # -1 => look' \in KeyIdx /\ keyPeer' /\ air' # <<>> BY <1>2 DEF KeyInv, ReplayInv
  <2> QED BY <1>2, <1>4, <2>1, ReplayKept
<1> QED BY <1>4, <1>8, <1>10, <1>11, <1>12 DEF KeyInv, KeysNoReplay, KeysNewAccepted

(* skw_key_idx returns an installed index, or none. *)
LEMMA KeyIdxFound ==
    ASSUME NEW b \in SUBSET KeyIdx
    PROVE  skw_key_idx(b) = -1 \/ skw_key_idx(b) \in b
<1>1. IsFiniteSet(b) BY KeyConstants, FS_Subset
<1>2. Cardinality(b) = 1 => b # {} BY <1>1, FS_EmptySet
<1> QED BY <1>2 DEF skw_key_idx

LEMMA JoinStep == ASSUME KeyInv, Join PROVE KeyInv'
<1> DEFINE i == skw_key_idx(conf["iface"].bitmap)
<1>1. /\ call = NoCall /\ ~keyPeer /\ ~fwpeer /\ KeyCall /\ keyPeer' = TRUE /\ fwpeer' = TRUE
      /\ UNCHANGED <<conf, call, sender, air, look, keySeen>>
      /\ \/ i # -1 /\ fwkeys' = [fwkeys EXCEPT ![<<"unicast", i>>] = conf["iface"].key[i]]
         \/ UNCHANGED fwkeys
  BY DEF Join, keyRx, skw_set_sta_wep_key
<1>2. keyFuel' \in KeyFuel /\ keyFuel'.keys = keyFuel.keys BY <1>1, FuelKept
<1>3. conf["iface"] \in Conf /\ fwkeys \in [Slots -> 0 .. MaxKeys] BY SlotOf DEF KeyInv, KeyTypeOK
<1>4. i # -1 => i \in KeyIdx
  <2>1. conf["iface"].bitmap \in SUBSET KeyIdx BY <1>3 DEF Conf
  <2> QED BY <2>1, KeyIdxFound
<1> HIDE DEF i
<1>5. i # -1 => conf["iface"].key[i] \in 0 .. MaxKeys /\ <<"unicast", i>> \in Slots BY <1>3, <1>4 DEF Conf, Slots
<1>6. /\ fwkeys' \in [Slots -> 0 .. MaxKeys]
      /\ \A e \in Confs, j \in KeyIdx : fwkeys'[<<e, j>>] = fwkeys[<<e, j>>]
  <2>1. \A e \in Confs : e # "unicast" BY DEF Confs
  <2> QED BY <1>1, <1>3, <1>5, <2>1, SlotOf
<1>7. KeyTypeOK' BY <1>1, <1>2, <1>6 DEF KeyInv, KeyTypeOK, KeyFuel
<1>8. CallInv' BY <1>1 DEF KeyInv, CallInv
<1>9. TableInv'
  <2>1. ASSUME NEW e \in Confs, NEW j \in KeyIdx PROVE InStep(e, j)'
    <3>1. CASE e = "iface"
      <4>1. InStep(e, j) BY <1>1, <3>1 DEF KeyInv, TableInv, KnownConfs, Pending, NoCall
      <4> QED BY <1>1, <1>6, <4>1 DEF InStep
    <3>2. CASE e \in OfPeer
      <4>1. conf[e].key[j] = NoKey BY <1>1, <3>2 DEF KeyInv, TableInv, EmptyConf
      <4>2. ~keySeen.refused => fwkeys[<<e, j>>] = NoKey BY <1>1, <3>2 DEF KeyInv, TableInv
      <4> QED BY <1>1, <1>6, <4>1, <4>2 DEF InStep
    <3> QED BY <3>1, <3>2 DEF Confs, OfPeer
  <2>2. KnownConfs' \subseteq Confs BY DEF KnownConfs
  <2>3. \A e \in KnownConfs', j \in KeyIdx : InStep(e, j)' BY <2>1, <2>2
  <2>4. \A e \in Confs : conf'[e].bitmap = {j \in KeyIdx : conf'[e].key[j] # NoKey} BY <1>1 DEF KeyInv, TableInv
  <2> QED BY <1>1, <2>3, <2>4 DEF TableInv
<1>10. ReplayInv'
  <2>1. look' # -1 => look' \in KeyIdx /\ keyPeer' /\ air' # <<>> BY <1>1 DEF KeyInv, ReplayInv
  <2> QED BY <1>1, <1>2, <2>1, ReplayKept
<1> QED BY <1>1, <1>7, <1>8, <1>9, <1>10 DEF KeyInv, KeysNoReplay, KeysNewAccepted

LEMMA DropsPeerStep == ASSUME KeyInv, FirmwareDropsPeer PROVE KeyInv'
<1>1. /\ ~fwpeer' /\ UNCHANGED <<conf, keyPeer, call, air, look, keySeen, keyFuel>>
      /\ fwkeys' = [s \in Slots |-> IF s[1] \in OfPeer THEN NoKey ELSE fwkeys[s]]
      /\ fwpeer' = FALSE /\ sender' = [id |-> NoKey, pn |-> 0]
  BY DEF FirmwareDropsPeer
<1>2. sender' \in [id : 0 .. MaxKeys, pn : Nat] BY <1>1, KeyConstants DEF NoKey
<1>3. fwkeys \in [Slots -> 0 .. MaxKeys] /\ NoKey \in 0 .. MaxKeys BY KeyConstants DEF KeyInv, KeyTypeOK, NoKey
<1>4. /\ fwkeys' \in [Slots -> 0 .. MaxKeys]
      /\ \A e \in Confs, j \in KeyIdx : fwkeys'[<<e, j>>] = IF e \in OfPeer THEN NoKey ELSE fwkeys[<<e, j>>]
  BY <1>1, <1>3, SlotOf
<1>5. KeyTypeOK' BY <1>1, <1>2, <1>4 DEF KeyInv, KeyTypeOK
<1>6. CallInv' BY <1>1 DEF KeyInv, CallInv
<1>7. TableInv'
  <2>1. ASSUME NEW e \in KnownConfs', NEW j \in KeyIdx, ~Pending(e, j)' PROVE InStep(e, j)'
    <3>1. e = "iface" /\ e \in KnownConfs /\ e \in Confs /\ e \notin OfPeer BY <1>1, SlotOf DEF KnownConfs
    <3>2. ~Pending(e, j) BY <1>1, <2>1 DEF Pending
    <3>3. InStep(e, j) BY <3>1, <3>2 DEF KeyInv, TableInv
    <3> QED BY <1>1, <1>4, <3>1, <3>3 DEF InStep
  <2>2. \A e \in OfPeer, j \in KeyIdx : fwkeys'[<<e, j>>] = NoKey BY <1>4, SlotOf
  <2> QED BY <1>1, <2>1, <2>2 DEF KeyInv, TableInv
<1>8. ReplayInv' BY <1>1 DEF KeyInv, ReplayInv
<1> QED BY <1>1, <1>5, <1>6, <1>7, <1>8 DEF KeyInv, KeysNoReplay, KeysNewAccepted

LEMMA EmptyTable ==
    /\ EmptyConf \in Conf /\ EmptyConf.bitmap = {} /\ EmptyConf.cipher = "none"
    /\ \A i \in KeyIdx : EmptyConf.key[i] = NoKey /\ EmptyConf.rx_pn[i] = 0
BY KeyConstants DEF EmptyConf, Conf, NoKey

LEMMA PeerFreeStep == ASSUME KeyInv, skw_peer_free PROVE KeyInv'
<1>1. /\ ~fwpeer /\ ~(call # NoCall /\ call.c \in OfPeer)
      /\ keyPeer' = FALSE /\ air' = <<>> /\ look' = -1
      /\ conf' = [c \in Confs |-> IF c \in OfPeer THEN EmptyConf ELSE conf[c]]
      /\ UNCHANGED <<call, fwkeys, fwpeer, sender, keySeen, keyFuel>>
  BY DEF skw_peer_free
<1>2. conf \in [Confs -> Conf] BY DEF KeyInv, KeyTypeOK
<1>3. conf' \in [Confs -> Conf] BY <1>1, <1>2, EmptyTable
<1>4. \A c \in Confs : conf'[c] = IF c \in OfPeer THEN EmptyConf ELSE conf[c] BY <1>1
<1>5. air' \in Seq([id : Ids, pn : Nat]) BY <1>1
<1>6. KeyTypeOK' BY <1>1, <1>3, <1>5 DEF KeyInv, KeyTypeOK
<1>7. CallInv'
  <2>1. call.at # "idle" => call.c \notin OfPeer /\ call.c \in Confs
    BY <1>1 DEF KeyInv, KeyTypeOK, KeyCalls, NoCall
  <2>2. call.at # "idle" => conf'[call.c] = conf[call.c] BY <1>4, <2>1
  <2>3. conf'["iface"] = conf["iface"] BY <1>4, SlotOf
  <2> QED BY <1>1, <2>1, <2>2, <2>3 DEF KeyInv, CallInv
<1>8. TableInv'
  <2>1. ASSUME NEW c \in Confs PROVE conf'[c].bitmap = {i \in KeyIdx : conf'[c].key[i] # NoKey}
    <3>1. CASE c \in OfPeer
      <4>1. conf'[c] = EmptyConf BY <1>4, <3>1
      <4> QED BY <4>1, EmptyTable
    <3>2. CASE c \notin OfPeer
      <4>1. conf'[c] = conf[c] BY <1>4, <3>2
      <4>2. conf[c].bitmap = {i \in KeyIdx : conf[c].key[i] # NoKey} BY DEF KeyInv, TableInv
      <4> QED BY <4>1, <4>2
    <3> QED BY <3>1, <3>2
  <2>2. \A c \in OfPeer : conf'[c] = EmptyConf BY <1>4, SlotOf
  <2>3. ASSUME NEW e \in KnownConfs', NEW j \in KeyIdx, ~Pending(e, j)' PROVE InStep(e, j)'
    <3>1. e = "iface" /\ e \in KnownConfs /\ e \in Confs /\ e \notin OfPeer BY <1>1, SlotOf DEF KnownConfs
    <3>2. ~Pending(e, j) BY <1>1, <2>3 DEF Pending
    <3>3. InStep(e, j) BY <3>1, <3>2 DEF KeyInv, TableInv
    <3>4. conf'[e] = conf[e] BY <1>4, <3>1
    <3> QED BY <1>1, <3>3, <3>4 DEF InStep
  <2>4. (~fwpeer /\ ~keySeen.refused => \A e \in OfPeer, j \in KeyIdx : fwkeys[<<e, j>>] = NoKey)'
    BY <1>1 DEF KeyInv, TableInv
  <2> QED BY <2>1, <2>2, <2>3, <2>4 DEF TableInv
<1>9. ReplayInv'
  <2>1. conf'["ptk"] = EmptyConf BY <1>4 DEF Confs, OfPeer
  <2> QED BY <1>1, <2>1, EmptyTable, ReplayKept
<1> QED BY <1>1, <1>6, <1>7, <1>8, <1>9 DEF KeyInv, KeysNoReplay, KeysNewAccepted

LEMMA PurgeStep == ASSUME KeyInv, skw_purge_key_conf PROVE KeyInv'
<1>1. /\ call = NoCall /\ ~keyPeer /\ KeyCall
      /\ conf' = [conf EXCEPT !["iface"] = EmptyConf]
      /\ fwkeys' = [s \in Slots |-> IF s[1] \in OfPeer THEN fwkeys[s] ELSE NoKey]
      /\ UNCHANGED <<keyPeer, call, fwpeer, sender, air, look, keySeen>>
  BY DEF skw_purge_key_conf, keyRx
<1>2. keyFuel' \in KeyFuel /\ keyFuel'.keys = keyFuel.keys BY <1>1, FuelKept
<1>3. conf \in [Confs -> Conf] BY DEF KeyInv, KeyTypeOK
<1>4. conf' \in [Confs -> Conf] /\ conf'["iface"] = EmptyConf /\ \A c \in Confs : c # "iface" => conf'[c] = conf[c]
  BY <1>1, <1>3, EmptyTable, SlotOf
<1>5. fwkeys \in [Slots -> 0 .. MaxKeys] /\ NoKey \in 0 .. MaxKeys BY KeyConstants DEF KeyInv, KeyTypeOK, NoKey
<1>6. /\ fwkeys' \in [Slots -> 0 .. MaxKeys]
      /\ \A e \in Confs, j \in KeyIdx : fwkeys'[<<e, j>>] = IF e \in OfPeer THEN fwkeys[<<e, j>>] ELSE NoKey
  BY <1>1, <1>5, SlotOf
<1>7. KeyTypeOK' BY <1>1, <1>2, <1>4, <1>6 DEF KeyInv, KeyTypeOK, KeyFuel
<1>8. CallInv' BY <1>1 DEF CallInv, NoCall
<1>9. TableInv'
  <2>1. ASSUME NEW c \in Confs PROVE conf'[c].bitmap = {i \in KeyIdx : conf'[c].key[i] # NoKey}
    <3>1. CASE c = "iface"
      <4>1. conf'[c] = EmptyConf BY <1>4, <3>1
      <4> QED BY <4>1, EmptyTable
    <3>2. CASE c # "iface"
      <4>1. conf'[c] = conf[c] BY <1>4, <3>2
      <4>2. conf[c].bitmap = {i \in KeyIdx : conf[c].key[i] # NoKey} BY DEF KeyInv, TableInv
      <4> QED BY <4>1, <4>2
    <3> QED BY <3>1, <3>2
  <2>2. \A c \in OfPeer : conf'[c] = EmptyConf
    <3>1. \A c \in OfPeer : conf[c] = EmptyConf BY <1>1 DEF KeyInv, TableInv
    <3> QED BY <1>4, <3>1, SlotOf
  <2>3. ASSUME NEW e \in KnownConfs', NEW j \in KeyIdx PROVE InStep(e, j)'
    <3>1. e = "iface" /\ e \notin OfPeer BY <1>1, SlotOf DEF KnownConfs
    <3>2. conf'[e].key[j] = NoKey /\ fwkeys'[<<e, j>>] = NoKey BY <1>4, <1>6, <3>1, EmptyTable, SlotOf
    <3> QED BY <3>2 DEF InStep
  <2>4. (~fwpeer /\ ~keySeen.refused => \A e \in OfPeer, j \in KeyIdx : fwkeys[<<e, j>>] = NoKey)'
    <3>1. ~fwpeer /\ ~keySeen.refused => \A e \in OfPeer, j \in KeyIdx : fwkeys[<<e, j>>] = NoKey
      BY DEF KeyInv, TableInv
    <3>2. \A e \in OfPeer, j \in KeyIdx : fwkeys'[<<e, j>>] = fwkeys[<<e, j>>] BY <1>6, SlotOf
    <3>3. UNCHANGED <<fwpeer, keySeen>> BY <1>1
    <3> QED BY <3>1, <3>2, <3>3
  <2> QED BY <2>1, <2>2, <2>3, <2>4 DEF TableInv
<1>10. ReplayInv'
  <2>1. conf'["ptk"] = conf["ptk"] BY <1>4, SlotOf
  <2>2. look' # -1 => look' \in KeyIdx /\ keyPeer' /\ air' # <<>> BY <1>1 DEF KeyInv, ReplayInv
  <2> QED BY <1>1, <1>2, <2>1, <2>2, ReplayKept
<1> QED BY <1>1, <1>7, <1>8, <1>9, <1>10 DEF KeyInv, KeysNoReplay, KeysNewAccepted

(* The peer's own steps leave the tables alone. *)
LEMMA TablesSame ==
    ASSUME KeyInv, UNCHANGED <<conf, keyPeer, call, fwkeys, fwpeer, keySeen>>
    PROVE  TableInv' /\ CallInv'
<1>1. KnownConfs' = KnownConfs BY DEF KnownConfs
<1>2. \A e \in KnownConfs, j \in KeyIdx : ~Pending(e, j)' => InStep(e, j)'
  BY DEF KeyInv, TableInv, Pending, InStep
<1> QED BY <1>1, <1>2 DEF KeyInv, TableInv, CallInv

LEMMA RekeysStep == ASSUME KeyInv, PeerRekeys PROVE KeyInv'
<1>1. UNCHANGED <<conf, keyPeer, call, fwkeys, fwpeer, air, look, keySeen, keyFuel>>
  BY DEF PeerRekeys, keyTables
<1>2. sender' \in [id : 0 .. MaxKeys, pn : Nat]
  <2>1. PICK i \in KeyIdx : sender' = [id |-> fwkeys[<<"ptk", i>>], pn |-> 1] BY DEF PeerRekeys
  <2> DEFINE k == fwkeys[<<"ptk", i>>]
  <2>2. k \in 0 .. MaxKeys BY SlotOf DEF KeyInv, KeyTypeOK
  <2>3. sender' = [id |-> k, pn |-> 1] BY <2>1
  <2> HIDE DEF k
  <2> QED BY <2>2, <2>3
<1>3. KeyTypeOK' BY <1>1, <1>2 DEF KeyInv, KeyTypeOK
<1>4. ReplayInv' BY <1>1 DEF KeyInv, ReplayInv
<1> QED BY <1>1, <1>3, <1>4, TablesSame DEF KeyInv, KeysNoReplay, KeysNewAccepted

LEMMA SendsStep == ASSUME KeyInv, PeerSends PROVE KeyInv'
<1>1. UNCHANGED <<conf, keyPeer, call, fwkeys, fwpeer, look, keySeen>> /\ sender.id # NoKey
      /\ keyFuel' = [keyFuel EXCEPT !.pn = @ - 1]
  BY DEF PeerSends, keyTables
<1>2. keyFuel' \in KeyFuel /\ keyFuel'.keys = keyFuel.keys
  <2>1. keyFuel \in KeyFuel /\ keyFuel.keys \in 0 .. MaxKeys BY DEF KeyInv, KeyTypeOK, KeyFuel
  <2> QED BY <1>1, <2>1, FuelRecord
<1>3. sender \in [id : 0 .. MaxKeys, pn : Nat] BY DEF KeyInv, KeyTypeOK
<1>4. PICK pn \in 1 .. sender.pn : /\ air' = Append(air, [id |-> sender.id, pn |-> pn])
                                   /\ sender' = [sender EXCEPT !.pn = IF pn = @ THEN @ + 1 ELSE @]
  BY DEF PeerSends
<1>5. sender' \in [id : 0 .. MaxKeys, pn : Nat] BY <1>3, <1>4
<1>6. [id |-> sender.id, pn |-> pn] \in [id : Ids, pn : Nat] BY <1>1, <1>3, <1>4, KeyConstants DEF Ids, NoKey
<1>7. air \in Seq([id : Ids, pn : Nat]) BY DEF KeyInv, KeyTypeOK
<1>8. air' \in Seq([id : Ids, pn : Nat]) /\ air' # <<>> BY <1>4, <1>6, <1>7
<1>9. KeyTypeOK' BY <1>1, <1>2, <1>5, <1>8 DEF KeyInv, KeyTypeOK, KeyFuel
<1>10. ReplayInv'
  <2>1. look' # -1 => look' \in KeyIdx /\ keyPeer' /\ air' # <<>> BY <1>1, <1>8 DEF KeyInv, ReplayInv
  <2> QED BY <1>1, <1>2, <2>1, ReplayKept
<1> QED BY <1>1, <1>9, <1>10, TablesSame DEF KeyInv, KeysNoReplay, KeysNewAccepted

LEMMA LooksStep == ASSUME KeyInv, ReplayLooks PROVE KeyInv'
<1> DEFINE i == skw_key_idx(conf["ptk"].bitmap)
<1>1. /\ look = -1 /\ air # <<>> /\ keyPeer
      /\ UNCHANGED <<conf, keyPeer, call, fwkeys, fwpeer, sender, keySeen, keyFuel>>
      /\ \/ air' = Tail(air) /\ UNCHANGED look
         \/ i # -1 /\ look' = i /\ UNCHANGED air
  BY DEF ReplayLooks, keyTables
<1>2. i # -1 => i \in KeyIdx
  <2>1. conf["ptk"].bitmap \in SUBSET KeyIdx BY SlotOf DEF KeyInv, KeyTypeOK, Conf
  <2> QED BY <2>1, KeyIdxFound
<1> HIDE DEF i
<1>3. air \in Seq([id : Ids, pn : Nat]) BY DEF KeyInv, KeyTypeOK
<1>4. air' \in Seq([id : Ids, pn : Nat]) BY <1>1, <1>3
<1>5. KeyTypeOK' BY <1>1, <1>4 DEF KeyInv, KeyTypeOK
<1>6. ReplayInv'
  <2>1. look' # -1 => look' \in KeyIdx /\ keyPeer' /\ air' # <<>> BY <1>1, <1>2
  <2> QED BY <1>1, <2>1, ReplayKept
<1> QED BY <1>1, <1>5, <1>6, TablesSame DEF KeyInv, KeysNoReplay, KeysNewAccepted

(* A check counts the frame's number in the pairwise table, and nothing else there. *)
LEMMA ConfCounted ==
    ASSUME conf \in [Confs -> Conf], NEW i \in KeyIdx, NEW v \in Nat
    PROVE  LET d == [conf EXCEPT !["ptk"].rx_pn[i] = v] IN
           /\ d \in [Confs -> Conf] /\ \A e \in Confs : e # "ptk" => d[e] = conf[e]
           /\ d["ptk"].key = conf["ptk"].key /\ d["ptk"].rx_pn = [conf["ptk"].rx_pn EXCEPT ![i] = v]
           /\ d["ptk"].bitmap = conf["ptk"].bitmap /\ d["ptk"].cipher = conf["ptk"].cipher
<1> DEFINE d == [conf EXCEPT !["ptk"].rx_pn[i] = v]
           r == [conf["ptk"] EXCEPT !.rx_pn = [conf["ptk"].rx_pn EXCEPT ![i] = v]]
<1>1. conf["ptk"] \in Conf /\ "ptk" \in Confs BY SlotOf
<1>2. [conf["ptk"].rx_pn EXCEPT ![i] = v] \in [KeyIdx -> Nat] BY <1>1 DEF Conf
<1>3. /\ r \in Conf /\ r.key = conf["ptk"].key /\ r.rx_pn = [conf["ptk"].rx_pn EXCEPT ![i] = v]
      /\ r.bitmap = conf["ptk"].bitmap /\ r.cipher = conf["ptk"].cipher
  BY <1>1, <1>2 DEF Conf
<1>4. d = [conf EXCEPT !["ptk"] = r] BY <1>1 DEF Conf
<1>5. d["ptk"] = r /\ d = [b \in Confs |-> d[b]] /\ \A b \in Confs : b # "ptk" => d[b] = conf[b]
  <2> HIDE DEF d, r
  <2> QED BY <1>1, <1>4
<1> HIDE DEF d, r
<1>6. \A b \in Confs : d[b] \in Conf BY <1>3, <1>5
<1>7. d \in [Confs -> Conf] BY <1>5, <1>6
<1> QED BY <1>3, <1>5, <1>7 DEF d

LEMMA ChecksStep == ASSUME KeyInv, ReplayChecks PROVE KeyInv'
<1> DEFINE f == Head(air)
           id == conf["ptk"].key[look]
           top == keySeen.top[f.id]
           rx == conf["ptk"].rx_pn[look]
           new == f.pn > top
           allowed == skw_pn_allowed(f.pn, rx)
<1>1. /\ look # -1 /\ look' = -1 /\ air' = Tail(air)
      /\ UNCHANGED <<keyPeer, call, fwkeys, fwpeer, sender, keyFuel>>
      /\ id = NoKey => UNCHANGED <<conf, keySeen>>
      /\ id # NoKey =>
           /\ conf' = IF allowed THEN [conf EXCEPT !["ptk"].rx_pn[look] = f.pn] ELSE conf
           /\ keySeen' = [keySeen EXCEPT !.top[f.id] = IF allowed /\ new /\ id = f.id THEN f.pn ELSE top,
                                         !.back = keySeen.back \/ (allowed /\ id = f.id /\ f.pn < top),
                                         !.mixed = keySeen.mixed \/ (allowed /\ id # f.id),
                                         !.lost = keySeen.lost \/ (~allowed /\ id = f.id /\ new)]
  BY DEF ReplayChecks, keyTables
<1>2. look \in KeyIdx /\ keyPeer /\ air # <<>> BY <1>1 DEF KeyInv, ReplayInv
<1>3. air \in Seq([id : Ids, pn : Nat]) BY DEF KeyInv, KeyTypeOK
<1>4. f \in [id : Ids, pn : Nat] /\ air' \in Seq([id : Ids, pn : Nat])
  <2> DEFINE F == [id : Ids, pn : Nat]
  <2> HIDE DEF F
  <2>1. air \in Seq(F) BY <1>3 DEF F
  <2>2. Head(air) \in F /\ Tail(air) \in Seq(F) BY <1>2, <2>1
  <2> QED BY <1>1, <2>2 DEF F
<1>5. f.id \in Ids /\ f.pn \in Nat BY <1>4
<1>6. conf \in [Confs -> Conf] /\ conf["ptk"] \in Conf /\ keySeen \in KeyGhost
  BY SlotOf DEF KeyInv, KeyTypeOK, KeyGhost
<1>7. id \in 0 .. MaxKeys /\ rx \in Nat /\ top \in Nat BY <1>2, <1>5, <1>6 DEF Conf, KeyGhost
<1>8. CASE id = NoKey
  <2>1. KeyTypeOK' BY <1>1, <1>4, <1>8 DEF KeyInv, KeyTypeOK
  <2>2. ReplayInv' BY <1>1, <1>8, ReplayKept
  <2> QED BY <1>1, <1>8, <2>1, <2>2, TablesSame DEF KeyInv, KeysNoReplay, KeysNewAccepted
<1>9. CASE id # NoKey
  <2> DEFINE v == IF allowed /\ new /\ id = f.id THEN f.pn ELSE top
             b == keySeen.back \/ (allowed /\ id = f.id /\ f.pn < top)
             m == keySeen.mixed \/ (allowed /\ id # f.id)
             l == keySeen.lost \/ (~allowed /\ id = f.id /\ new)
  <2>1. allowed <=> f.pn >= rx BY DEF skw_pn_allowed
  <2>2. top <= rx \/ id # f.id BY <1>2, <1>9 DEF KeyInv, ReplayInv
  <2>3. keySeen.mixed \/ rx <= top \/ id # f.id BY <1>2, <1>9 DEF KeyInv, ReplayInv
  <2>4. v \in Nat /\ b \in BOOLEAN /\ m \in BOOLEAN /\ l \in BOOLEAN BY <1>5, <1>6, <1>7 DEF KeyGhost
  <2>5. keySeen' = [keySeen EXCEPT !.top[f.id] = v, !.back = b, !.mixed = m, !.lost = l] BY <1>1, <1>9
  <2> HIDE DEF v, b, m, l, f, allowed, new, id, rx, top
  <2>6. /\ keySeen' \in KeyGhost /\ keySeen'.top = [keySeen.top EXCEPT ![f.id] = v] /\ keySeen'.back = b
        /\ keySeen'.refused = keySeen.refused /\ keySeen'.mixed = m /\ keySeen'.lost = l
    <3> DEFINE g == [keySeen EXCEPT !.top[f.id] = v, !.back = b, !.mixed = m, !.lost = l]
               T == [keySeen.top EXCEPT ![f.id] = v]
               h == [keySeen EXCEPT !.top = T, !.back = b, !.mixed = m, !.lost = l]
    <3>1. g.top = T /\ g.back = b /\ g.mixed = m /\ g.lost = l /\ g.refused = keySeen.refused BY <1>6 DEF KeyGhost
    <3>2. T \in [Ids -> Nat] BY <1>5, <1>6, <2>4 DEF KeyGhost
    <3>3. g = h BY <1>6 DEF KeyGhost
    <3>4. h \in KeyGhost
      <4> HIDE DEF T
      <4> QED BY <1>6, <2>4, <3>2 DEF KeyGhost
    <3>5. g \in KeyGhost
      <4> HIDE DEF g, h
      <4> QED BY <3>3, <3>4
    <3>6. /\ g \in KeyGhost /\ g.top = [keySeen.top EXCEPT ![f.id] = v] /\ g.back = b
          /\ g.refused = keySeen.refused /\ g.mixed = m /\ g.lost = l
      BY <3>1, <3>5 DEF T
    <3>7. keySeen' = g BY <2>5
    <3> HIDE DEF g
    <3> QED BY <3>6, <3>7
  <2>7. ~b
    BY <1>5, <1>7, <2>1, <2>2 DEF b, KeyInv, KeysNoReplay
  <2>8. l => m
    BY <1>5, <1>7, <2>1, <2>3 DEF l, m, new, KeyInv, KeysNewAccepted
  <2>9. /\ conf' \in [Confs -> Conf] /\ \A e \in Confs : e # "ptk" => conf'[e] = conf[e]
        /\ conf'["ptk"].key = conf["ptk"].key
        /\ conf'["ptk"].rx_pn = IF allowed THEN [conf["ptk"].rx_pn EXCEPT ![look] = f.pn] ELSE conf["ptk"].rx_pn
        /\ conf'["ptk"].bitmap = conf["ptk"].bitmap /\ conf'["ptk"].cipher = conf["ptk"].cipher
    <3>1. CASE allowed
      <4> DEFINE d == [conf EXCEPT !["ptk"].rx_pn[look] = f.pn]
      <4>1. /\ d \in [Confs -> Conf] /\ \A e \in Confs : e # "ptk" => d[e] = conf[e]
            /\ d["ptk"].key = conf["ptk"].key /\ d["ptk"].rx_pn = [conf["ptk"].rx_pn EXCEPT ![look] = f.pn]
            /\ d["ptk"].bitmap = conf["ptk"].bitmap /\ d["ptk"].cipher = conf["ptk"].cipher
        BY <1>2, <1>5, <1>6, ConfCounted
      <4>2. conf' = d BY <1>1, <1>9, <3>1
      <4> HIDE DEF d
      <4> QED BY <3>1, <4>1, <4>2
    <3>2. CASE ~allowed BY <1>1, <1>6, <1>9, <3>2
    <3> QED BY <3>1, <3>2
  <2>10. \A e \in Confs : conf'[e].key = conf[e].key /\ conf'[e].bitmap = conf[e].bitmap /\ conf'[e].cipher = conf[e].cipher
    BY <2>9
  <2>11. KeyTypeOK' BY <1>1, <1>4, <2>6, <2>9 DEF KeyInv, KeyTypeOK, KeyGhost
  <2>12. CallInv'
    <3>1. call.c \in Confs BY DEF KeyInv, KeyTypeOK, KeyCalls
    <3> QED BY <1>1, <2>10, <3>1, SlotOf DEF KeyInv, CallInv
  <2>13. TableInv'
    <3>1. KnownConfs' = KnownConfs /\ KnownConfs \subseteq Confs BY <1>1 DEF KnownConfs
    <3>2. \A e \in KnownConfs, j \in KeyIdx : ~Pending(e, j)' => InStep(e, j)'
      <4>1. \A e \in KnownConfs, j \in KeyIdx : ~Pending(e, j)' => InStep(e, j)
        BY <1>1 DEF KeyInv, TableInv, Pending
      <4> QED BY <1>1, <2>6, <2>10, <3>1, <4>1 DEF InStep
    <3>3. ~keyPeer' => \A e \in OfPeer : conf'[e] = EmptyConf BY <1>1, <1>2
    <3>4. \A e \in Confs : conf'[e].bitmap = {j \in KeyIdx : conf'[e].key[j] # NoKey}
      <4>1. \A e \in Confs : conf[e].bitmap = {j \in KeyIdx : conf[e].key[j] # NoKey} BY DEF KeyInv, TableInv
      <4> QED BY <2>10, <4>1
    <3>5. (~fwpeer /\ ~keySeen.refused => \A e \in OfPeer, j \in KeyIdx : fwkeys[<<e, j>>] = NoKey)'
      BY <1>1, <2>6 DEF KeyInv, TableInv
    <3> QED BY <3>1, <3>2, <3>3, <3>4, <3>5 DEF TableInv
  <2>14. ReplayInv'
    <3>1. id <= keyFuel.keys BY <1>2 DEF KeyInv, ReplayInv, id
    <3>2. \A k \in Ids : keySeen'.top[k] = IF k = f.id THEN v ELSE keySeen.top[k]
      BY <1>5, <1>6, <2>6 DEF KeyGhost
    <3>3. v = top \/ (v = f.pn /\ id = f.id /\ allowed /\ v > top) BY <1>5, <1>7 DEF v, new
    <3>4. \A k \in Ids : k > keyFuel.keys => keySeen'.top[k] = 0
      <4>1. ASSUME NEW k \in Ids, k > keyFuel.keys PROVE keySeen'.top[k] = 0
        <5>1. keySeen.top[k] = 0 BY <4>1 DEF KeyInv, ReplayInv
        <5>2. CASE k # f.id BY <3>2, <5>1, <5>2
        <5>3. CASE k = f.id
          <6>1. id # f.id BY <3>1, <4>1, <5>3, <1>7, KeyConstants DEF Ids, KeyInv, KeyTypeOK
          <6>2. v = top BY <3>3, <6>1
          <6> QED BY <3>2, <5>1, <5>3, <6>2 DEF top
        <5> QED BY <5>2, <5>3
      <4> QED BY <4>1
    <3>5. ASSUME NEW j \in KeyIdx, conf["ptk"].key[j] # NoKey
          PROVE  /\ keySeen'.top[conf["ptk"].key[j]] <= conf'["ptk"].rx_pn[j]
                 /\ ~keySeen'.mixed => conf'["ptk"].rx_pn[j] <= keySeen'.top[conf["ptk"].key[j]]
      <4>1. conf["ptk"].key[j] \in Ids BY <1>6, <3>5, KeyConstants DEF Conf, Ids, NoKey
      <4>2. /\ keySeen.top[conf["ptk"].key[j]] <= conf["ptk"].rx_pn[j]
            /\ ~keySeen.mixed => conf["ptk"].rx_pn[j] <= keySeen.top[conf["ptk"].key[j]]
        BY <3>5 DEF KeyInv, ReplayInv
      <4>3. m <=> keySeen.mixed \/ (allowed /\ id # f.id) BY DEF m
      <4>4. CASE j = look
        <5>1. conf["ptk"].key[j] = id /\ conf["ptk"].rx_pn[j] = rx BY <4>4 DEF id, rx
        <5>2. conf'["ptk"].rx_pn[j] = IF allowed THEN f.pn ELSE rx BY <1>6, <2>9, <4>4, <5>1 DEF Conf
        <5>3. CASE id = f.id
          <6>1. keySeen'.top[id] = v /\ keySeen.top[id] = top BY <3>2, <4>1, <5>1, <5>3 DEF top
          <6>2. v = IF allowed /\ f.pn > top THEN f.pn ELSE top BY <5>3 DEF v, new
          <6> QED BY <1>5, <1>7, <2>1, <2>6, <4>2, <4>3, <5>1, <5>2, <5>3, <6>1, <6>2
        <5>4. CASE id # f.id
          <6>1. keySeen'.top[id] = keySeen.top[id] /\ keySeen.top[id] \in Nat
            BY <1>6, <3>2, <4>1, <5>1, <5>4 DEF KeyGhost
          <6> QED BY <1>5, <1>7, <2>1, <2>6, <4>2, <4>3, <5>1, <5>2, <5>4, <6>1
        <5> QED BY <5>3, <5>4
      <4>5. CASE j # look
        <5>1. conf["ptk"].key[j] # id BY <1>2, <3>5, <4>5 DEF KeyInv, ReplayInv, id
        <5>2. conf'["ptk"].rx_pn[j] = conf["ptk"].rx_pn[j] BY <1>6, <2>9, <4>5 DEF Conf
        <5>3. keySeen'.top[conf["ptk"].key[j]] = keySeen.top[conf["ptk"].key[j]]
          BY <3>2, <3>3, <4>1, <5>1 DEF top
        <5> QED BY <2>6, <4>2, <4>3, <5>2, <5>3
      <4> QED BY <4>4, <4>5
    <3> QED BY <1>1, <2>9, <3>4, <3>5 DEF KeyInv, ReplayInv
  <2> QED BY <2>6, <2>7, <2>8, <2>11, <2>12, <2>13, <2>14 DEF KeyInv, KeysNoReplay, KeysNewAccepted
<1> QED BY <1>8, <1>9

(* Every step keeps the invariant of the key tables and the packet numbers: KeyInv is inductive, over any
   indices, keys and refusals (skw_key.c with skw_replay_detect). *)
THEOREM KeysInvariance == KeySpec => []KeyInv
<1>1. ASSUME KeyInv, [KeyNext]_KeyVars PROVE KeyInv'
  <2>1. CASE UNCHANGED KeyVars
    <3>1. UNCHANGED <<conf, keyPeer, call, fwkeys, fwpeer, sender, air, look, keySeen, keyFuel>> BY <2>1 DEF KeyVars
    <3>2. KeyTypeOK' BY <1>1, <3>1 DEF KeyInv, KeyTypeOK
    <3>3. ReplayInv' BY <1>1, <3>1 DEF KeyInv, ReplayInv
    <3> QED BY <1>1, <3>1, <3>2, <3>3, TablesSame DEF KeyInv, KeysNoReplay, KeysNewAccepted
  <2>2. CASE KeyNext
    BY <1>1, <2>2, AddStep, DelStep, AnswerStep, RemoveStep, SetDefaultStep, DefaultAnsweredStep, JoinStep,
       DropsPeerStep, PeerFreeStep, PurgeStep, RekeysStep, SendsStep, LooksStep, ChecksStep
    DEF KeyNext
  <2> QED BY <1>1, <2>1, <2>2
<1> QED BY <1>1, KeyInitInv, PTL DEF KeySpec

(* Between calls the driver's tables and the firmware's slots hold the same keys, a peer that is gone leaves no key
   behind, an accepted packet number never goes back, and a new frame is refused only after a frame of
   another key was counted: for every number of indices, keys, calls and refused commands. *)
THEOREM KeysSafety == KeySpec => []KeysSafe
<1>1. KeyInv => KeysSafe
  <2> SUFFICES ASSUME KeyInv PROVE KeysSafe OBVIOUS
  <2>1. ASSUME call = NoCall, NEW c \in KnownConfs, NEW i \in KeyIdx, conf[c].cipher # "wep"
        PROVE  /\ conf[c].key[i] # NoKey => fwkeys[<<c, i>>] = conf[c].key[i]
               /\ ~keySeen.refused => fwkeys[<<c, i>>] = conf[c].key[i]
    <3>1. InStep(c, i) BY <2>1 DEF KeyInv, TableInv, Pending, NoCall
    <3> QED BY <2>1, <3>1 DEF InStep
  <2>2. KeysInStep BY <2>1 DEF KeyInv, TableInv, KeysInStep
  <2> QED BY <2>2 DEF KeyInv, KeysSafe
<1> QED BY <1>1, KeysInvariance, PTL

----------------------------------------------------------------------------
(* A fragment as it is numbered by its sender. *)
Sn(t) == (count[t] - 1) % FragSnMod
Sns == {(c - 1) % FragSnMod : c \in Nat}
Frame == [n : Int, tid : Tids, sn : Sns, frag_num : Nat, more : BOOLEAN, pn : Int]
Collected == [tid : Tids, sn : Sns, frag_num : Nat, chk : BOOLEAN, last_pn : Int, list : Seq(Frame)]
Msdu == [n : Int, k : Nat, of : Nat, dest : Destinations, ok : BOOLEAN, newer : Nat]

FragTypeOK ==
    /\ frag \in Seq(Collected)
    /\ network \in [cipher : {"open", "mixed", "ccmp"}, ap : BOOLEAN]
    /\ rxPn \in [Tids -> Int] /\ cur \in [Tids -> Msdu] /\ count \in [Tids -> Nat]
    /\ up \in [list : Seq(Frame), to : SUBSET {"air", "up"}] /\ bad \in BOOLEAN
    /\ repeats \in Int /\ fragFuel \in [msdus : Nat, faults : Int]

(* Fragments 0 to the last of those collected, and under CCMP all of the MSDU of the first, whose
   packet numbers tell it from every other. *)
Unbroken(list) == \A k \in 1 .. Len(list) : list[k].frag_num = k - 1 /\ list[k].more
OfOne(list) == \A k \in 1 .. Len(list) : list[k].n = list[1].n
Sound(e) ==
    /\ Len(e.list) = e.frag_num + 1 /\ Unbroken(e.list)
    /\ e.chk <=> network.cipher = "ccmp"
    /\ e.chk => OfOne(e.list) /\ e.last_pn = e.list[1].n * MaxFrags + Len(e.list)

SameKey(d, e) == d.tid = e.tid /\ d.sn = e.sn
FragTable(table) ==
    /\ \A i \in 1 .. Len(table) : Sound(table[i])
    /\ \A i, j \in 1 .. Len(table) : SameKey(table[i], table[j]) => i = j

(* What a sender has sent and the numbers the receiver has seen. *)
SenderOf(t) ==
    /\ cur[t].k <= cur[t].of /\ cur[t].of <= MaxFrags /\ cur[t].n < fragFuel.msdus
    /\ \/ cur[t].n = -1 /\ rxPn[t] = 0 /\ cur[t].of = 0
       \/ cur[t].n >= 0 /\ cur[t].of > 0 /\ rxPn[t] <= cur[t].n * MaxFrags + cur[t].k
SenderInv == \A t \in Tids : SenderOf(t)

(* The entry of an MSDU of which everything has arrived, as far behind the newest entry as MSDUs
   have started since. *)
Wanted(t) == cur[t].ok /\ cur[t].newer < Entries /\ 0 < cur[t].k /\ cur[t].k < cur[t].of
Tracked(t) ==
    \E i \in 1 .. Len(frag) :
        /\ frag[i].tid = t /\ frag[i].sn = Sn(t) /\ frag[i].frag_num = cur[t].k - 1
        /\ frag[i].chk => frag[i].last_pn = cur[t].n * MaxFrags + cur[t].k
        /\ Len(frag) - i <= cur[t].newer

FragInv ==
    /\ FragTypeOK /\ FragTable(frag) /\ SenderInv
    /\ \A t \in Tids : Wanted(t) => Tracked(t)
    /\ FragSafe

\* A product tells its factors apart.
LEMMA Cancel == ASSUME NEW M \in Nat \ {0}, NEW a \in Int, NEW b \in Int, a * M = b * M PROVE a = b
<1>1. ASSUME NEW c \in Int, NEW d \in Int, c < d PROVE c * M < d * M
  <2>1. PICK e \in Nat \ {0} : d = c + e
    <3>1. d - c \in Nat \ {0} /\ d = c + (d - c) BY <1>1
    <3> QED BY <3>1
  <2>2. d * M = c * M + e * M BY <2>1
  <2>3. e * M >= M OBVIOUS
  <2>4. c * M \in Int /\ e * M \in Int OBVIOUS
  <2> QED BY <2>2, <2>3, <2>4
<1> QED BY <1>1

\* The bounds one by one.
LEMMA FragConstants == Entries \in Nat \ {0} /\ MaxFrags \in Nat \ {0} /\ MaxRepeats \in Nat /\ MaxFragFaults \in Nat
BY FragAssumption

\* A product with the most fragments of an MSDU is a number.
LEMMA Product == \A a \in Int : a * MaxFrags \in Int
BY FragAssumption

\* The packet numbers of an MSDU come after those of the one before.
LEMMA NextProduct == ASSUME NEW a \in Int, NEW b \in Int, a + 1 <= b PROVE a * MaxFrags + MaxFrags <= b * MaxFrags
<1>1. PICK e \in Nat : b = a + 1 + e
  <2>1. b - a - 1 \in Nat /\ b = a + 1 + (b - a - 1) OBVIOUS
  <2> QED BY <2>1
<1>2. PICK M \in Nat : M = MaxFrags BY FragAssumption
<1>3. b * M = a * M + M + e * M BY <1>1
<1>4. e * M \in Nat /\ a * M \in Int BY <1>1
<1>5. a * M + M <= b * M BY <1>3, <1>4
<1> QED BY <1>2, <1>5

\* The table is empty and no sender has begun.
LEMMA FragInitInv == FragInit => FragInv
<1> SUFFICES ASSUME FragInit PROVE FragInv OBVIOUS
<1> USE FragAssumption DEF FragInit
<1>1. NoMsdu \in Msdu BY DEF NoMsdu, Msdu, Destinations
<1>2. up \in [list : Seq(Frame), to : SUBSET {"air", "up"}] /\ up.list = << >> BY DEF Nothing
<1>3. rxPn \in [Tids -> Int] /\ cur \in [Tids -> Msdu] /\ count \in [Tids -> Nat] BY <1>1
<1>4. frag \in Seq(Collected) /\ network \in [cipher : {"open", "mixed", "ccmp"}, ap : BOOLEAN] OBVIOUS
<1>5. fragFuel \in [msdus : Nat, faults : Int] /\ repeats \in Int /\ bad \in BOOLEAN
  <2>1. bad \in BOOLEAN BY Zenon
  <2>2. fragFuel = [msdus |-> 0, faults |-> MaxFragFaults] /\ repeats = MaxRepeats OBVIOUS
  <2> QED BY <2>1, <2>2, FragConstants
<1>6. FragTable(frag) BY DEF FragTable
<1>7. SenderInv BY DEF SenderInv, SenderOf, NoMsdu
<1>8. \A t \in Tids : ~Wanted(t) BY DEF Wanted, NoMsdu
<1>9. FragSafe BY <1>2, Zenon DEF FragSafe, FragWhole, FragSurvives
<1> QED BY <1>2, <1>3, <1>4, <1>5, <1>6, <1>7, <1>8, <1>9 DEF FragInv, FragTypeOK

\* What a fragment says of its sender.
LEMMA FragmentFields ==
    ASSUME FragInv, NEW t \in Tids, NEW k \in Nat
    PROVE  LET f == Fragment(t, k)
           IN /\ f \in Frame /\ f.n = cur[t].n /\ f.tid = t /\ f.sn = Sn(t) /\ f.frag_num = k
              /\ f.more = (k + 1 < cur[t].of) /\ f.pn = cur[t].n * MaxFrags + k + 1
<1>1. cur[t] \in Msdu /\ count[t] \in Nat BY DEF FragInv, FragTypeOK
<1>2. cur[t].n \in Int /\ cur[t].of \in Nat /\ cur[t].k \in Nat BY <1>1 DEF Msdu
<1>3. Sn(t) \in Sns BY <1>1 DEF Sn, Sns
<1>4. cur[t].n * MaxFrags + k + 1 \in Int BY <1>2, Product
<1>5. (k + 1 < cur[t].of) \in BOOLEAN OBVIOUS
<1> QED BY <1>2, <1>3, <1>4, <1>5 DEF Fragment, Frame, Sn

\* The table without one entry.
LEMMA WithoutOne ==
    ASSUME frag \in Seq(Collected), NEW e \in 1 .. Len(frag)
    PROVE  /\ Without(e) \in Seq(Collected) /\ Len(Without(e)) = Len(frag) - 1
           /\ \A i \in 1 .. Len(frag) - 1 : Without(e)[i] = frag[IF i < e THEN i ELSE i + 1]
<1>1. Len(frag) \in Nat OBVIOUS
<1>2. \A i \in 1 .. Len(frag) - 1 : (IF i < e THEN i ELSE i + 1) \in 1 .. Len(frag) BY <1>1
<1>3. Without(e) \in [1 .. Len(frag) - 1 -> Collected] BY <1>2 DEF Without
<1>4. Len(frag) - 1 \in Nat BY <1>1
<1>5. Without(e) \in Seq(Collected) BY <1>3, <1>4
<1>6. Len(Without(e)) = Len(frag) - 1 BY <1>3, <1>4
<1> QED BY <1>5, <1>6 DEF Without

(* G is what is left of the table: some of its entries, in their order; those of other senders than
   t stay, except for the oldest of a full table. *)
Left(G, t) ==
    /\ G \in Seq(Collected) /\ FragTable(G)
    /\ \A j \in 1 .. Len(G) : \E i \in 1 .. Len(frag) : G[j] = frag[i]
    /\ \A i \in 1 .. Len(frag) : frag[i].tid # t =>
          \E j \in 1 .. Len(G) : G[j] = frag[i] /\ Len(G) - j <= Len(frag) - i

\* Without an entry of its own, a sender has left the others where they were.
LEMMA WithoutLeft ==
    ASSUME FragInv, NEW e \in 1 .. Len(frag), NEW t, frag[e].tid = t
    PROVE  Left(Without(e), t) /\ \A j \in 1 .. Len(Without(e)) : ~SameKey(Without(e)[j], frag[e])
<1> DEFINE G == Without(e)
<1>1. frag \in Seq(Collected) /\ Len(frag) \in Nat BY DEF FragInv, FragTypeOK
<1>2. /\ G \in Seq(Collected) /\ Len(G) = Len(frag) - 1
      /\ \A i \in 1 .. Len(frag) - 1 : G[i] = frag[IF i < e THEN i ELSE i + 1]
  BY <1>1, WithoutOne
<1> HIDE DEF G
<1>3. FragTable(frag) BY DEF FragInv
<1>4. ASSUME NEW j \in 1 .. Len(G)
      PROVE  \E i \in 1 .. Len(frag) : G[j] = frag[i] /\ i # e /\ i = (IF j < e THEN j ELSE j + 1)
  <2>1. CASE j < e
    <3>1. j \in 1 .. Len(frag) - 1 /\ j \in 1 .. Len(frag) /\ j # e BY <1>1, <1>2, <2>1
    <3>2. G[j] = frag[j] BY <1>2, <2>1, <3>1
    <3> QED BY <3>1, <3>2, <2>1
  <2>2. CASE ~(j < e)
    <3>1. j + 1 \in 1 .. Len(frag) /\ j + 1 # e BY <2>2, <1>1, <1>2
    <3>2. j \in 1 .. Len(frag) - 1 BY <1>2
    <3>3. G[j] = frag[j + 1] BY <1>2, <2>2, <3>2
    <3> QED BY <3>1, <3>3, <2>2
  <2> QED BY <2>1, <2>2
<1>5. FragTable(G)
  <2>1. \A i \in 1 .. Len(G) : Sound(G[i]) BY <1>3, <1>4 DEF FragTable
  <2>2. ASSUME NEW i \in 1 .. Len(G), NEW j \in 1 .. Len(G), SameKey(G[i], G[j]) PROVE i = j
    <3>1. PICK k \in 1 .. Len(frag) : G[i] = frag[k] /\ k = (IF i < e THEN i ELSE i + 1) BY <1>4
    <3>2. PICK l \in 1 .. Len(frag) : G[j] = frag[l] /\ l = (IF j < e THEN j ELSE j + 1) BY <1>4
    <3>3. k = l BY <3>1, <3>2, <2>2, <1>3 DEF FragTable
    <3> QED BY <3>1, <3>2, <3>3, <1>2
  <2> QED BY <2>1, <2>2 DEF FragTable
<1>6. ASSUME NEW i \in 1 .. Len(frag), frag[i].tid # t
      PROVE  \E j \in 1 .. Len(G) : G[j] = frag[i] /\ Len(G) - j <= Len(frag) - i
  <2>1. i # e BY <1>6
  <2>2. CASE i < e
    <3>1. i \in 1 .. Len(G) /\ G[i] = frag[i] BY <1>1, <1>2, <2>2
    <3>2. Len(G) - i <= Len(frag) - i BY <1>1, <1>2
    <3> QED BY <3>1, <3>2
  <2>3. CASE i > e
    <3>1. i - 1 \in 1 .. Len(frag) - 1 /\ ~(i - 1 < e) /\ (i - 1) + 1 = i BY <1>1, <2>3
    <3>2. i - 1 \in 1 .. Len(G) /\ G[i - 1] = frag[i] BY <1>2, <3>1
    <3>3. Len(G) - (i - 1) <= Len(frag) - i BY <1>1, <1>2
    <3> QED BY <3>2, <3>3
  <2> QED BY <2>1, <2>2, <2>3
<1>7. \A j \in 1 .. Len(G) : ~SameKey(G[j], frag[e]) BY <1>3, <1>4 DEF FragTable
<1>8. Left(G, t) BY <1>2, <1>4, <1>5, <1>6 DEF Left
<1> QED BY <1>7, <1>8 DEF G

\* Room is made for a first fragment.
LEMMA GetEntry ==
    ASSUME FragInv, NEW f \in Frame
    PROVE  LET G == skw_frag_get_entry(f)
           IN /\ G \in Seq(Collected) /\ FragTable(G)
              /\ \A j \in 1 .. Len(G) : ~SameKey(G[j], f)
              /\ \A i \in 1 .. Len(frag) : frag[i].tid # f.tid =>
                    \/ \E j \in 1 .. Len(G) : G[j] = frag[i] /\ Len(G) - j <= Len(frag) - i
                    \/ i = 1 /\ Len(frag) >= Entries
<1> DEFINE G == skw_frag_get_entry(f)
<1>1. frag \in Seq(Collected) /\ Len(frag) \in Nat /\ FragTable(frag) /\ DOMAIN frag = 1 .. Len(frag)
  BY DEF FragInv, FragTypeOK
<1>2. CASE Found(f) # {}
  <2>1. PICK e \in Found(f) : G = Without(e) BY <1>2 DEF skw_frag_get_entry
  <2>2. e \in 1 .. Len(frag) /\ frag[e].tid = f.tid /\ frag[e].sn = f.sn BY <1>1 DEF Found
  <2>3. Left(G, f.tid) /\ \A j \in 1 .. Len(G) : ~SameKey(G[j], frag[e]) BY <2>1, <2>2, WithoutLeft
  <2> HIDE DEF G
  <2>4. \A j \in 1 .. Len(G) : ~SameKey(G[j], f) BY <2>2, <2>3 DEF SameKey
  <2> QED BY <2>3, <2>4 DEF Left, G
<1>3. CASE Found(f) = {} /\ Len(frag) < Entries
  <2>1. G = frag BY <1>3 DEF skw_frag_get_entry
  <2>2. \A j \in 1 .. Len(frag) : ~SameKey(frag[j], f) BY <1>1, <1>3 DEF Found, SameKey
  <2> QED BY <1>1, <2>1, <2>2
<1>4. CASE Found(f) = {} /\ Len(frag) >= Entries
  <2>1. G = Tail(frag)
    <3>1. ~(Len(frag) < Entries) BY <1>1, <1>4, FragConstants
    <3> QED BY <3>1, <1>4 DEF skw_frag_get_entry
  <2>2. frag # << >> /\ Len(frag) > 0 BY <1>1, <1>4, FragAssumption
  <2>3. G \in Seq(Collected) /\ Len(G) = Len(frag) - 1 /\ \A j \in 1 .. Len(G) : G[j] = frag[j + 1]
    BY <1>1, <2>1, <2>2
  <2> HIDE DEF G
  <2>4. \A j \in 1 .. Len(G) : j + 1 \in 1 .. Len(frag) BY <1>1, <2>3
  <2>5. FragTable(G)
    <3>1. \A i \in 1 .. Len(G) : Sound(G[i]) BY <1>1, <2>3, <2>4 DEF FragTable
    <3>2. ASSUME NEW i \in 1 .. Len(G), NEW j \in 1 .. Len(G), SameKey(G[i], G[j]) PROVE i = j
      <4>1. i + 1 = j + 1 BY <1>1, <2>3, <2>4, <3>2 DEF FragTable
      <4> QED BY <4>1, <2>3, <1>1
    <3> QED BY <3>1, <3>2 DEF FragTable
  <2>6. \A j \in 1 .. Len(G) : ~SameKey(G[j], f) BY <1>1, <1>4, <2>3, <2>4 DEF Found, SameKey
  <2>7. ASSUME NEW i \in 1 .. Len(frag)
        PROVE  i = 1 \/ \E j \in 1 .. Len(G) : G[j] = frag[i] /\ Len(G) - j <= Len(frag) - i
    <3>1. CASE i # 1
      <4>1. i - 1 \in 1 .. Len(G) /\ G[i - 1] = frag[i] BY <1>1, <2>3, <3>1
      <4>2. Len(G) - (i - 1) <= Len(frag) - i BY ONLY <1>1, <2>3
      <4> QED BY ONLY <4>1, <4>2
    <3> QED BY ONLY <3>1
  <2>8. /\ G \in Seq(Collected) /\ FragTable(G) /\ \A j \in 1 .. Len(G) : ~SameKey(G[j], f)
        /\ \A i \in 1 .. Len(frag) : frag[i].tid # f.tid =>
              \/ \E j \in 1 .. Len(G) : G[j] = frag[i] /\ Len(G) - j <= Len(frag) - i
              \/ i = 1 /\ Len(frag) >= Entries
    BY ONLY <1>4, <2>3, <2>5, <2>6, <2>7
  <2> QED BY ONLY <2>8, ZenonT(30) DEF G
<1>5. Len(frag) < Entries \/ Len(frag) >= Entries BY <1>1, FragConstants
<1> QED BY <1>2, <1>3, <1>4, <1>5

(* What one frame does to the table. *)
Dropped(f) ==
    /\ frag' = frag /\ up' = Nothing /\ fragFuel' = fragFuel
    /\ \/ Replay(f)
       \/ /\ f.frag_num # 0
          /\ \/ Found(f) = {}
             \/ \E i \in Found(f) : frag[i].frag_num + 1 # f.frag_num \/ ~PnFollows(frag[i], f)
Single(f, dest) == f.frag_num = 0 /\ ~f.more /\ HandsUp(<<f>>, dest) /\ frag' = frag
Starts(f) == f.frag_num = 0 /\ f.more /\ skw_frag_init_entry(f) /\ up' = Nothing /\ fragFuel' = fragFuel
Fits(f, i) == f.frag_num # 0 /\ i \in Found(f) /\ frag[i].frag_num + 1 = f.frag_num /\ PnFollows(frag[i], f)
Collects(f, i) ==
    /\ Fits(f, i) /\ f.more /\ up' = Nothing /\ fragFuel' = fragFuel
    /\ frag' = [frag EXCEPT ![i] = [frag[i] EXCEPT !.frag_num = @ + 1, !.list = Append(frag[i].list, f),
                                                   !.last_pn = IF frag[i].chk THEN f.pn ELSE @]]
Completes(f, i, dest) ==
    /\ Fits(f, i) /\ ~f.more /\ frag' = Without(i)
    /\ \/ HandsUp(Append(frag[i].list, f), dest)
       \/ /\ fragFuel.faults > 0 /\ fragFuel' = [fragFuel EXCEPT !.faults = @ - 1] /\ up' = Nothing

\* The handler comes to one of five outcomes, and counts the packet number or not.
LEMMA Outcomes ==
    ASSUME NEW f \in Frame, NEW dest, skw_rx_handler(f, dest)
    PROVE  /\ rxPn' = (IF Replay(f) \/ network.cipher = "open" THEN rxPn ELSE [rxPn EXCEPT ![f.tid] = f.pn])
              \/ rxPn' = [rxPn EXCEPT ![f.tid] = rxPn[f.tid]]
           /\ \/ Dropped(f) \/ Single(f, dest) \/ Starts(f)
              \/ \E i \in Found(f) : Collects(f, i) \/ Completes(f, i, dest)
<1>1. CASE Replay(f) BY <1>1 DEF skw_rx_handler, Drops, Dropped
<1>2. CASE ~Replay(f)
  <2>1. skw_rx_defragment(f, dest) BY <1>2 DEF skw_rx_handler
  <2>2. rxPn' = [rxPn EXCEPT ![f.tid] = IF network.cipher = "open" THEN rxPn[f.tid] ELSE f.pn]
    BY <1>2 DEF skw_rx_handler
  <2> DEFINE i == CHOOSE e \in Found(f) : TRUE
             e == frag[i]
             list == Append(e.list, f)
             Goes == e.frag_num + 1 # f.frag_num \/ ~PnFollows(e, f)
             More == /\ frag' = [frag EXCEPT ![i] = [e EXCEPT !.frag_num = @ + 1, !.list = list,
                                                               !.last_pn = IF e.chk THEN f.pn ELSE @]]
                     /\ up' = Nothing /\ UNCHANGED fragFuel
             Ends == /\ frag' = Without(i)
                     /\ \/ HandsUp(list, dest)
                        \/ /\ fragFuel.faults > 0
                           /\ fragFuel' = [fragFuel EXCEPT !.faults = @ - 1]
                           /\ up' = Nothing
             Rest == IF Goes THEN Drops ELSE IF f.more THEN More ELSE Ends
  <2>6. IF f.frag_num = 0 /\ ~f.more THEN HandsUp(<<f>>, dest) /\ UNCHANGED frag
        ELSE IF f.frag_num = 0 THEN skw_frag_init_entry(f) /\ up' = Nothing /\ UNCHANGED fragFuel
        ELSE IF Found(f) = {} THEN Drops ELSE Rest
    BY <2>1, Zenon DEF skw_rx_defragment
  <2> HIDE DEF Rest
  <2>3. CASE f.frag_num = 0 BY <2>6, <2>3, <2>2, <1>2 DEF Single, Starts
  <2>4. CASE f.frag_num # 0 /\ Found(f) = {} BY <2>6, <2>4, <2>2, <1>2 DEF Drops, Dropped
  <2>5. CASE f.frag_num # 0 /\ Found(f) # {}
    <3>1. i \in Found(f) BY <2>5
    <3>2. Rest BY <2>5, <2>6
    <3>3. CASE Goes BY <3>1, <3>2, <3>3, <2>5, <2>2, <1>2 DEF Rest, Drops, Dropped
    <3>4. CASE ~Goes /\ f.more
      <4>1. More BY <3>2, <3>4 DEF Rest
      <4>2. Collects(f, i) BY <4>1, <3>1, <3>4, <2>5 DEF Collects, Fits
      <4> QED BY <4>2, <3>1, <2>2, <1>2
    <3>5. CASE ~Goes /\ ~f.more
      <4>1. Ends BY <3>2, <3>5 DEF Rest
      <4>2. Completes(f, i, dest) BY <4>1, <3>1, <3>5, <2>5 DEF Completes, Fits
      <4> QED BY <4>2, <3>1, <2>2, <1>2
    <3> QED BY <3>3, <3>4, <3>5, <2>2, <1>2
  <2> QED BY <2>2, <2>3, <2>4, <2>5, <1>2
<1> QED BY <1>1, <1>2

(* What a frame leaves behind: a sound table, in which the entries of the other senders are as far
   behind the newest as before, or one further when the frame started an entry. *)
Kept(t, d) ==
    \A i \in 1 .. Len(frag) : frag[i].tid # t =>
        \/ \E j \in 1 .. Len(frag') : frag'[j] = frag[i] /\ Len(frag') - j <= Len(frag) - i + d
        \/ d = 1 /\ i = 1 /\ Len(frag) >= Entries
Delivery == [list : Seq(Frame), to : SUBSET {"air", "up"}]
FragFuel == [msdus : Nat, faults : Int]
Started(f) == IF f.frag_num = 0 /\ f.more THEN 1 ELSE 0
Effect(f) ==
    /\ frag' \in Seq(Collected) /\ FragTable(frag)'
    /\ up' \in Delivery /\ FragWhole'
    /\ fragFuel' \in FragFuel /\ fragFuel'.msdus = fragFuel.msdus
    /\ Kept(f.tid, Started(f))

\* Nothing handed up is whole.
LEMMA NothingUp == up' = Nothing => up' \in Delivery /\ FragWhole'
BY DEF Nothing, Delivery, FragWhole

\* A frame that leaves the table alone.
LEMMA SameTable ==
    ASSUME FragInv, frag' = frag, network' = network, NEW f \in Frame
    PROVE  frag' \in Seq(Collected) /\ FragTable(frag)' /\ Kept(f.tid, Started(f))
<1>1. frag \in Seq(Collected) /\ FragTable(frag) /\ Len(frag) \in Nat BY DEF FragInv, FragTypeOK
<1>2. FragTable(frag)' BY <1>1 DEF FragTable, Sound
<1>3. \A i \in 1 .. Len(frag) : Len(frag) - i <= Len(frag) - i + Started(f) BY <1>1 DEF Started
<1>4. Kept(f.tid, Started(f)) BY <1>1, <1>3 DEF Kept
<1> QED BY <1>1, <1>2, <1>4

\* A list is handed up as it is, somewhere unless it is an echo or the copy fails.
LEMMA HandsUpEffect ==
    ASSUME FragInv, NEW list \in Seq(Frame), NEW dest \in Destinations, HandsUp(list, dest)
    PROVE  /\ up' \in Delivery /\ up'.list = list
           /\ fragFuel' \in FragFuel /\ fragFuel'.msdus = fragFuel.msdus
           /\ dest # "own" /\ fragFuel'.faults = fragFuel.faults => up'.to # {}
<1>1. \A c \in BOOLEAN : skw_deliver_skb(dest, c) \in SUBSET {"air", "up"} BY DEF skw_deliver_skb
<1>2. dest # "own" => \A c \in BOOLEAN : skw_deliver_skb(dest, c) # {} BY DEF skw_deliver_skb
<1>3. fragFuel \in FragFuel BY DEF FragInv, FragTypeOK, FragFuel
<1>4. CASE up' = [list |-> list, to |-> skw_deliver_skb(dest, TRUE)] /\ fragFuel' = fragFuel
  BY <1>1, <1>2, <1>3, <1>4 DEF Delivery
<1>5. CASE /\ fragFuel' = [fragFuel EXCEPT !.faults = @ - 1]
           /\ up' = [list |-> list, to |-> skw_deliver_skb(dest, FALSE)]
  <2>1. fragFuel' \in FragFuel /\ fragFuel'.msdus = fragFuel.msdus /\ fragFuel'.faults = fragFuel.faults - 1
    BY <1>3, <1>5 DEF FragFuel
  <2>2. fragFuel'.faults # fragFuel.faults BY <2>1, <1>3 DEF FragFuel
  <2> QED BY <1>1, <1>5, <2>1, <2>2 DEF Delivery
<1> QED BY <1>4, <1>5 DEF HandsUp

\* A frame dropped.
LEMMA DroppedEffect == ASSUME FragInv, network' = network, NEW f \in Frame, Dropped(f) PROVE Effect(f)
<1>1. frag' = frag /\ up' = Nothing /\ fragFuel' = fragFuel BY DEF Dropped
<1>2. fragFuel \in FragFuel BY DEF FragInv, FragTypeOK, FragFuel
<1> QED BY <1>1, <1>2, NothingUp, SameTable DEF Effect

\* A frame that is not fragmented.
LEMMA SingleEffect ==
    ASSUME FragInv, network' = network, NEW f \in Frame, NEW dest \in Destinations, Single(f, dest)
    PROVE  Effect(f) /\ (dest # "own" /\ fragFuel'.faults = fragFuel.faults => up'.to # {})
<1>1. <<f>> \in Seq(Frame) /\ Len(<<f>>) = 1 /\ <<f>>[1] = f OBVIOUS
<1>2. /\ up' \in Delivery /\ up'.list = <<f>>
      /\ fragFuel' \in FragFuel /\ fragFuel'.msdus = fragFuel.msdus
      /\ dest # "own" /\ fragFuel'.faults = fragFuel.faults => up'.to # {}
  BY <1>1, HandsUpEffect DEF Single
<1>3. FragWhole'
  <2>1. DOMAIN <<f>> = 1 .. 1 OBVIOUS
  <2> QED BY <1>1, <1>2, <2>1 DEF FragWhole, Single
<1>4. frag' \in Seq(Collected) /\ FragTable(frag)' /\ Kept(f.tid, Started(f)) BY SameTable DEF Single
<1> QED BY <1>2, <1>3, <1>4 DEF Effect

\* A first fragment takes the newest entry.
LEMMA StartsEffect ==
    ASSUME FragInv, network' = network, NEW f \in Frame, Starts(f), f.pn = f.n * MaxFrags + 1
    PROVE  /\ Effect(f)
           /\ LET i == Len(frag')
              IN /\ i \in 1 .. Len(frag') /\ frag'[i].tid = f.tid /\ frag'[i].sn = f.sn /\ frag'[i].frag_num = 0
                 /\ frag'[i].last_pn = f.pn
<1> DEFINE G == skw_frag_get_entry(f)
           e == [tid |-> f.tid, sn |-> f.sn, frag_num |-> 0, chk |-> network.cipher = "ccmp",
                 last_pn |-> f.pn, list |-> <<f>>]
<1>1. frag' = Append(G, e) BY DEF Starts, skw_frag_init_entry
<1>2. /\ G \in Seq(Collected) /\ FragTable(G)
      /\ \A j \in 1 .. Len(G) : ~SameKey(G[j], f)
      /\ \A i \in 1 .. Len(frag) : frag[i].tid # f.tid =>
            \/ \E j \in 1 .. Len(G) : G[j] = frag[i] /\ Len(G) - j <= Len(frag) - i
            \/ i = 1 /\ Len(frag) >= Entries
  BY GetEntry
<1>3. <<f>> \in Seq(Frame) /\ Len(<<f>>) = 1 /\ <<f>>[1] = f OBVIOUS
<1>4. e \in Collected BY <1>3 DEF Collected, Frame
<1>5. Sound(e)
  <2>1. Unbroken(e.list) /\ OfOne(e.list) BY <1>3 DEF Unbroken, OfOne, Starts
  <2>2. e.last_pn = e.list[1].n * MaxFrags + Len(e.list) BY <1>3
  <2>3. Len(e.list) = e.frag_num + 1 BY <1>3
  <2>4. e.chk <=> network.cipher = "ccmp" OBVIOUS
  <2> QED BY <2>1, <2>2, <2>3, <2>4 DEF Sound
<1>6. e.tid = f.tid /\ e.sn = f.sn /\ e.frag_num = 0 /\ e.last_pn = f.pn OBVIOUS
<1> HIDE DEF G, e
<1>7. /\ frag' \in Seq(Collected) /\ Len(G) \in Nat /\ Len(frag') = Len(G) + 1
      /\ frag'[Len(G) + 1] = e /\ \A j \in 1 .. Len(G) : frag'[j] = G[j]
  BY <1>1, <1>2, <1>4
<1>8. FragTable(frag)'
  <2>1. ASSUME NEW i \in 1 .. Len(frag') PROVE Sound(frag[i])'
    <3>1. Sound(frag'[i]) BY <1>2, <1>5, <1>7 DEF FragTable
    <3> QED BY <3>1 DEF Sound
  <2>2. ASSUME NEW i \in 1 .. Len(frag'), NEW j \in 1 .. Len(frag'), SameKey(frag'[i], frag'[j]) PROVE i = j
    <3>1. \A k \in 1 .. Len(G) : ~SameKey(frag'[k], e) /\ ~SameKey(e, frag'[k]) BY <1>2, <1>6, <1>7 DEF SameKey
    <3>2. CASE i = Len(G) + 1 \/ j = Len(G) + 1 BY <2>2, <3>1, <3>2, <1>7
    <3>3. CASE i \in 1 .. Len(G) /\ j \in 1 .. Len(G) BY <2>2, <3>3, <1>2, <1>7 DEF FragTable
    <3> QED BY <3>2, <3>3, <1>7
  <2> QED BY <2>1, <2>2 DEF FragTable
<1>9. Kept(f.tid, 1)
  <2>1. ASSUME NEW i \in 1 .. Len(frag), frag[i].tid # f.tid
        PROVE  \/ \E j \in 1 .. Len(frag') : frag'[j] = frag[i] /\ Len(frag') - j <= Len(frag) - i + 1
               \/ i = 1 /\ Len(frag) >= Entries
    <3>1. CASE \E j \in 1 .. Len(G) : G[j] = frag[i] /\ Len(G) - j <= Len(frag) - i
      <4>1. PICK j \in 1 .. Len(G) : G[j] = frag[i] /\ Len(G) - j <= Len(frag) - i BY <3>1
      <4>2. Len(frag) \in Nat BY DEF FragInv, FragTypeOK
      <4>3. j \in 1 .. Len(frag') /\ frag'[j] = frag[i] /\ Len(frag') - j <= Len(frag) - i + 1 BY <1>7, <4>1, <4>2
      <4> QED BY <4>3
    <3> QED BY <2>1, <3>1, <1>2
  <2> QED BY <2>1 DEF Kept
<1>10. fragFuel \in FragFuel BY DEF FragInv, FragTypeOK, FragFuel
<1>11. Started(f) = 1 BY DEF Started, Starts
<1>12. Effect(f) BY <1>7, <1>8, <1>9, <1>10, <1>11, NothingUp DEF Effect, Starts
<1>13. Len(frag') \in 1 .. Len(frag') BY <1>7
<1> QED BY <1>6, <1>7, <1>12, <1>13

\* What the next fragment of an entry makes of its list.
LEMMA Longer ==
    ASSUME FragInv, NEW f \in Frame, NEW i, Fits(f, i), f.pn = f.n * MaxFrags + f.frag_num + 1
    PROVE  LET list == Append(frag[i].list, f)
           IN /\ i \in 1 .. Len(frag) /\ frag[i] \in Collected /\ Sound(frag[i]) /\ SameKey(frag[i], f)
              /\ list \in Seq(Frame) /\ Len(list) = f.frag_num + 1 /\ f.frag_num = frag[i].frag_num + 1
              /\ list # << >> /\ list[Len(list)] = f /\ list[1] = frag[i].list[1]
              /\ \A k \in 1 .. Len(list) : list[k].frag_num = k - 1 /\ (k < Len(list) => list[k].more)
              /\ network.cipher = "ccmp" => OfOne(list) /\ f.pn = list[1].n * MaxFrags + Len(list)
<1> DEFINE e == frag[i]
           list == Append(e.list, f)
<1>1. frag \in Seq(Collected) /\ DOMAIN frag = 1 .. Len(frag) /\ FragTable(frag) BY DEF FragInv, FragTypeOK
<1>2. i \in 1 .. Len(frag) /\ SameKey(e, f) /\ e.frag_num + 1 = f.frag_num /\ PnFollows(e, f)
  BY <1>1 DEF Fits, Found, SameKey
<1>3. e \in Collected /\ Sound(e) BY <1>1, <1>2 DEF FragTable
<1>4. e.list \in Seq(Frame) /\ e.frag_num \in Nat /\ Len(e.list) = f.frag_num BY <1>2, <1>3 DEF Collected, Sound
<1> HIDE DEF e
<1>5. /\ list \in Seq(Frame) /\ Len(list) = f.frag_num + 1 /\ list[Len(list)] = f
      /\ \A k \in 1 .. f.frag_num : list[k] = e.list[k]
  BY <1>4
<1>6. f.frag_num \in Nat /\ f.frag_num >= 1 BY <1>2, <1>4
<1>7. list # << >> /\ list[1] = e.list[1] BY <1>5, <1>6
<1> HIDE DEF list
<1>8. \A k \in 1 .. Len(list) : list[k].frag_num = k - 1 /\ (k < Len(list) => list[k].more)
  <2>1. Unbroken(e.list) BY <1>3 DEF Sound
  <2>2. ASSUME NEW k \in 1 .. Len(list), k < Len(list) PROVE list[k].frag_num = k - 1 /\ list[k].more
    <3>1. k \in 1 .. f.frag_num BY <2>2, <1>5, <1>6
    <3> QED BY <3>1, <2>1, <1>4, <1>5 DEF Unbroken
  <2> QED BY <2>2, <1>5, <1>6
<1>9. ASSUME network.cipher = "ccmp" PROVE OfOne(list) /\ f.pn = list[1].n * MaxFrags + Len(list)
  <2>1. e.chk /\ OfOne(e.list) /\ e.last_pn = e.list[1].n * MaxFrags + f.frag_num BY <1>3, <1>4, <1>9 DEF Sound
  <2>2. f.pn = e.last_pn + 1 BY <1>2, <2>1 DEF PnFollows
  <2>3. e.list[1] \in Frame /\ e.list[1].n \in Int /\ f.n \in Int
    <3>1. Len(e.list) \in Nat /\ 1 \in 1 .. Len(e.list) BY <1>4, <1>6
    <3>2. e.list[1] \in Frame BY <1>4, <3>1
    <3> QED BY <3>2 DEF Frame
  <2>4. e.list[1].n * MaxFrags \in Int /\ f.n * MaxFrags \in Int BY <2>3, Product
  <2>5. f.n * MaxFrags = e.list[1].n * MaxFrags BY <2>1, <2>2, <2>4, <1>6
  <2>6. f.n = e.list[1].n BY <2>3, <2>5, Cancel, FragConstants
  <2>7. OfOne(list)
    <3>1. ASSUME NEW k \in 1 .. Len(list) PROVE list[k].n = list[1].n
      <4>1. CASE k = Len(list) BY <4>1, <1>5, <1>7, <2>6
      <4>2. CASE k # Len(list)
        <5>1. k \in 1 .. f.frag_num BY <4>2, <1>5, <1>6
        <5> QED BY <5>1, <1>4, <1>5, <1>7, <2>1 DEF OfOne
      <4> QED BY <4>1, <4>2
    <3> QED BY <3>1 DEF OfOne
  <2> QED BY <2>6, <2>7, <1>5, <1>6, <1>7, <2>4
<1> QED BY <1>2, <1>3, <1>5, <1>7, <1>8, <1>9 DEF e, list

\* A fragment in between is added to its entry.
LEMMA CollectsEffect ==
    ASSUME FragInv, network' = network, NEW f \in Frame, NEW i, Collects(f, i), f.pn = f.n * MaxFrags + f.frag_num + 1
    PROVE  /\ Effect(f)
           /\ i \in 1 .. Len(frag') /\ Len(frag') = Len(frag) /\ frag'[i].tid = f.tid /\ frag'[i].sn = f.sn
           /\ frag'[i].frag_num = f.frag_num /\ frag'[i].chk = frag[i].chk /\ (frag[i].chk => frag'[i].last_pn = f.pn)
<1> DEFINE list == Append(frag[i].list, f)
           e == [frag[i] EXCEPT !.frag_num = @ + 1, !.list = list, !.last_pn = IF frag[i].chk THEN f.pn ELSE @]
<1>1. frag \in Seq(Collected) /\ Len(frag) \in Nat /\ FragTable(frag) BY DEF FragInv, FragTypeOK
<1>2. frag' = [frag EXCEPT ![i] = e] BY DEF Collects
<1>3. /\ i \in 1 .. Len(frag) /\ frag[i] \in Collected /\ Sound(frag[i]) /\ SameKey(frag[i], f)
      /\ list \in Seq(Frame) /\ Len(list) = f.frag_num + 1 /\ f.frag_num = frag[i].frag_num + 1
      /\ list[Len(list)] = f
      /\ \A k \in 1 .. Len(list) : list[k].frag_num = k - 1 /\ (k < Len(list) => list[k].more)
      /\ network.cipher = "ccmp" => OfOne(list) /\ f.pn = list[1].n * MaxFrags + Len(list)
  BY Longer DEF Collects
<1>4. f.more BY DEF Collects
<1> HIDE DEF list
<1>5. f.frag_num \in Nat /\ f.pn \in Int BY DEF Frame
<1>6. /\ e \in Collected /\ e.tid = f.tid /\ e.sn = f.sn /\ e.frag_num = f.frag_num /\ e.chk = frag[i].chk
      /\ e.list = list /\ (frag[i].chk => e.last_pn = f.pn)
  BY <1>3, <1>5 DEF Collected, SameKey
<1> HIDE DEF e
<1>7. Sound(e)
  <2>1. Unbroken(list)
    <3>1. ASSUME NEW k \in 1 .. Len(list) PROVE list[k].frag_num = k - 1 /\ list[k].more
      <4>1. CASE k = Len(list) BY <4>1, <1>3, <1>4
      <4>2. CASE k # Len(list)
        <5>1. k < Len(list) BY <4>2, <1>3, <1>5
        <5> QED BY <5>1, <1>3
      <4> QED BY <4>1, <4>2
    <3> QED BY <3>1 DEF Unbroken
  <2>2. e.chk <=> network.cipher = "ccmp" BY <1>3, <1>6 DEF Sound
  <2>3. e.chk => OfOne(list) /\ e.last_pn = list[1].n * MaxFrags + Len(list) BY <1>3, <1>6, <2>2
  <2>4. Len(list) = e.frag_num + 1 BY <1>3, <1>6
  <2> QED BY <2>1, <2>2, <2>3, <2>4, <1>6 DEF Sound
<1>8. /\ frag' \in Seq(Collected) /\ Len(frag') = Len(frag) /\ frag'[i] = e
      /\ \A j \in 1 .. Len(frag) : j # i => frag'[j] = frag[j]
  BY <1>1, <1>2, <1>3, <1>6
<1>9. \A j \in 1 .. Len(frag) : SameKey(frag'[j], frag[j])
  BY <1>3, <1>6, <1>8 DEF SameKey
<1>10. FragTable(frag)'
  <2>1. ASSUME NEW j \in 1 .. Len(frag') PROVE Sound(frag[j])'
    <3>1. Sound(frag'[j]) BY <1>1, <1>7, <1>8 DEF FragTable
    <3> QED BY <3>1 DEF Sound
  <2>2. ASSUME NEW k \in 1 .. Len(frag'), NEW j \in 1 .. Len(frag'), SameKey(frag'[k], frag'[j]) PROVE k = j
    <3>1. SameKey(frag[k], frag[j]) BY <2>2, <1>8, <1>9 DEF SameKey
    <3> QED BY <3>1, <1>1, <1>8 DEF FragTable
  <2> QED BY <2>1, <2>2 DEF FragTable
<1>11. Kept(f.tid, Started(f))
  <2>1. Started(f) = 0 BY <1>3, <1>5 DEF Started, Collects, Fits
  <2>2. ASSUME NEW j \in 1 .. Len(frag), frag[j].tid # f.tid
        PROVE  j \in 1 .. Len(frag') /\ frag'[j] = frag[j] /\ Len(frag') - j <= Len(frag) - j + 0
    BY <2>2, <1>1, <1>3, <1>8 DEF SameKey
  <2> QED BY <2>1, <2>2 DEF Kept
<1>12. fragFuel \in FragFuel BY DEF FragInv, FragTypeOK, FragFuel
<1>13. Effect(f) BY <1>8, <1>10, <1>11, <1>12, NothingUp DEF Effect, Collects
<1> QED BY <1>3, <1>6, <1>8, <1>13

\* The last fragment takes its entry from the table, and the list up.
LEMMA CompletesEffect ==
    ASSUME FragInv, network' = network, NEW f \in Frame, NEW dest \in Destinations, NEW i, Completes(f, i, dest),
           f.pn = f.n * MaxFrags + f.frag_num + 1
    PROVE  Effect(f) /\ (dest # "own" /\ fragFuel'.faults = fragFuel.faults => up'.to # {})
<1> DEFINE list == Append(frag[i].list, f)
<1>1. frag \in Seq(Collected) /\ Len(frag) \in Nat BY DEF FragInv, FragTypeOK
<1>2. /\ i \in 1 .. Len(frag) /\ SameKey(frag[i], f) /\ f.frag_num = frag[i].frag_num + 1 /\ frag[i] \in Collected
      /\ list \in Seq(Frame) /\ Len(list) = f.frag_num + 1 /\ list[Len(list)] = f
      /\ \A k \in 1 .. Len(list) : list[k].frag_num = k - 1 /\ (k < Len(list) => list[k].more)
      /\ network.cipher = "ccmp" => OfOne(list)
  BY Longer DEF Completes
<1>3. frag' = Without(i) /\ ~f.more BY DEF Completes
<1>4. HandsUp(list, dest) \/ (fragFuel.faults > 0 /\ fragFuel' = [fragFuel EXCEPT !.faults = @ - 1] /\ up' = Nothing)
  BY DEF Completes
<1> HIDE DEF list
<1>5. Left(frag', f.tid) BY <1>2, <1>3, WithoutLeft DEF SameKey
<1>6. FragTable(frag)'
  <2>1. FragTable(frag') BY <1>5 DEF Left
  <2> QED BY <2>1 DEF FragTable, Sound
<1>7. Kept(f.tid, Started(f))
  <2>1. Started(f) = 0 BY <1>3 DEF Started
  <2>2. \A j \in 1 .. Len(frag) : Len(frag) - j + 0 = Len(frag) - j BY <1>1
  <2> QED BY <1>5, <2>1, <2>2 DEF Kept, Left
<1>8. frag' \in Seq(Collected) BY <1>5 DEF Left
<1>9. fragFuel \in FragFuel BY DEF FragInv, FragTypeOK, FragFuel
<1>10. CASE HandsUp(list, dest)
  <2>1. /\ up' \in Delivery /\ up'.list = list
        /\ fragFuel' \in FragFuel /\ fragFuel'.msdus = fragFuel.msdus
        /\ dest # "own" /\ fragFuel'.faults = fragFuel.faults => up'.to # {}
    BY <1>2, <1>10, HandsUpEffect
  <2>2. DOMAIN list = 1 .. Len(list) BY <1>2
  <2>3. f.frag_num \in Nat BY DEF Frame
  <2>4. \A k \in 1 .. Len(list) : list[k].more <=> k < Len(list)
    <3>1. ASSUME NEW k \in 1 .. Len(list) PROVE list[k].more <=> k < Len(list)
      <4>1. CASE k = Len(list) BY <4>1, <1>2, <1>3
      <4>2. CASE k # Len(list)
        <5>1. k < Len(list) BY <4>2, <1>2, <2>3
        <5> QED BY <5>1, <1>2
      <4> QED BY <4>1, <4>2
    <3> QED BY <3>1
  <2>5. FragWhole' BY <1>2, <2>1, <2>2, <2>4 DEF FragWhole, OfOne
  <2> QED BY <1>6, <1>7, <1>8, <2>1, <2>5 DEF Effect
<1>11. CASE fragFuel' = [fragFuel EXCEPT !.faults = @ - 1] /\ up' = Nothing
  <2>1. fragFuel' \in FragFuel /\ fragFuel'.msdus = fragFuel.msdus /\ fragFuel'.faults = fragFuel.faults - 1
    BY <1>9, <1>11 DEF FragFuel
  <2>2. fragFuel'.faults # fragFuel.faults BY <2>1, <1>9 DEF FragFuel
  <2> QED BY <1>6, <1>7, <1>8, <1>11, <2>1, <2>2, NothingUp DEF Effect
<1> QED BY <1>4, <1>10, <1>11

\* The whole handler, for any frame whose packet number is the one its sender gave it.
LEMMA Handled ==
    ASSUME FragInv, network' = network, NEW f \in Frame, NEW dest \in Destinations,
           f.pn = f.n * MaxFrags + f.frag_num + 1, skw_rx_handler(f, dest)
    PROVE  /\ Effect(f) /\ rxPn' \in [Tids -> Int]
           /\ \A s \in Tids : rxPn'[s] = rxPn[s] \/ (s = f.tid /\ rxPn'[s] = f.pn)
<1>1. /\ \/ rxPn' = (IF Replay(f) \/ network.cipher = "open" THEN rxPn ELSE [rxPn EXCEPT ![f.tid] = f.pn])
         \/ rxPn' = [rxPn EXCEPT ![f.tid] = rxPn[f.tid]]
      /\ \/ Dropped(f) \/ Single(f, dest) \/ Starts(f)
         \/ \E i \in Found(f) : Collects(f, i) \/ Completes(f, i, dest)
  BY Outcomes
<1>2. rxPn \in [Tids -> Int] /\ f.tid \in Tids /\ f.pn \in Int BY DEF FragInv, FragTypeOK, Frame
<1>3. rxPn' \in [Tids -> Int] /\ \A s \in Tids : rxPn'[s] = rxPn[s] \/ (s = f.tid /\ rxPn'[s] = f.pn)
  BY <1>1, <1>2
<1>4. CASE Starts(f)
  <2>1. f.pn = f.n * MaxFrags + 1
    <3>1. f.frag_num = 0 /\ f.n \in Int BY <1>4 DEF Starts, Frame
    <3>2. f.n * MaxFrags \in Int BY <3>1, Product
    <3> QED BY <3>1, <3>2
  <2> QED BY <1>3, <1>4, <2>1, StartsEffect
<1>5. CASE Dropped(f) BY <1>3, <1>5, DroppedEffect
<1>6. CASE Single(f, dest) BY <1>3, <1>6, SingleEffect
<1>7. CASE \E i \in Found(f) : Collects(f, i) \/ Completes(f, i, dest) BY <1>3, <1>7, CollectsEffect, CompletesEffect
<1> QED BY <1>1, <1>4, <1>5, <1>6, <1>7

\* The next fragment of an MSDU of which everything has arrived fits its entry, and no other.
LEMMA NextFits ==
    ASSUME FragInv, NEW t \in Tids, Wanted(t)
    PROVE  LET f == Fragment(t, cur[t].k)
           IN /\ ~Replay(f)
              /\ \E i \in 1 .. Len(frag) : /\ Fits(f, i) /\ Found(f) = {i} /\ Len(frag) - i <= cur[t].newer
                                           /\ ~(frag[i].frag_num + 1 # f.frag_num \/ ~PnFollows(frag[i], f))
<1> DEFINE f == Fragment(t, cur[t].k)
<1>1. cur[t] \in Msdu /\ rxPn[t] \in Int /\ frag \in Seq(Collected) /\ Len(frag) \in Nat /\ FragTable(frag)
  BY DEF FragInv, FragTypeOK
<1>2. cur[t].n \in Int /\ cur[t].k \in Nat /\ cur[t].n * MaxFrags \in Int BY <1>1, Product DEF Msdu
<1>3. /\ f \in Frame /\ f.tid = t /\ f.sn = Sn(t) /\ f.frag_num = cur[t].k
      /\ f.pn = cur[t].n * MaxFrags + cur[t].k + 1
  BY <1>2, FragmentFields
<1> HIDE DEF f
<1>4. cur[t].of > 0 /\ rxPn[t] <= cur[t].n * MaxFrags + cur[t].k
  <2>1. cur[t].of \in Nat BY <1>1 DEF Msdu
  <2> QED BY <1>1, <1>2, <2>1 DEF FragInv, SenderInv, SenderOf, Wanted
<1>5. ~Replay(f)
  <2>1. ~(f.pn < rxPn[f.tid]) BY <1>1, <1>2, <1>3, <1>4
  <2> QED BY <2>1 DEF Replay
<1>6. PICK i \in 1 .. Len(frag) :
        /\ frag[i].tid = t /\ frag[i].sn = Sn(t) /\ frag[i].frag_num = cur[t].k - 1
        /\ frag[i].chk => frag[i].last_pn = cur[t].n * MaxFrags + cur[t].k
        /\ Len(frag) - i <= cur[t].newer
  BY DEF FragInv, Tracked
<1>7. Found(f) = {i}
  <2>1. DOMAIN frag = 1 .. Len(frag) BY <1>1
  <2>2. \A j \in 1 .. Len(frag) : frag[j].tid = f.tid /\ frag[j].sn = f.sn => j = i
    BY <1>1, <1>3, <1>6 DEF FragTable, SameKey
  <2> QED BY <1>3, <1>6, <2>1, <2>2 DEF Found
<1>8. PnFollows(frag[i], f) BY <1>2, <1>3, <1>6 DEF PnFollows
<1>9. frag[i].frag_num + 1 = f.frag_num /\ f.frag_num # 0
  <2>1. cur[t].k > 0 BY DEF Wanted
  <2> QED BY <2>1, <1>2, <1>3, <1>6
<1>10. Fits(f, i) BY <1>7, <1>8, <1>9 DEF Fits
<1> QED BY <1>5, <1>6, <1>7, <1>8, <1>9, <1>10 DEF f

\* Another sender sees at most that one more entry has started.
LEMMA NewerFields ==
    ASSUME FragInv, NEW t \in Tids, NEW f \in Frame
    PROVE  /\ Newer(t, f) \in [Tids -> Msdu] /\ Newer(t, f)[t] = cur[t]
           /\ \A s \in Tids \ {t} :
                 /\ Newer(t, f)[s].n = cur[s].n /\ Newer(t, f)[s].k = cur[s].k /\ Newer(t, f)[s].of = cur[s].of
                 /\ Newer(t, f)[s].ok = cur[s].ok /\ Newer(t, f)[s].newer = cur[s].newer + Started(f)
<1>1. cur \in [Tids -> Msdu] BY DEF FragInv, FragTypeOK
<1>2. ASSUME NEW s \in Tids
      PROVE  /\ Newer(t, f)[s] \in Msdu
             /\ s = t => Newer(t, f)[s] = cur[s]
             /\ s # t => /\ Newer(t, f)[s].n = cur[s].n /\ Newer(t, f)[s].k = cur[s].k /\ Newer(t, f)[s].of = cur[s].of
                         /\ Newer(t, f)[s].ok = cur[s].ok /\ Newer(t, f)[s].newer = cur[s].newer + Started(f)
  <2>1. cur[s] \in Msdu /\ cur[s].newer \in Nat BY <1>1 DEF Msdu
  <2>2. CASE s # t /\ f.frag_num = 0 /\ f.more
    <3>1. Newer(t, f)[s] = [cur[s] EXCEPT !.newer = @ + 1] BY <2>2 DEF Newer
    <3>2. Started(f) = 1 BY <2>2 DEF Started
    <3> QED BY <2>1, <2>2, <3>1, <3>2 DEF Msdu
  <2>3. CASE ~(s # t /\ f.frag_num = 0 /\ f.more)
    <3>1. Newer(t, f)[s] = cur[s] BY <2>3 DEF Newer
    <3>2. s # t => Started(f) = 0 BY <2>3 DEF Started
    <3> QED BY <2>1, <3>1, <3>2
  <2> QED BY <2>2, <2>3
<1>3. Newer(t, f) \in [Tids -> Msdu] BY <1>2 DEF Newer
<1> QED BY <1>2, <1>3

\* The MSDUs of the other senders keep their entries, unless a full table has passed them.
LEMMA OthersTracked ==
    ASSUME FragInv, NEW t \in Tids, NEW d \in {0, 1}, Kept(t, d), frag' \in Seq(Collected), count' = count,
           NEW s \in Tids \ {t}, Wanted(s)',
           cur'[s].n = cur[s].n, cur'[s].k = cur[s].k, cur'[s].of = cur[s].of, cur'[s].ok = cur[s].ok,
           cur'[s].newer = cur[s].newer + d
    PROVE  Tracked(s)'
<1>1. cur[s].newer \in Nat /\ Len(frag) \in Nat /\ Len(frag') \in Nat
  <2>1. cur[s] \in Msdu /\ frag \in Seq(Collected) BY DEF FragInv, FragTypeOK
  <2>2. cur[s].newer \in Nat BY <2>1, Zenon DEF Msdu
  <2> QED BY <2>1, <2>2
<1>2. Wanted(s)
  <2>1. cur'[s].ok /\ cur'[s].newer < Entries /\ 0 < cur'[s].k /\ cur'[s].k < cur'[s].of BY DEF Wanted
  <2>2. cur[s].newer < Entries BY <1>1, <2>1, FragConstants
  <2> QED BY <2>1, <2>2 DEF Wanted
<1>3. PICK i \in 1 .. Len(frag) :
        /\ frag[i].tid = s /\ frag[i].sn = Sn(s) /\ frag[i].frag_num = cur[s].k - 1
        /\ frag[i].chk => frag[i].last_pn = cur[s].n * MaxFrags + cur[s].k
        /\ Len(frag) - i <= cur[s].newer
  BY <1>2 DEF FragInv, Tracked
<1>4. ~(d = 1 /\ i = 1 /\ Len(frag) >= Entries)
  <2>1. cur'[s].newer < Entries BY DEF Wanted
  <2> QED BY <2>1, <1>1, <1>3, FragConstants
<1>5. PICK j \in 1 .. Len(frag') : frag'[j] = frag[i] /\ Len(frag') - j <= Len(frag) - i + d BY <1>3, <1>4 DEF Kept
<1>6. Len(frag') - j <= cur'[s].newer BY <1>1, <1>3, <1>5
<1>7. Sn(s)' = Sn(s) BY DEF Sn
<1>8. /\ frag'[j].tid = s /\ frag'[j].sn = Sn(s)' /\ frag'[j].frag_num = cur'[s].k - 1
      /\ frag'[j].chk => frag'[j].last_pn = cur'[s].n * MaxFrags + cur'[s].k
  BY <1>3, <1>5, <1>7
<1>9. \E l \in 1 .. Len(frag') :
        /\ frag'[l].tid = s /\ frag'[l].sn = Sn(s)' /\ frag'[l].frag_num = cur'[s].k - 1
        /\ frag'[l].chk => frag'[l].last_pn = cur'[s].n * MaxFrags + cur'[s].k
        /\ Len(frag') - l <= cur'[s].newer
  BY <1>5, <1>6, <1>8
<1> QED BY <1>9 DEF Tracked

\* What a frame leaves behind is the invariant, if it is so of the sender itself.
LEMMA FrameStep ==
    ASSUME FragInv, NEW t \in Tids, NEW f \in Frame, f.tid = t, Effect(f),
           network' = network, count' = count, rxPn' \in [Tids -> Int], cur' \in [Tids -> Msdu],
           \A s \in Tids \ {t} : /\ rxPn'[s] = rxPn[s]
                                 /\ cur'[s].n = cur[s].n /\ cur'[s].k = cur[s].k /\ cur'[s].of = cur[s].of
                                 /\ cur'[s].ok = cur[s].ok /\ cur'[s].newer = cur[s].newer + Started(f),
           SenderOf(t)', Wanted(t)' => Tracked(t)', bad' = FALSE, repeats' \in Int
    PROVE  FragInv'
<1>1. /\ frag' \in Seq(Collected) /\ FragTable(frag)' /\ up' \in Delivery /\ FragWhole'
      /\ fragFuel' \in FragFuel /\ fragFuel'.msdus = fragFuel.msdus /\ Kept(t, Started(f))
  BY DEF Effect
<1>2. Started(f) \in {0, 1} BY DEF Started
<1>3. FragTypeOK'
  <2>1. network' \in [cipher : {"open", "mixed", "ccmp"}, ap : BOOLEAN] /\ count' \in [Tids -> Nat]
    BY DEF FragInv, FragTypeOK
  <2>2. bad' \in BOOLEAN BY Zenon
  <2> QED BY <1>1, <2>1, <2>2 DEF FragTypeOK, Delivery, FragFuel
<1>4. SenderInv'
  <2>1. ASSUME NEW s \in Tids PROVE SenderOf(s)'
    <3>1. CASE s # t
      <4>1. SenderOf(s) BY DEF FragInv, SenderInv
      <4>2. /\ rxPn'[s] = rxPn[s] /\ cur'[s].n = cur[s].n /\ cur'[s].k = cur[s].k /\ cur'[s].of = cur[s].of
            /\ fragFuel'.msdus = fragFuel.msdus
        BY <3>1, <1>1
      <4> QED BY <4>1, <4>2 DEF SenderOf
    <3> QED BY <3>1
  <2> QED BY <2>1 DEF SenderInv
<1>5. \A s \in Tids : Wanted(s)' => Tracked(s)'
  <2>1. ASSUME NEW s \in Tids \ {t}, Wanted(s)' PROVE Tracked(s)' BY <1>1, <1>2, <2>1, OthersTracked
  <2> QED BY <2>1
<1>6. FragSafe' BY <1>1 DEF FragSafe, FragSurvives
<1> QED BY <1>1, <1>3, <1>4, <1>5, <1>6 DEF FragInv

\* Where a sender stands.
LEMMA Standing ==
    ASSUME FragInv, NEW t \in Tids
    PROVE  /\ cur[t] \in Msdu /\ cur[t].n \in Int /\ cur[t].k \in Nat /\ cur[t].of \in Nat /\ cur[t].newer \in Nat
           /\ cur[t].dest \in Destinations /\ cur[t].ok \in BOOLEAN
           /\ cur[t].n * MaxFrags \in Int /\ rxPn[t] \in Int /\ SenderOf(t)
           /\ cur \in [Tids -> Msdu] /\ frag \in Seq(Collected) /\ Len(frag) \in Nat /\ fragFuel.msdus \in Nat
<1>1. cur \in [Tids -> Msdu] /\ rxPn \in [Tids -> Int] /\ frag \in Seq(Collected) /\ fragFuel.msdus \in Nat
  BY DEF FragInv, FragTypeOK
<1>2. cur[t] \in Msdu BY <1>1
<1>3. cur[t].n \in Int BY <1>2 DEF Msdu
<1>4. cur[t].n * MaxFrags \in Int BY <1>3, Product
<1>5. SenderOf(t) BY DEF FragInv, SenderInv
<1>6. /\ cur[t].ok \in BOOLEAN /\ cur[t].dest \in Destinations
      /\ cur[t].k \in Nat /\ cur[t].of \in Nat /\ cur[t].newer \in Nat
  BY <1>2, Zenon DEF Msdu
<1> QED BY <1>1, <1>2, <1>3, <1>4, <1>5, <1>6

\* A repeated fragment starts the entry anew or is dropped, and the MSDU keeps its entry.
LEMMA RepeatsStep == ASSUME FragInv, NEW t \in Tids, Repeats(t) PROVE FragInv'
<1> DEFINE f == Fragment(t, cur[t].k - 1)
<1>1. /\ cur[t].k > 0 /\ cur[t].of > 1 /\ skw_rx_handler(f, cur[t].dest) /\ cur' = Newer(t, f)
      /\ repeats' = repeats - 1 /\ network' = network /\ count' = count /\ bad' = bad
  BY DEF Repeats
<1>2. /\ cur[t].k \in Nat /\ cur[t].n \in Int /\ cur[t].of \in Nat /\ cur[t].n * MaxFrags \in Int /\ rxPn[t] \in Int
      /\ SenderOf(t) /\ cur[t].dest \in Destinations /\ cur[t].newer \in Nat
      /\ frag \in Seq(Collected) /\ Len(frag) \in Nat
  BY Standing
<1>3. cur[t].k - 1 \in Nat BY <1>1, <1>2
<1>4. /\ f \in Frame /\ f.n = cur[t].n /\ f.tid = t /\ f.sn = Sn(t) /\ f.frag_num = cur[t].k - 1
      /\ f.more = ((cur[t].k - 1) + 1 < cur[t].of) /\ f.pn = cur[t].n * MaxFrags + (cur[t].k - 1) + 1
  BY <1>3, FragmentFields
<1> HIDE DEF f
<1>5. f.pn = f.n * MaxFrags + f.frag_num + 1 /\ f.pn = cur[t].n * MaxFrags + cur[t].k
  <2>1. f.pn = f.n * MaxFrags + f.frag_num + 1 BY <1>4, Zenon
  <2>2. cur[t].n * MaxFrags + (cur[t].k - 1) + 1 = cur[t].n * MaxFrags + cur[t].k BY <1>2
  <2> QED BY <2>1, <2>2, <1>4
<1>6. /\ Effect(f) /\ rxPn' \in [Tids -> Int]
      /\ \A s \in Tids : rxPn'[s] = rxPn[s] \/ (s = f.tid /\ rxPn'[s] = f.pn)
  BY <1>1, <1>2, <1>4, <1>5, Handled
<1>7. /\ cur' \in [Tids -> Msdu] /\ cur'[t] = cur[t]
      /\ \A s \in Tids \ {t} : /\ cur'[s].n = cur[s].n /\ cur'[s].k = cur[s].k /\ cur'[s].of = cur[s].of
                               /\ cur'[s].ok = cur[s].ok /\ cur'[s].newer = cur[s].newer + Started(f)
  BY <1>1, <1>4, NewerFields
<1>8. SenderOf(t)'
  <2>1. fragFuel'.msdus = fragFuel.msdus BY <1>6 DEF Effect
  <2>2. cur[t].n >= 0 BY <1>1, <1>2 DEF SenderOf
  <2>3. rxPn'[t] <= cur[t].n * MaxFrags + cur[t].k BY <1>2, <1>4, <1>5, <1>6, <1>1 DEF SenderOf
  <2> QED BY <1>2, <1>7, <2>1, <2>2, <2>3, <1>1 DEF SenderOf
<1>9. ASSUME Wanted(t)' PROVE Tracked(t)'
  <2>1. Wanted(t) BY <1>7, <1>9 DEF Wanted
  <2>2. Sn(t)' = Sn(t) BY <1>1 DEF Sn
  <2>3. PICK i \in 1 .. Len(frag) :
          /\ frag[i].tid = t /\ frag[i].sn = Sn(t) /\ frag[i].frag_num = cur[t].k - 1
          /\ frag[i].chk => frag[i].last_pn = cur[t].n * MaxFrags + cur[t].k
          /\ Len(frag) - i <= cur[t].newer
    BY <2>1 DEF FragInv, Tracked
  <2>4. CASE frag' = frag BY <2>2, <2>3, <2>4, <1>7 DEF Tracked
  <2>5. CASE Starts(f)
    <3>1. f.pn = f.n * MaxFrags + 1
      <4>1. f.frag_num = 0 BY <2>5 DEF Starts
      <4> QED BY <4>1, <1>2, <1>4, <1>5
    <3>2. /\ Len(frag') \in 1 .. Len(frag') /\ frag'[Len(frag')].tid = f.tid /\ frag'[Len(frag')].sn = f.sn
          /\ frag'[Len(frag')].frag_num = 0 /\ frag'[Len(frag')].last_pn = f.pn
      BY <1>1, <1>4, <2>5, <3>1, StartsEffect
    <3>3. f.frag_num = 0 BY <2>5 DEF Starts
    <3>4. Len(frag') - Len(frag') <= cur'[t].newer BY <3>2, <1>2, <1>7
    <3> QED BY <3>2, <3>3, <3>4, <2>2, <1>4, <1>5, <1>7 DEF Tracked
  <2>6. ASSUME NEW j \in Found(f), Fits(f, j) PROVE FALSE
    <3>1. j \in 1 .. Len(frag) /\ SameKey(frag[j], frag[i])
      <4>1. DOMAIN frag = 1 .. Len(frag) BY <1>2
      <4> QED BY <4>1, <2>3, <2>6, <1>4 DEF Found, SameKey
    <3>2. j = i BY <3>1, <2>3 DEF FragInv, FragTable
    <3> QED BY <3>2, <2>3, <2>6, <1>2, <1>4 DEF Fits
  <2>7. \/ Dropped(f) \/ Single(f, cur[t].dest) \/ Starts(f)
        \/ \E j \in Found(f) : Collects(f, j) \/ Completes(f, j, cur[t].dest)
    BY <1>1, <1>4, Outcomes
  <2>8. CASE Dropped(f) \/ Single(f, cur[t].dest) BY <2>4, <2>8 DEF Dropped, Single
  <2>9. CASE \E j \in Found(f) : Collects(f, j) \/ Completes(f, j, cur[t].dest)
    BY <2>6, <2>9 DEF Collects, Completes
  <2> QED BY <2>5, <2>7, <2>8, <2>9
<1>10. bad' = FALSE /\ repeats' \in Int
  <2>1. bad' = FALSE BY <1>1, Zenon DEF FragInv, FragTypeOK, FragSafe, FragSurvives
  <2>2. repeats' \in Int BY <1>1 DEF FragInv, FragTypeOK
  <2> QED BY <2>1, <2>2
<1>11. \A s \in Tids \ {t} : rxPn'[s] = rxPn[s] BY <1>4, <1>6
<1> QED BY <1>1, <1>4, <1>6, <1>7, <1>8, <1>9, <1>10, <1>11, FrameStep

\* The next fragment goes to its entry, and the last one takes the MSDU up.
LEMMA ArrivesStep == ASSUME FragInv, NEW t \in Tids, Arrives(t) PROVE FragInv'
<1> DEFINE f == Fragment(t, cur[t].k)
<1>1. /\ cur[t].k < cur[t].of /\ skw_rx_handler(f, cur[t].dest) /\ cur' = [Newer(t, f) EXCEPT ![t].k = @ + 1]
      /\ bad' = (bad \/ (Due(t) /\ ~f.more /\ up'.to = {}))
      /\ repeats' = repeats /\ network' = network /\ count' = count
  BY DEF Arrives
<1>2. /\ cur[t] \in Msdu /\ cur[t].k \in Nat /\ cur[t].n \in Int /\ cur[t].of \in Nat /\ cur[t].n * MaxFrags \in Int
      /\ rxPn[t] \in Int /\ SenderOf(t) /\ cur[t].dest \in Destinations /\ cur[t].newer \in Nat
      /\ frag \in Seq(Collected) /\ Len(frag) \in Nat
  BY Standing
<1>3. /\ f \in Frame /\ f.n = cur[t].n /\ f.tid = t /\ f.sn = Sn(t) /\ f.frag_num = cur[t].k
      /\ f.more = (cur[t].k + 1 < cur[t].of) /\ f.pn = cur[t].n * MaxFrags + cur[t].k + 1
  BY <1>2, FragmentFields
<1>4. Wanted(t) => /\ ~Replay(f)
                   /\ \E i \in 1 .. Len(frag) : /\ Fits(f, i) /\ Found(f) = {i} /\ Len(frag) - i <= cur[t].newer
                                                /\ ~(frag[i].frag_num + 1 # f.frag_num \/ ~PnFollows(frag[i], f))
  BY NextFits
<1> HIDE DEF f
<1>5. f.pn = f.n * MaxFrags + f.frag_num + 1 BY <1>3
<1>6. /\ Effect(f) /\ rxPn' \in [Tids -> Int]
      /\ \A s \in Tids : rxPn'[s] = rxPn[s] \/ (s = f.tid /\ rxPn'[s] = f.pn)
  BY <1>1, <1>2, <1>3, <1>5, Handled
<1>7. /\ cur' \in [Tids -> Msdu] /\ cur'[t] = [cur[t] EXCEPT !.k = @ + 1]
      /\ \A s \in Tids \ {t} : /\ cur'[s].n = cur[s].n /\ cur'[s].k = cur[s].k /\ cur'[s].of = cur[s].of
                               /\ cur'[s].ok = cur[s].ok /\ cur'[s].newer = cur[s].newer + Started(f)
  <2>1. /\ Newer(t, f) \in [Tids -> Msdu] /\ Newer(t, f)[t] = cur[t]
        /\ \A s \in Tids \ {t} :
              /\ Newer(t, f)[s].n = cur[s].n /\ Newer(t, f)[s].k = cur[s].k /\ Newer(t, f)[s].of = cur[s].of
              /\ Newer(t, f)[s].ok = cur[s].ok /\ Newer(t, f)[s].newer = cur[s].newer + Started(f)
    BY <1>3, NewerFields
  <2>2. [cur[t] EXCEPT !.k = @ + 1] \in Msdu BY <1>2 DEF Msdu
  <2>3. cur' = [Newer(t, f) EXCEPT ![t] = [cur[t] EXCEPT !.k = @ + 1]] BY <1>1, <2>1
  <2>4. cur' \in [Tids -> Msdu] /\ cur'[t] = [cur[t] EXCEPT !.k = @ + 1]
    BY <2>1, <2>2, <2>3
  <2>5. \A s \in Tids \ {t} : cur'[s] = Newer(t, f)[s] BY <2>1, <2>3
  <2> QED BY <2>1, <2>4, <2>5
<1>8. /\ cur'[t].n = cur[t].n /\ cur'[t].k = cur[t].k + 1 /\ cur'[t].of = cur[t].of /\ cur'[t].ok = cur[t].ok
      /\ cur'[t].newer = cur[t].newer
  BY <1>2, <1>7 DEF Msdu
<1>9. SenderOf(t)'
  <2>1. fragFuel'.msdus = fragFuel.msdus BY <1>6 DEF Effect
  <2>2. cur[t].n >= 0 BY <1>1, <1>2 DEF SenderOf
  <2>3. rxPn'[t] <= cur[t].n * MaxFrags + (cur[t].k + 1)
    <3>1. rxPn[t] <= cur[t].n * MaxFrags + cur[t].k BY <1>1, <1>2 DEF SenderOf
    <3>2. rxPn'[t] = rxPn[t] \/ rxPn'[t] = f.pn BY <1>6
    <3> QED BY <1>2, <1>3, <3>1, <3>2, SMTT(30)
  <2> QED BY <1>2, <1>8, <2>1, <2>2, <2>3, <1>1 DEF SenderOf
<1>10. \/ Dropped(f) \/ Single(f, cur[t].dest) \/ Starts(f)
       \/ \E j \in Found(f) : Collects(f, j) \/ Completes(f, j, cur[t].dest)
  BY <1>1, <1>3, Outcomes
<1>11. ASSUME cur[t].k = 0 PROVE ~Dropped(f)
  <2>1. ~Replay(f)
    <3>1. rxPn[t] <= cur[t].n * MaxFrags + cur[t].k BY <1>1, <1>2 DEF SenderOf
    <3>2. ~(f.pn < rxPn[f.tid]) BY <1>2, <1>3, <3>1
    <3> QED BY <3>2 DEF Replay
  <2> QED BY <2>1, <1>3, <1>11 DEF Dropped
<1>12. ASSUME Wanted(t)
       PROVE  \E i \in 1 .. Len(frag) : /\ Len(frag) - i <= cur[t].newer
                                        /\ Collects(f, i) \/ Completes(f, i, cur[t].dest)
  <2>1. ~Replay(f) BY <1>4, <1>12
  <2>2. PICK i \in 1 .. Len(frag) :
          /\ Fits(f, i) /\ Found(f) = {i} /\ Len(frag) - i <= cur[t].newer
          /\ ~(frag[i].frag_num + 1 # f.frag_num \/ ~PnFollows(frag[i], f))
    BY <1>4, <1>12
  <2>3. ~Dropped(f) BY <2>1, <2>2 DEF Dropped
  <2>4. f.frag_num # 0 BY <2>2 DEF Fits
  <2>5. Collects(f, i) \/ Completes(f, i, cur[t].dest) BY <1>10, <2>2, <2>3, <2>4 DEF Single, Starts
  <2> QED BY <2>2, <2>5
<1>13. ASSUME Wanted(t)' PROVE Tracked(t)'
  <2>1. cur[t].ok /\ cur[t].newer < Entries /\ f.more
    <3>1. cur'[t].ok /\ cur'[t].newer < Entries /\ cur'[t].k < cur'[t].of BY <1>13 DEF Wanted
    <3> QED BY <3>1, <1>3, <1>8
  <2>2. Sn(t)' = Sn(t) BY <1>1 DEF Sn
  <2>3. CASE cur[t].k = 0
    <3>1. f.frag_num = 0 BY <1>3, <2>3
    <3>2. Starts(f) BY <1>10, <1>11, <2>1, <2>3, <3>1 DEF Single, Collects, Completes, Fits
    <3>3. f.pn = f.n * MaxFrags + 1 BY <1>2, <1>3, <2>3
    <3>4. /\ Len(frag') \in 1 .. Len(frag') /\ frag'[Len(frag')].tid = f.tid /\ frag'[Len(frag')].sn = f.sn
          /\ frag'[Len(frag')].frag_num = 0 /\ frag'[Len(frag')].last_pn = f.pn
      BY <1>1, <1>3, <3>2, <3>3, StartsEffect
    <3>5. Len(frag') - Len(frag') <= cur'[t].newer BY <3>4, <1>2, <1>8
    <3>6. frag'[Len(frag')].last_pn = cur'[t].n * MaxFrags + cur'[t].k
          /\ frag'[Len(frag')].frag_num = cur'[t].k - 1
      BY <3>4, <1>2, <1>3, <1>8, <2>3
    <3> QED BY <3>4, <3>5, <3>6, <2>2, <1>3 DEF Tracked
  <2>4. CASE cur[t].k # 0
    <3>1. Wanted(t) BY <1>1, <1>2, <2>1, <2>4 DEF Wanted
    <3>2. PICK i \in 1 .. Len(frag) : Len(frag) - i <= cur[t].newer /\ Collects(f, i)
      BY <1>12, <3>1, <2>1 DEF Completes
    <3>3. /\ i \in 1 .. Len(frag') /\ Len(frag') = Len(frag) /\ frag'[i].tid = f.tid /\ frag'[i].sn = f.sn
          /\ frag'[i].frag_num = f.frag_num /\ frag'[i].chk = frag[i].chk /\ (frag[i].chk => frag'[i].last_pn = f.pn)
      BY <1>1, <1>3, <1>5, <3>2, CollectsEffect
    <3>4. f.frag_num = cur'[t].k - 1 /\ f.pn = cur'[t].n * MaxFrags + cur'[t].k BY <1>2, <1>3, <1>8
    <3>5. Len(frag') - i <= cur'[t].newer BY <3>2, <3>3, <1>8
    <3> QED BY <3>3, <3>4, <3>5, <2>2, <1>3 DEF Tracked
  <2> QED BY <2>3, <2>4
<1>14. bad' = FALSE /\ repeats' \in Int
  <2>1. bad = FALSE BY Zenon DEF FragInv, FragTypeOK, FragSafe, FragSurvives
  <2>2. repeats' \in Int BY <1>1 DEF FragInv, FragTypeOK
  <2>3. ASSUME Due(t), ~f.more PROVE up'.to # {}
    <3>1. cur[t].ok /\ cur[t].newer < Entries /\ cur[t].dest # "own" /\ fragFuel'.faults = fragFuel.faults
      BY <2>3 DEF Due
    <3>2. CASE cur[t].k = 0
      <4>1. f.frag_num = 0 BY <1>3, <3>2
      <4>2. Single(f, cur[t].dest) BY <1>10, <1>11, <2>3, <3>2, <4>1 DEF Starts, Collects, Completes, Fits
      <4> QED BY <4>2, <3>1, <1>1, <1>2, <1>3, SingleEffect
    <3>3. CASE cur[t].k # 0
      <4>1. Wanted(t) BY <1>1, <1>2, <3>1, <3>3 DEF Wanted
      <4>2. PICK i \in 1 .. Len(frag) : Completes(f, i, cur[t].dest) BY <1>12, <4>1, <2>3 DEF Collects
      <4> QED BY <4>2, <3>1, <1>1, <1>2, <1>3, <1>5, CompletesEffect
    <3> QED BY <3>2, <3>3
  <2>4. ~(Due(t) /\ ~f.more /\ up'.to = {}) BY <2>3
  <2>5. bad' = FALSE BY <1>1, <2>1, <2>4, Zenon
  <2> QED BY <2>2, <2>5
<1>15. \A s \in Tids \ {t} : rxPn'[s] = rxPn[s] BY <1>3, <1>6
<1>16. network' = network /\ count' = count /\ Effect(f) /\ rxPn' \in [Tids -> Int] BY <1>1, <1>6
<1> QED BY <1>3, <1>7, <1>9, <1>13, <1>14, <1>15, <1>16, FrameStep

\* Steps that do not touch the table.
LEMMA SenderStep ==
    ASSUME FragInv, NEW t \in Tids, frag' = frag, network' = network, rxPn' = rxPn, bad' = bad, repeats' = repeats,
           up' = Nothing, cur' \in [Tids -> Msdu], count' \in [Tids -> Nat], fragFuel' \in FragFuel,
           fragFuel'.msdus >= fragFuel.msdus,
           \A s \in Tids \ {t} : cur'[s] = cur[s] /\ count'[s] = count[s],
           SenderOf(t)', ~Wanted(t)'
    PROVE  FragInv'
<1>1. FragTypeOK'
  <2>1. network' \in [cipher : {"open", "mixed", "ccmp"}, ap : BOOLEAN] /\ rxPn' \in [Tids -> Int]
        /\ frag' \in Seq(Collected) /\ repeats' \in Int
    BY DEF FragInv, FragTypeOK
  <2>2. bad' \in BOOLEAN BY Zenon DEF FragInv, FragTypeOK
  <2>3. up' \in Delivery BY NothingUp
  <2> QED BY <2>1, <2>2, <2>3 DEF FragTypeOK, Delivery, FragFuel
<1>2. FragTable(frag)'
  <2>1. FragTable(frag) BY DEF FragInv
  <2> QED BY <2>1 DEF FragTable, Sound
<1>3. SenderInv'
  <2>1. ASSUME NEW s \in Tids PROVE SenderOf(s)'
    <3>1. CASE s # t
      <4>1. SenderOf(s) /\ cur[s].n \in Int /\ fragFuel.msdus \in Nat BY Standing
      <4>2. cur'[s] = cur[s] /\ rxPn'[s] = rxPn[s] BY <3>1
      <4>3. fragFuel'.msdus \in Nat BY DEF FragFuel
      <4>4. cur'[s].n < fragFuel'.msdus BY <4>1, <4>2, <4>3 DEF SenderOf
      <4> QED BY <4>1, <4>2, <4>4 DEF SenderOf
    <3> QED BY <3>1
  <2> QED BY <2>1 DEF SenderInv
<1>4. \A s \in Tids : Wanted(s)' => Tracked(s)'
  <2>1. ASSUME NEW s \in Tids, Wanted(s)' PROVE Tracked(s)'
    <3>1. cur'[s] = cur[s] /\ count'[s] = count[s] BY <2>1
    <3>2. Wanted(s) BY <2>1, <3>1 DEF Wanted
    <3>3. Tracked(s) BY <3>2 DEF FragInv
    <3>4. Sn(s)' = Sn(s) BY <3>1 DEF Sn
    <3> QED BY <3>1, <3>3, <3>4 DEF Tracked
  <2> QED BY <2>1
<1>5. FragSafe'
  <2>1. ~bad BY DEF FragInv, FragSafe, FragSurvives
  <2> QED BY <2>1, NothingUp DEF FragSafe, FragSurvives
<1> QED BY <1>1, <1>2, <1>3, <1>4, <1>5 DEF FragInv

\* An MSDU begins, with packet numbers not used before.
LEMMA BeginsStep == ASSUME FragInv, NEW t \in Tids, Begins(t) PROVE FragInv'
<1> DEFINE m == Sent[fragFuel.msdus + 1]
           new == [n |-> fragFuel.msdus, k |-> 0, of |-> m.of, dest |-> m.dest, ok |-> TRUE, newer |-> 0]
<1>1. /\ cur[t].k = cur[t].of /\ fragFuel.msdus < Len(Sent) /\ cur' = [cur EXCEPT ![t] = new]
      /\ count' = [count EXCEPT ![t] = @ + 1] /\ fragFuel' = [fragFuel EXCEPT !.msdus = @ + 1]
      /\ up' = Nothing /\ frag' = frag /\ network' = network /\ rxPn' = rxPn /\ bad' = bad /\ repeats' = repeats
  BY DEF Begins
<1>2. /\ cur[t].n \in Int /\ cur[t].k \in Nat /\ cur[t].n * MaxFrags \in Int /\ rxPn[t] \in Int /\ SenderOf(t)
      /\ cur[t].of \in Nat /\ cur \in [Tids -> Msdu] /\ fragFuel.msdus \in Nat
  BY Standing
<1>3. m.of \in 1 .. MaxFrags /\ m.dest \in Destinations
  <2> DEFINE S == [of : 1 .. MaxFrags, dest : Destinations]
  <2>1. Sent \in Seq(S) BY FragAssumption
  <2> HIDE DEF S
  <2>2. Len(Sent) \in Nat /\ fragFuel.msdus + 1 \in 1 .. Len(Sent) BY <2>1, <1>1, <1>2
  <2>3. m \in S BY <2>1, <2>2
  <2> QED BY <2>3 DEF S
<1> HIDE DEF m
<1>4. m.of \in Nat /\ m.of > 0 /\ m.of <= MaxFrags BY <1>3, FragConstants
<1>5. /\ new \in Msdu /\ new.n = fragFuel.msdus /\ new.k = 0 /\ new.of = m.of
  BY <1>2, <1>3, <1>4 DEF Msdu
<1> HIDE DEF new
<1>6. cur' \in [Tids -> Msdu] /\ cur'[t] = new /\ \A s \in Tids \ {t} : cur'[s] = cur[s] BY <1>1, <1>2, <1>5
<1>7. count' \in [Tids -> Nat] /\ \A s \in Tids \ {t} : count'[s] = count[s]
  <2>1. count \in [Tids -> Nat] BY DEF FragInv, FragTypeOK
  <2> QED BY <2>1, <1>1
<1>8. fragFuel' \in FragFuel /\ fragFuel'.msdus = fragFuel.msdus + 1
  <2>1. fragFuel \in FragFuel BY DEF FragInv, FragTypeOK, FragFuel
  <2> QED BY <2>1, <1>1 DEF FragFuel
<1>9. rxPn[t] <= fragFuel.msdus * MaxFrags + 0
  <2>1. fragFuel.msdus * MaxFrags \in Int BY <1>2, Product
  <2>2. CASE cur[t].n = -1 /\ rxPn[t] = 0
    <3>1. fragFuel.msdus * MaxFrags >= 0
      <4>1. cur[t].n + 1 <= fragFuel.msdus BY <2>2, <1>2
      <4>2. (-1) * MaxFrags + MaxFrags <= fragFuel.msdus * MaxFrags BY <2>2, <4>1, <1>2, NextProduct
      <4>3. (-1) * MaxFrags + MaxFrags = 0 BY FragConstants
      <4> QED BY <4>2, <4>3
    <3> QED BY <2>1, <2>2, <3>1
  <2>3. CASE rxPn[t] <= cur[t].n * MaxFrags + cur[t].k
    <3>1. cur[t].n + 1 <= fragFuel.msdus /\ cur[t].k <= MaxFrags BY <1>1, <1>2, FragConstants DEF SenderOf
    <3>2. cur[t].n * MaxFrags + MaxFrags <= fragFuel.msdus * MaxFrags BY <1>2, <3>1, NextProduct
    <3> QED BY <1>2, <2>1, <2>3, <3>1, <3>2, FragConstants
  <2> QED BY <1>2, <2>2, <2>3 DEF SenderOf
<1>10. SenderOf(t)'
  <2>1. cur'[t].n = fragFuel.msdus /\ cur'[t].k = 0 /\ cur'[t].of = m.of BY <1>5, <1>6
  <2>2. 0 <= m.of BY <1>4
  <2>3. rxPn'[t] <= cur'[t].n * MaxFrags + cur'[t].k BY <1>1, <1>9, <2>1
  <2>4. cur'[t].n < fragFuel'.msdus /\ cur'[t].n >= 0 BY <1>2, <1>8, <2>1
  <2> QED BY <1>4, <2>1, <2>2, <2>3, <2>4 DEF SenderOf
<1>11. ~Wanted(t)' BY <1>5, <1>6 DEF Wanted
<1>12. fragFuel'.msdus >= fragFuel.msdus BY <1>2, <1>8
<1> QED BY <1>1, <1>6, <1>7, <1>8, <1>10, <1>11, <1>12, SenderStep

\* A fragment is lost, and with it its MSDU.
LEMMA LostStep == ASSUME FragInv, NEW t \in Tids, Lost(t) PROVE FragInv'
<1>1. /\ cur[t].k < cur[t].of /\ cur' = [cur EXCEPT ![t] = [cur[t] EXCEPT !.k = @ + 1, !.ok = FALSE]] /\ up' = Nothing
      /\ frag' = frag /\ network' = network /\ rxPn' = rxPn /\ count' = count /\ bad' = bad /\ repeats' = repeats
      /\ fragFuel' = fragFuel
  BY DEF Lost
<1>2. /\ cur[t] \in Msdu /\ cur[t].n \in Int /\ cur[t].k \in Nat /\ cur[t].of \in Nat /\ cur[t].n * MaxFrags \in Int
      /\ rxPn[t] \in Int /\ SenderOf(t) /\ cur \in [Tids -> Msdu] /\ fragFuel.msdus \in Nat
  BY Standing
<1>3. /\ cur' \in [Tids -> Msdu] /\ cur'[t] = [cur[t] EXCEPT !.k = @ + 1, !.ok = FALSE]
      /\ \A s \in Tids \ {t} : cur'[s] = cur[s]
  <2>1. [cur[t] EXCEPT !.k = @ + 1, !.ok = FALSE] \in Msdu
    <3>1. cur[t].k + 1 \in Nat /\ FALSE \in BOOLEAN BY <1>2
    <3> QED BY <1>2, <3>1, Zenon DEF Msdu
  <2> QED BY <1>1, <1>2, <2>1
<1>4. cur'[t].n = cur[t].n /\ cur'[t].k = cur[t].k + 1 /\ cur'[t].of = cur[t].of /\ cur'[t].ok = FALSE
  BY <1>2, <1>3 DEF Msdu
<1>5. SenderOf(t)'
  <2>1. cur[t].n >= 0 /\ rxPn[t] <= cur[t].n * MaxFrags + cur[t].k BY <1>1, <1>2 DEF SenderOf
  <2>2. rxPn'[t] <= cur'[t].n * MaxFrags + cur'[t].k BY <2>1, <1>1, <1>2, <1>4
  <2> QED BY <2>1, <2>2, <1>1, <1>2, <1>4 DEF SenderOf
<1>6. ~Wanted(t)' BY <1>4 DEF Wanted
<1>7. fragFuel' \in FragFuel /\ fragFuel'.msdus >= fragFuel.msdus BY <1>1, <1>2 DEF FragInv, FragTypeOK, FragFuel
<1>8. count' \in [Tids -> Nat] BY <1>1 DEF FragInv, FragTypeOK
<1> QED BY <1>1, <1>3, <1>5, <1>6, <1>7, <1>8, SenderStep

\* Every step preserves the invariant.
LEMMA FragStep == FragInv /\ [FragNext]_FragVars => FragInv'
<1> SUFFICES ASSUME FragInv, [FragNext]_FragVars PROVE FragInv' OBVIOUS
<1>1. CASE FragNext
  <2>1. PICK t \in Tids : Begins(t) \/ Arrives(t) \/ Lost(t) \/ Repeats(t) BY <1>1 DEF FragNext
  <2> QED BY <2>1, BeginsStep, ArrivesStep, LostStep, RepeatsStep
<1>2. CASE UNCHANGED FragVars
  <2>1. /\ frag' = frag /\ network' = network /\ rxPn' = rxPn /\ cur' = cur /\ count' = count /\ up' = up
        /\ bad' = bad /\ repeats' = repeats /\ fragFuel' = fragFuel
    BY <1>2 DEF FragVars
  <2>2. FragTypeOK' BY <2>1 DEF FragInv, FragTypeOK
  <2>3. FragTable(frag)' BY <2>1 DEF FragInv, FragTable, Sound
  <2>4. SenderInv' BY <2>1 DEF FragInv, SenderInv, SenderOf
  <2>5. \A t \in Tids : Wanted(t)' => Tracked(t)' BY <2>1 DEF FragInv, Wanted, Tracked, Sn
  <2>6. FragSafe' BY <2>1 DEF FragInv, FragSafe, FragWhole, FragSurvives
  <2> QED BY <2>2, <2>3, <2>4, <2>5, <2>6 DEF FragInv
<1> QED BY <1>1, <1>2

(* What is handed up is whole, of one MSDU under CCMP, and an MSDU of which everything arrives is
   handed over unless a full table of others has started since, for every number of senders, of
   entries, of fragments and of sequence numbers (skw_rx_defragment). *)
THEOREM FragSafety == FragSpec => []FragSafe
<1>1. FragInit => FragInv BY FragInitInv
<1>2. FragInv /\ [FragNext]_FragVars => FragInv' BY FragStep
<1>3. FragInv => FragSafe BY DEF FragInv
<1> QED BY <1>1, <1>2, <1>3, PTL DEF FragSpec

----------------------------------------------------------------------------
(* What the chip, the probe and the transfers hold. *)
Callers == {"boot", "other"}
Words == STRING \cup {"w", "0"}
LoadAddresses == {"dram", "iram", "zero"}
Transfer == [pc : {"idle", "enter", "address", "data", "exit", "end"}, op : {"none", "dt_write", "dt_read", "writel", "readl"},
             addr : Regions, data : Seq(Words), done : {0, 1, 2}, ret : {0, -1}]
BootData == [chip_en : [polarity : {0, 1}], dram : Seq(STRING), iram : Seq(STRING), nv : Seq(STRING),
             dram_dl_addr : LoadAddresses, iram_dl_addr : LoadAddresses]
ProbePcs == {"start", "bus", "files", "debug", "config", "config?", "dram", "dram?", "iram", "iram?", "flag", "done"}

ImageTypeOK ==
    /\ files \in Firmware /\ dt \in [present : BOOLEAN, activeLow : BOOLEAN] /\ pin \in {0, 1} /\ busDev \in BOOLEAN
    /\ probe \in [pc : ProbePcs, tries : Nat, ret : {0, -1}] /\ boot_data \in BootData
    /\ addressReg \in Regions /\ transfer_mutex \in {"free"} \cup Callers /\ tr \in [Callers -> Transfer]
    /\ mem \in [Regions -> Seq(Words)] /\ started \in BOOLEAN
    /\ imageGhost \in [masked : BOOLEAN, unlocked : BOOLEAN] /\ imageFuel \in [others : Int, faults : Int]

(* The chip has power once its pin is known. *)
PowerInv ==
    /\ dt.activeLow => dt.present
    /\ probe.pc # "start" => boot_data.chip_en.polarity = GpioFlags /\ pin = 1 - GpioFlags

(* Who is between skw_sdio_transfer_enter and skw_sdio_transfer_exit holds the mutex, and unless an
   address was set over another's, finds the address it has set. *)
Inside(c) == tr[c].pc \in {"data", "exit"} \/ (tr[c].pc = "address" /\ tr[c].op # "dt_read")
Addressed(c) == tr[c].pc = "data" \/ (tr[c].pc = "enter" /\ tr[c].op = "dt_read")
TransferInv ==
    \A c \in Callers : /\ Inside(c) => transfer_mutex = c
                       /\ ~imageGhost.unlocked => (Addressed(c) => addressReg = tr[c].addr) /\ tr[c].done # 2

(* The others stay away from the images, and the boot transfers what its place says. *)
BootCallInv ==
    /\ tr["other"].pc # "idle" => tr["other"].addr = "regs"
    /\ tr["boot"].pc = "idle" <=> probe.pc \notin {"config?", "dram?", "iram?"}
    /\ tr["boot"].pc # "idle" => tr["boot"].op = "dt_write"
    /\ probe.pc = "config?" => tr["boot"].addr = "config"
    /\ probe.pc = "dram?" => tr["boot"].addr = boot_data.dram_dl_addr /\ tr["boot"].data = boot_data.dram
    /\ probe.pc = "iram?" => tr["boot"].addr = boot_data.iram_dl_addr /\ tr["boot"].data = boot_data.iram

(* What has been written whole, unless the two known exceptions struck. *)
Moved == tr["boot"].pc \in {"exit", "end"} /\ tr["boot"].ret = 0
LoadInv ==
    /\ probe.pc \in {"start", "bus", "files"} => boot_data.iram = <<>>
    /\ started => probe.pc = "done"
    /\ ~imageGhost.unlocked =>
         /\ Moved => mem[tr["boot"].addr] = tr["boot"].data
         /\ started \/ probe.pc = "flag" => mem[boot_data.iram_dl_addr] = boot_data.iram
         /\ /\ ~imageGhost.masked /\ boot_data.iram_dl_addr # boot_data.dram_dl_addr
            /\ started \/ probe.pc \in {"iram", "iram?", "flag"}
            => mem[boot_data.dram_dl_addr] = boot_data.dram

ImageInv == ImageTypeOK /\ PowerInv /\ TransferInv /\ BootCallInv /\ LoadInv /\ ImageNvInPlace

\* A set of naturals that is not empty has a least element, which First chooses.
LEMMA FirstIn == ASSUME NEW S \in SUBSET Nat, S # {} PROVE First(S) \in S /\ \A j \in S : First(S) <= j
<1> DEFINE R == {ss \in Nat \X Nat : ss[1] < ss[2]}
<1>1. IsWellFoundedOn(R, Nat) BY NatLessThanWellFounded, Zenon DEF OpToRel
<1>2. PICK x \in S : \A y \in S : ~(<<y, x>> \in R)
  <2> HIDE DEF R
  <2> QED BY <1>1, WFMin
<1>3. \A y \in S : x <= y
  <2> TAKE y \in S
  <2>1. <<y, x>> \in R <=> y < x OBVIOUS
  <2> QED BY <1>2, <2>1
<1> QED BY <1>3 DEF First

\* NV data that fits goes between the marks.
LEMMA NvPlace ==
    ASSUME NEW img \in Seq(STRING), NEW nv \in Seq(STRING), nv # <<>>, Len(nv) <= nv_data_size(img)
    PROVE  /\ WithNv(img, nv) \in Seq(STRING) /\ Len(WithNv(img, nv)) = Len(img)
           /\ \A i \in DOMAIN img : WithNv(img, nv)[i] # img[i] =>
                /\ \E h \in 1 .. i - 1 : img[h] = "TSVN" /\ \A j \in h + 1 .. i : img[j] # "DEVN"
                /\ \E t \in i + 1 .. Len(img) : img[t] = "DEVN"
<1>1. HeadRange \in Nat /\ Len(img) \in Nat /\ DOMAIN img = 1 .. Len(img) /\ Len(nv) \in Nat /\ DOMAIN nv = 1 .. Len(nv)
      /\ Len(nv) > 0
  BY ImageAssumption
<1>2. NvHeads(img) # {} /\ NvTails(img) # {}
  <2>1. nv_data_size(img) # 0 BY <1>1
  <2> QED BY <2>1 DEF nv_data_size
<1> DEFINE h == First(NvHeads(img))
           t == First(NvTails(img))
<1>3. h \in NvHeads(img)
  <2>1. NvHeads(img) \in SUBSET Nat BY <1>1 DEF NvHeads, Scanned
  <2> QED BY <2>1, <1>2, FirstIn
<1>4. t \in NvTails(img) /\ \A j \in NvTails(img) : t <= j
  <2>1. NvTails(img) \in SUBSET Nat BY <1>1 DEF NvTails, Scanned
  <2> QED BY <2>1, <1>2, FirstIn
<1>5. h \in Nat /\ h \in Scanned /\ At(img, h) = "TSVN" BY <1>1, <1>3 DEF NvHeads, Scanned
<1>6. t \in Nat /\ t \in Scanned /\ At(img, t) = "DEVN" /\ t > h BY <1>1, <1>4 DEF NvTails, Scanned
<1>7. \A j \in Scanned : At(img, j) = "DEVN" /\ j > h => t <= j BY <1>4 DEF NvTails
<1>8. Len(nv) <= t - h - 1 BY <1>2 DEF nv_data_size
<1>9. WithNv(img, nv) = [i \in DOMAIN img |-> IF i - h - 1 \in DOMAIN nv THEN nv[i - h - 1] ELSE img[i]] BY DEF WithNv
<1> HIDE DEF h, t
<1>10. h + 1 \in DOMAIN img /\ img[h + 1] = "TSVN" BY <1>5 DEF At
<1>11. t + 1 \in DOMAIN img /\ img[t + 1] = "DEVN" BY <1>6 DEF At
<1>12. WithNv(img, nv) \in Seq(STRING) /\ Len(WithNv(img, nv)) = Len(img)
  <2>1. \A i \in 1 .. Len(img) : (IF i - h - 1 \in DOMAIN nv THEN nv[i - h - 1] ELSE img[i]) \in STRING BY <1>1
  <2>2. WithNv(img, nv) \in [1 .. Len(img) -> STRING] BY <1>1, <1>9, <2>1
  <2> QED BY <1>1, <2>2
<1>13. ASSUME NEW i \in DOMAIN img, WithNv(img, nv)[i] # img[i]
       PROVE  /\ \E g \in 1 .. i - 1 : img[g] = "TSVN" /\ \A j \in g + 1 .. i : img[j] # "DEVN"
              /\ \E g \in i + 1 .. Len(img) : img[g] = "DEVN"
  <2>1. i - h - 1 \in 1 .. Len(nv) /\ i \in Nat BY <1>1, <1>9, <1>13
  <2>2. i <= t /\ h + 1 <= i - 1 BY <2>1, <1>1, <1>5, <1>6, <1>8
  <2>3. ASSUME NEW j \in (h + 1) + 1 .. i PROVE img[j] # "DEVN"
    <3>1. j \in DOMAIN img /\ j - 1 \in Scanned /\ j - 1 > h /\ (j - 1) + 1 = j /\ j - 1 < t
      BY <1>1, <1>5, <1>6, <2>1, <2>2 DEF Scanned
    <3>2. At(img, j - 1) = img[j] BY <3>1 DEF At
    <3>3. ~(t <= j - 1) BY <3>1, <1>6
    <3> QED BY <1>7, <3>1, <3>2, <3>3
  <2>4. h + 1 \in 1 .. i - 1 BY <2>1, <2>2, <1>5
  <2>5. t + 1 \in i + 1 .. Len(img) BY <2>1, <2>2, <1>1, <1>6, <1>11
  <2> QED BY <2>3, <2>4, <2>5, <1>10, <1>11
<1> QED BY <1>12, <1>13

\* A transfer that is not cut off moves all of its data.
LEMMA WholeData == ASSUME NEW data \in Seq(Words) PROVE Whole(data) = data /\ Chunks(data) \subseteq Seq(Words)
<1>1. Len(data) \in Nat OBVIOUS
<1>2. \A k \in 0 .. Len(data) : SubSeq(data, 1, k) \in Seq(Words) /\ Len(SubSeq(data, 1, k)) = k BY <1>1
<1>3. SubSeq(data, 1, Len(data)) = data OBVIOUS
<1>4. \A p \in Chunks(data) : \E k \in 0 .. Len(data) : p = SubSeq(data, 1, k)
  <2>1. Len(data) \in 0 .. Len(data) BY <1>1
  <2> QED BY <2>1 DEF Chunks
<1>5. data \in Chunks(data) BY <1>3 DEF Chunks
<1>6. \A q \in Chunks(data) : Len(q) <= Len(data) BY <1>1, <1>2, <1>4
<1>7. Whole(data) \in Chunks(data) /\ Len(data) <= Len(Whole(data)) BY <1>5, <1>6 DEF Whole
<1>8. PICK k \in 0 .. Len(data) : Whole(data) = SubSeq(data, 1, k) BY <1>4, <1>7
<1>9. k = Len(data) BY <1>1, <1>2, <1>7, <1>8
<1> QED BY <1>2, <1>3, <1>4, <1>8, <1>9

LEMMA ImageInitInv == ImageInit => ImageInv
<1> SUFFICES ASSUME ImageInit PROVE ImageInv OBVIOUS
<1> USE ImageAssumption DEF ImageInit
<1>1. Idle \in Transfer BY DEF Idle, Transfer, Regions
<1>2. NoBoot \in BootData /\ NoBoot.iram = <<>> BY DEF NoBoot, BootData, LoadAddresses
<1>3. tr \in [Callers -> Transfer] /\ mem \in [Regions -> Seq(Words)] /\ \A c \in Callers : tr[c] = Idle BY <1>1 DEF Callers
<1>4. imageGhost \in [masked : BOOLEAN, unlocked : BOOLEAN] /\ started \in BOOLEAN /\ busDev \in BOOLEAN
      /\ dt \in [present : BOOLEAN, activeLow : BOOLEAN] /\ ~started
  BY Zenon
<1>5. imageFuel \in [others : Int, faults : Int] /\ probe \in [pc : ProbePcs, tries : Nat, ret : {0, -1}]
  BY DEF ProbePcs
<1>6. ImageTypeOK BY <1>2, <1>3, <1>4, <1>5 DEF ImageTypeOK, Regions, Callers
<1>7. PowerInv BY DEF PowerInv
<1>8. TransferInv BY <1>3 DEF TransferInv, Inside, Addressed, Idle
<1>9. BootCallInv BY <1>3 DEF BootCallInv, Idle, Callers
<1>10. LoadInv
  <2>1. ~Moved /\ boot_data.iram = <<>> /\ ~started /\ probe.pc = "start" BY <1>2, <1>3, <1>4 DEF Moved, Idle, Callers
  <2> QED BY <2>1 DEF LoadInv
<1>11. ImageNvInPlace BY <1>2 DEF ImageNvInPlace
<1> QED BY <1>6, <1>7, <1>8, <1>9, <1>10, <1>11 DEF ImageInv

\* The files of the board.
LEMMA FilesFields ==
    ASSUME ImageInv
    PROVE  files.iram \in Seq(STRING) /\ files.nv \in Seq(STRING) /\ DramImage \in Seq(STRING) /\ boot_data \in BootData
<1>1. files \in [named : SUBSET Images, fallback : SUBSET Images, iram : Seq(STRING), nv : Seq(STRING)]
  BY ImageAssumption DEF ImageInv, ImageTypeOK
<1> QED BY <1>1, ImageAssumption DEF ImageInv, ImageTypeOK

(* An image of the files, with or without the board's data. *)
Placed(b) ==
    /\ b \in BootData /\ b.chip_en = boot_data.chip_en
    /\ b.iram # <<>> => /\ Len(b.iram) = Len(files.iram)
                        /\ \A i \in DOMAIN files.iram : b.iram[i] # files.iram[i] =>
                             /\ \E h \in 1 .. i - 1 : files.iram[h] = "TSVN" /\ \A j \in h + 1 .. i : files.iram[j] # "DEVN"
                             /\ \E t \in i + 1 .. Len(files.iram) : files.iram[t] = "DEVN"

LEMMA PlacedFiles ==
    ASSUME ImageInv, boot_data.iram = <<>>, NEW present
    PROVE  Placed(Analysed(skw_request_firmwares(present))) /\ Placed(NoMemory(present))
<1> DEFINE b == skw_request_firmwares(present)
<1>1. files.iram \in Seq(STRING) /\ files.nv \in Seq(STRING) /\ DramImage \in Seq(STRING) /\ boot_data \in BootData BY FilesFields
<1>2. Placed(boot_data) BY <1>1 DEF ImageInv, ImageNvInPlace, Placed
<1>3. Placed(NoMemory(present))
  <2>1. CASE present = {"dram", "iram"}
    <3>1. NoMemory(present) = [boot_data EXCEPT !.dram = DramImage] BY <2>1 DEF NoMemory
    <3>2. NoMemory(present) \in BootData /\ NoMemory(present).iram = boot_data.iram
          /\ NoMemory(present).chip_en = boot_data.chip_en
      BY <1>1, <3>1 DEF BootData
    <3> QED BY <1>2, <3>2 DEF Placed
  <2>2. CASE present # {"dram", "iram"} BY <1>2, <2>2 DEF NoMemory
  <2> QED BY <2>1, <2>2
<1>4. /\ b \in BootData /\ b.chip_en = boot_data.chip_en /\ Placed(b)
      /\ b.iram = boot_data.iram \/ (b.iram = files.iram /\ b.nv = files.nv)
  <2>1. CASE present = {"dram", "iram"}
    <3>1. b = [boot_data EXCEPT !.dram = DramImage, !.iram = files.iram, !.nv = files.nv] BY <2>1 DEF skw_request_firmwares
    <3>2. b \in BootData /\ b.iram = files.iram /\ b.nv = files.nv /\ b.chip_en = boot_data.chip_en
      BY <1>1, <3>1 DEF BootData
    <3> QED BY <3>2 DEF Placed
  <2>2. CASE present # {"dram", "iram"} BY <1>1, <1>2, <2>2 DEF skw_request_firmwares
  <2> QED BY <2>1, <2>2
<1>5. Placed(Analysed(b))
  <2>1. CASE Analysed(b) = b BY <1>4, <2>1
  <2>2. CASE Analysed(b) # b
    <3> HIDE DEF b
    <3>1. b.iram # <<>> /\ b.iram = files.iram /\ b.nv = files.nv BY <1>4, <2>2 DEF Analysed
    <3> DEFINE img == IF b.nv # <<>> /\ Len(b.nv) <= nv_data_size(b.iram) THEN WithNv(b.iram, b.nv) ELSE b.iram
    <3>2. Analysed(b) = [b EXCEPT !.iram_dl_addr = LoadsAt(b.iram, 1), !.dram_dl_addr = LoadsAt(b.iram, 2), !.iram = img]
      BY <2>2 DEF Analysed
    <3>3. LoadsAt(b.iram, 1) \in LoadAddresses /\ LoadsAt(b.iram, 2) \in LoadAddresses BY DEF LoadsAt, LoadAddresses
    <3>4. /\ img \in Seq(STRING) /\ Len(img) = Len(files.iram)
          /\ \A i \in DOMAIN files.iram : img[i] # files.iram[i] =>
               /\ \E h \in 1 .. i - 1 : files.iram[h] = "TSVN" /\ \A j \in h + 1 .. i : files.iram[j] # "DEVN"
               /\ \E t \in i + 1 .. Len(files.iram) : files.iram[t] = "DEVN"
      <4>1. CASE files.nv # <<>> /\ Len(files.nv) <= nv_data_size(files.iram)
        <5>1. img = WithNv(files.iram, files.nv) BY <3>1, <4>1
        <5> HIDE DEF img
        <5>2. files.iram \in Seq(STRING) /\ files.nv \in Seq(STRING) BY <1>1
        <5>3. /\ WithNv(files.iram, files.nv) \in Seq(STRING) /\ Len(WithNv(files.iram, files.nv)) = Len(files.iram)
              /\ \A i \in DOMAIN files.iram : WithNv(files.iram, files.nv)[i] # files.iram[i] =>
                   /\ \E h \in 1 .. i - 1 : files.iram[h] = "TSVN" /\ \A j \in h + 1 .. i : files.iram[j] # "DEVN"
                   /\ \E t \in i + 1 .. Len(files.iram) : files.iram[t] = "DEVN"
          BY <4>1, <5>2, NvPlace
        <5> QED BY <5>1, <5>3
      <4>2. CASE ~(files.nv # <<>> /\ Len(files.nv) <= nv_data_size(files.iram))
        <5>1. img = files.iram BY <3>1, <4>2
        <5> QED BY <1>1, <5>1
      <4> QED BY <4>1, <4>2
    <3> HIDE DEF img
    <3>5. Analysed(b) \in BootData /\ Analysed(b).iram = img /\ Analysed(b).chip_en = b.chip_en
      BY <1>4, <3>2, <3>3, <3>4 DEF BootData
    <3> QED BY <1>4, <3>4, <3>5 DEF Placed
  <2> QED BY <2>1, <2>2
<1> QED BY <1>3, <1>5

\* Until the boot has files to write, its steps leave the chip's memory alone.
LEMMA EarlySteps ==
    ASSUME ImageInv, UNCHANGED <<files, dt, Chip>>, ImageTypeOK', PowerInv', ImageNvInPlace',
           probe.pc \notin {"config?", "dram?", "iram?", "iram", "flag", "done"},
           probe'.pc \notin {"config?", "dram?", "iram?", "iram", "flag"},
           probe'.pc \in {"start", "bus", "files"} => boot_data'.iram = <<>>
    PROVE  ImageInv'
<1>1. tr["boot"].pc = "idle" /\ ~started BY DEF ImageInv, BootCallInv, LoadInv
<1>2. TransferInv' BY DEF ImageInv, TransferInv, Inside, Addressed, Chip
<1>3. BootCallInv' BY <1>1 DEF ImageInv, BootCallInv, Chip
<1>4. LoadInv' BY <1>1 DEF LoadInv, Moved, Chip
<1> QED BY <1>2, <1>3, <1>4 DEF ImageInv

LEMMA FaultsFuel == ASSUME ImageTypeOK, Faults PROVE imageFuel' \in [others : Int, faults : Int]
<1>1. imageFuel \in [others : Int, faults : Int] /\ imageFuel' = [imageFuel EXCEPT !.faults = imageFuel.faults - 1]
  BY DEF ImageTypeOK, Faults
<1>2. imageFuel.faults - 1 \in Int BY <1>1
<1> QED BY <1>1, <1>2

\* Powering the chip, looking for it and reading its files.
LEMMA ProbeSteps ==
    ASSUME ImageInv, seekwave_boot_parse_dt \/ skw_get_bus_dev \/ skw_boot_init \/ skw_sdio_cpdebug_boot
    PROVE  ImageInv'
<1> USE DEF ImageInv
<1>0. GpioFlags \in {0, 1} /\ boot_data \in BootData /\ probe \in [pc : ProbePcs, tries : Nat, ret : {0, -1}] /\ pin \in {0, 1}
  BY DEF ImageTypeOK, GpioFlags
<1>1. CASE seekwave_boot_parse_dt
  <2> USE <1>1 DEF seekwave_boot_parse_dt
  <2>1. boot_data' \in BootData /\ boot_data'.iram = boot_data.iram /\ boot_data'.chip_en.polarity = GpioFlags
    BY <1>0 DEF BootData
  <2>2. probe' \in [pc : ProbePcs, tries : Nat, ret : {0, -1}] /\ probe'.pc = "bus" BY <1>0 DEF ProbePcs
  <2>3. pin' \in {0, 1} BY <1>0
  <2>4. ImageTypeOK' BY <2>1, <2>2, <2>3 DEF ImageTypeOK, Chip
  <2>5. PowerInv' BY <2>1 DEF PowerInv, GpioFlags
  <2>6. ImageNvInPlace' BY <2>1 DEF ImageNvInPlace
  <2>7. boot_data'.iram = <<>> BY <2>1 DEF LoadInv
  <2> QED BY <2>2, <2>4, <2>5, <2>6, <2>7, EarlySteps
<1>2. CASE skw_get_bus_dev
  <2> USE <1>2 DEF skw_get_bus_dev
  <2>1. probe' \in [pc : ProbePcs, tries : Nat, ret : {0, -1}] /\ probe'.pc \in {"bus", "files", "done"}
    <3>1. \/ probe' = [probe EXCEPT !.pc = "files"] \/ probe' = [probe EXCEPT !.tries = @ + 1]
          \/ probe' = [probe EXCEPT !.pc = "done", !.ret = -1]
      OBVIOUS
    <3>2. probe.pc = "bus" /\ {"files", "done", "bus"} \subseteq ProbePcs BY DEF ProbePcs
    <3>3. CASE probe' = [probe EXCEPT !.pc = "files"] BY <1>0, <3>2, <3>3
    <3>4. CASE probe' = [probe EXCEPT !.tries = @ + 1] BY <1>0, <3>2, <3>4
    <3>5. CASE probe' = [probe EXCEPT !.pc = "done", !.ret = -1] BY <1>0, <3>2, <3>5
    <3> QED BY <3>1, <3>3, <3>4, <3>5
  <2>2. pin' = pin \/ pin' = 1 - boot_data.chip_en.polarity OBVIOUS
  <2>3. boot_data.chip_en.polarity = GpioFlags /\ pin = 1 - GpioFlags BY DEF PowerInv
  <2>4. pin' = 1 - GpioFlags BY <2>2, <2>3
  <2>5. ImageTypeOK' BY <1>0, <2>1, <2>4 DEF ImageTypeOK, Chip
  <2>6. PowerInv' BY <2>3, <2>4 DEF PowerInv, GpioFlags
  <2>7. ImageNvInPlace' BY DEF ImageNvInPlace
  <2>8. boot_data'.iram = <<>> BY DEF LoadInv
  <2> QED BY <2>1, <2>5, <2>6, <2>7, <2>8, EarlySteps
<1>3. CASE skw_boot_init
  <2> USE <1>3 DEF skw_boot_init
  <2>1. boot_data.iram = <<>> BY DEF LoadInv
  <2>2. Placed(boot_data')
    <3>1. PICK present \in {IF files.named = {"dram", "iram"} THEN files.named ELSE files.fallback} :
            boot_data' = Analysed(skw_request_firmwares(present)) \/ boot_data' = NoMemory(present)
      OBVIOUS
    <3> QED BY <2>1, <3>1, PlacedFiles
  <2>3. probe' \in [pc : ProbePcs, tries : Nat, ret : {0, -1}] /\ probe'.pc \in {"config", "debug"} BY <1>0 DEF ProbePcs
  <2>4. imageFuel' \in [others : Int, faults : Int]
    <3>1. imageFuel' = imageFuel \/ imageFuel' = [imageFuel EXCEPT !.faults = @ - 1] BY DEF Faults
    <3> QED BY <3>1 DEF ImageTypeOK
  <2>5. ImageTypeOK' BY <2>2, <2>3, <2>4 DEF ImageTypeOK, Chip, Placed
  <2>6. PowerInv' BY <2>2 DEF PowerInv, GpioFlags, Placed
  <2>7. ImageNvInPlace' BY <2>2 DEF ImageNvInPlace, Placed
  <2> QED BY <2>3, <2>5, <2>6, <2>7, EarlySteps
<1>4. CASE skw_sdio_cpdebug_boot
  <2> USE <1>4 DEF skw_sdio_cpdebug_boot
  <2>1. probe' \in [pc : ProbePcs, tries : Nat, ret : {0, -1}] /\ probe'.pc = "done" BY <1>0 DEF ProbePcs
  <2>2. ImageTypeOK' BY <2>1 DEF ImageTypeOK, Chip
  <2>3. PowerInv' BY DEF PowerInv, GpioFlags
  <2>4. ImageNvInPlace' BY DEF ImageNvInPlace
  <2> QED BY <2>1, <2>2, <2>3, <2>4, EarlySteps
<1> QED BY <1>1, <1>2, <1>3, <1>4

LEMMA CardStep == ASSUME ImageInv, CardAppears PROVE ImageInv'
<1> USE DEF CardAppears, Chip
<1>1. ImageTypeOK' BY DEF ImageInv, ImageTypeOK
<1>2. PowerInv' BY DEF ImageInv, PowerInv, GpioFlags
<1>3. TransferInv' /\ BootCallInv' /\ LoadInv' /\ ImageNvInPlace'
  BY DEF ImageInv, TransferInv, Inside, Addressed, BootCallInv, LoadInv, Moved, ImageNvInPlace
<1> QED BY <1>1, <1>2, <1>3 DEF ImageInv

\* What a step of a transfer has in common with the others.
LEMMA TransferSteps ==
    ASSUME ImageInv, UNCHANGED <<Sdio, started>>, NEW c \in Callers, NEW u \in Transfer,
           tr' = [tr EXCEPT ![c] = u], tr[c].pc # "idle",
           u.pc # "idle", u.op = tr[c].op, u.addr = tr[c].addr, u.data = tr[c].data,
           addressReg' \in Regions, transfer_mutex' \in {"free"} \cup Callers, mem' \in [Regions -> Seq(Words)],
           imageGhost' \in [masked : BOOLEAN, unlocked : BOOLEAN], imageFuel' \in [others : Int, faults : Int]
    PROVE  /\ ImageTypeOK' /\ PowerInv' /\ BootCallInv' /\ ImageNvInPlace'
           /\ tr'[c] = u /\ \A d \in Callers \ {c} : tr'[d] = tr[d]
<1> USE DEF Sdio
<1>1. tr \in [Callers -> Transfer] BY DEF ImageInv, ImageTypeOK
<1>2. tr' \in [Callers -> Transfer] /\ tr'[c] = u /\ \A d \in Callers \ {c} : tr'[d] = tr[d] BY <1>1
<1>3. ImageTypeOK' BY <1>2 DEF ImageInv, ImageTypeOK
<1>4. PowerInv' BY DEF ImageInv, PowerInv, GpioFlags
<1>5. \A d \in Callers : /\ (tr'[d].pc = "idle" <=> tr[d].pc = "idle") /\ tr'[d].op = tr[d].op
                         /\ tr'[d].addr = tr[d].addr /\ tr'[d].data = tr[d].data
  BY <1>2
<1>6. BootCallInv'
  <2>1. \A d \in {"boot", "other"} : /\ (tr'[d].pc = "idle" <=> tr[d].pc = "idle") /\ tr'[d].op = tr[d].op
                                    /\ tr'[d].addr = tr[d].addr /\ tr'[d].data = tr[d].data
    BY <1>5 DEF Callers
  <2>2. BootCallInv /\ probe' = probe /\ boot_data' = boot_data BY DEF ImageInv
  <2> QED BY <2>1, <2>2, SMTT(30) DEF BootCallInv
<1>7. ImageNvInPlace' BY DEF ImageInv, ImageNvInPlace
<1> QED BY <1>2, <1>3, <1>4, <1>6, <1>7

\* The steps of a direct transfer: nobody else is inside, so nobody else's address is lost.
LEMMA EnterStep == ASSUME ImageInv, NEW c \in Callers, skw_sdio_transfer_enter(c) PROVE ImageInv'
<1> USE DEF skw_sdio_transfer_enter
<1>1. ImageTypeOK /\ tr[c] \in Transfer BY DEF ImageInv, ImageTypeOK
<1> DEFINE u == [tr[c] EXCEPT !.pc = IF tr[c].op = "dt_read" THEN "data" ELSE "address"]
<1>2. /\ u \in Transfer /\ u.op = tr[c].op /\ u.addr = tr[c].addr /\ u.data = tr[c].data /\ u.done = tr[c].done
      /\ u.pc = IF tr[c].op = "dt_read" THEN "data" ELSE "address"
  BY <1>1 DEF Transfer
<1>3. tr' = [tr EXCEPT ![c] = u] OBVIOUS
<1> HIDE DEF u
<1>4. /\ ImageTypeOK' /\ PowerInv' /\ BootCallInv' /\ ImageNvInPlace' /\ tr'[c] = u /\ \A d \in Callers \ {c} : tr'[d] = tr[d]
  <2>1. UNCHANGED <<Sdio, started>> /\ tr[c].pc # "idle" OBVIOUS
  <2>2. /\ addressReg' \in Regions /\ transfer_mutex' \in {"free"} \cup Callers /\ mem' \in [Regions -> Seq(Words)]
        /\ imageGhost' \in [masked : BOOLEAN, unlocked : BOOLEAN] /\ imageFuel' \in [others : Int, faults : Int]
    BY <1>1 DEF ImageTypeOK
  <2> QED BY ONLY <1>2, <1>3, <2>1, <2>2, TransferSteps, ImageInv, ZenonT(30)
<1>5. TransferInv'
  <2>1. ASSUME NEW d \in Callers \ {c}
        PROVE  ~Inside(d)' /\ (~imageGhost'.unlocked => (Addressed(d)' => addressReg' = tr'[d].addr) /\ tr'[d].done # 2)
    <3>1. transfer_mutex # d /\ tr'[d] = tr[d] BY <1>4, <2>1 DEF Callers
    <3> QED BY <2>1, <3>1 DEF ImageInv, TransferInv, Inside, Addressed
  <2>2. transfer_mutex' = c /\ (~imageGhost'.unlocked => (Addressed(c)' => addressReg' = tr'[c].addr) /\ tr'[c].done # 2)
    BY <1>2, <1>4 DEF ImageInv, TransferInv, Addressed
  <2> QED BY <2>1, <2>2 DEF TransferInv
<1>6. LoadInv'
  <2>1. Moved' => Moved BY <1>2, <1>4 DEF Moved, Callers
  <2>2. tr'["boot"].addr = tr["boot"].addr /\ tr'["boot"].data = tr["boot"].data BY <1>2, <1>4 DEF Callers
  <2> QED BY <2>1, <2>2 DEF ImageInv, LoadInv, Sdio
<1> QED BY <1>4, <1>5, <1>6 DEF ImageInv

LEMMA AddressStep == ASSUME ImageInv, NEW c \in Callers, skw_sdio_dt_set_address(c) PROVE ImageInv'
<1> USE DEF skw_sdio_dt_set_address
<1>1. ImageTypeOK /\ tr[c] \in Transfer /\ tr \in [Callers -> Transfer] BY DEF ImageInv, ImageTypeOK
<1>2. imageGhost' \in [masked : BOOLEAN, unlocked : BOOLEAN]
  <2>1. Exposed(c) \in BOOLEAN BY DEF Exposed
  <2>2. imageGhost \in [masked : BOOLEAN, unlocked : BOOLEAN] BY <1>1 DEF ImageTypeOK
  <2>3. (imageGhost.unlocked \/ Exposed(c)) \in BOOLEAN BY <2>1, <2>2, Zenon
  <2> DEFINE v == imageGhost.unlocked \/ Exposed(c)
  <2>4. imageGhost' = [imageGhost EXCEPT !.unlocked = v] OBVIOUS
  <2> HIDE DEF v
  <2>5. v \in BOOLEAN BY <2>3 DEF v
  <2> QED BY <2>2, <2>4, <2>5
<1>3. /\ imageGhost'.masked = imageGhost.masked
      /\ ~imageGhost'.unlocked => ~imageGhost.unlocked /\ ~Exposed(c)
  BY <1>1 DEF ImageTypeOK
<1>4. PICK u \in Transfer : /\ tr' = [tr EXCEPT ![c] = u] /\ u.op = tr[c].op /\ u.addr = tr[c].addr /\ u.data = tr[c].data
                            /\ u.done = tr[c].done /\ (u.pc = "end" => u.ret # 0)
                            /\ u.pc # "idle" /\ (u.pc = "exit" => u.ret # 0)
                            /\ u.pc \in {"data", "exit"} => tr[c].op # "dt_read"
                            /\ u.pc \in {"data", "enter"} => addressReg' = tr[c].addr
                            /\ u.pc # "address"
                            /\ addressReg' \in Regions /\ imageFuel' \in [others : Int, faults : Int]
  <2>1. CASE /\ addressReg' = tr[c].addr /\ UNCHANGED imageFuel
             /\ tr' = [tr EXCEPT ![c] = [tr[c] EXCEPT !.pc = IF tr[c].op = "dt_read" THEN "enter" ELSE "data"]]
    <3> DEFINE u == [tr[c] EXCEPT !.pc = IF tr[c].op = "dt_read" THEN "enter" ELSE "data"]
    <3>1. /\ u \in Transfer /\ u.op = tr[c].op /\ u.addr = tr[c].addr /\ u.data = tr[c].data /\ u.done = tr[c].done
          /\ u.pc = IF tr[c].op = "dt_read" THEN "enter" ELSE "data"
      BY <1>1 DEF Transfer
    <3>2. tr' = [tr EXCEPT ![c] = u] BY <2>1
    <3> HIDE DEF u
    <3>3. addressReg' \in Regions /\ imageFuel' \in [others : Int, faults : Int] BY <1>1, <2>1 DEF ImageTypeOK, Transfer
    <3> QED BY <2>1, <3>1, <3>2, <3>3
  <2>2. CASE /\ Faults /\ addressReg' = "zero"
             /\ tr' = [tr EXCEPT ![c] = [tr[c] EXCEPT !.ret = -1, !.pc = IF tr[c].op = "dt_read" THEN "end" ELSE "exit"]]
    <3> DEFINE u == [tr[c] EXCEPT !.ret = -1, !.pc = IF tr[c].op = "dt_read" THEN "end" ELSE "exit"]
    <3>1. /\ u \in Transfer /\ u.op = tr[c].op /\ u.addr = tr[c].addr /\ u.data = tr[c].data /\ u.done = tr[c].done
          /\ u.pc = (IF tr[c].op = "dt_read" THEN "end" ELSE "exit") /\ u.ret = -1
      BY <1>1 DEF Transfer
    <3>2. tr' = [tr EXCEPT ![c] = u] BY <2>2
    <3> HIDE DEF u
    <3>3. addressReg' \in Regions BY <2>2 DEF Regions
    <3>4. imageFuel' \in [others : Int, faults : Int] BY <1>1, <2>2, FaultsFuel
    <3>5. /\ (u.pc = "end" => u.ret # 0) /\ u.pc # "idle" /\ (u.pc = "exit" => u.ret # 0)
          /\ (u.pc \in {"data", "exit"} => tr[c].op # "dt_read") /\ u.pc \notin {"data", "enter", "address"}
      BY <3>1
    <3> QED BY <3>1, <3>2, <3>3, <3>4, <3>5
  <2> QED BY <2>1, <2>2
<1>5. /\ ImageTypeOK' /\ PowerInv' /\ BootCallInv' /\ ImageNvInPlace' /\ tr'[c] = u /\ \A d \in Callers \ {c} : tr'[d] = tr[d]
  <2>1. UNCHANGED <<Sdio, started>> /\ tr[c].pc # "idle" OBVIOUS
  <2>2. /\ addressReg' \in Regions /\ transfer_mutex' \in {"free"} \cup Callers /\ mem' \in [Regions -> Seq(Words)]
        /\ imageGhost' \in [masked : BOOLEAN, unlocked : BOOLEAN] /\ imageFuel' \in [others : Int, faults : Int]
    BY <1>1, <1>2, <1>4 DEF ImageTypeOK
  <2> QED BY ONLY <1>4, <2>1, <2>2, TransferSteps, ImageInv, ZenonT(30)
<1>6. TransferInv'
  <2>1. ASSUME NEW d \in Callers \ {c}
        PROVE  /\ Inside(d)' => transfer_mutex' = d
               /\ ~imageGhost'.unlocked => (Addressed(d)' => addressReg' = tr'[d].addr) /\ tr'[d].done # 2
    <3>1. tr'[d] = tr[d] /\ d \in Callers BY <1>5, <2>1
    <3>2. Inside(d)' => transfer_mutex' = d BY <3>1 DEF ImageInv, TransferInv, Inside
    <3>3. ASSUME ~imageGhost'.unlocked PROVE ~Addressed(d)' /\ tr'[d].done # 2
      <4>1. ~imageGhost.unlocked /\ ~Exposed(c) BY <1>3, <3>3
      <4>2. tr[d].done # 2 BY <3>1, <4>1 DEF ImageInv, TransferInv
      <4>3. d \in DOMAIN tr \ {c} BY <1>1, <2>1
      <4>4. /\ ~(tr[c].op = "dt_read" /\ tr[d].pc = "data")
            /\ ~(tr[d].op = "dt_read" /\ tr[d].pc \in {"enter", "data"})
        BY <4>1, <4>3 DEF Exposed
      <4>5. tr[d].pc = "data" => tr[c].op # "dt_read" /\ Inside(c) /\ Inside(d) BY <4>4 DEF Inside
      <4>6. c # d BY <2>1
      <4>7. ~(Inside(c) /\ Inside(d)) BY <3>1, <4>6 DEF ImageInv, TransferInv
      <4> QED BY <3>1, <4>2, <4>4, <4>5, <4>7 DEF Addressed
    <3> QED BY <3>2, <3>3
  <2>2. Inside(c)' => transfer_mutex' = c BY <1>4, <1>5 DEF ImageInv, TransferInv, Inside
  <2>3. ~imageGhost'.unlocked => (Addressed(c)' => addressReg' = tr'[c].addr) /\ tr'[c].done # 2
    BY <1>3, <1>4, <1>5 DEF ImageInv, TransferInv, Addressed
  <2> QED BY <2>1, <2>2, <2>3 DEF TransferInv
<1>7. LoadInv'
  <2>1. Moved' => Moved BY <1>4, <1>5 DEF Moved, Callers
  <2>2. tr'["boot"].addr = tr["boot"].addr /\ tr'["boot"].data = tr["boot"].data BY <1>4, <1>5 DEF Callers
  <2> QED BY <1>3, <2>1, <2>2 DEF ImageInv, LoadInv, Sdio
<1> QED BY <1>5, <1>6, <1>7 DEF ImageInv

LEMMA ExitStep == ASSUME ImageInv, NEW c \in Callers, skw_sdio_transfer_exit(c) PROVE ImageInv'
<1> USE DEF skw_sdio_transfer_exit
<1>1. ImageTypeOK /\ tr[c] \in Transfer BY DEF ImageInv, ImageTypeOK
<1> DEFINE u == [tr[c] EXCEPT !.pc = "end"]
<1>2. /\ u \in Transfer /\ u.op = tr[c].op /\ u.addr = tr[c].addr /\ u.data = tr[c].data /\ u.done = tr[c].done
      /\ u.pc = "end" /\ u.ret = tr[c].ret
  BY <1>1 DEF Transfer
<1>3. tr' = [tr EXCEPT ![c] = u] OBVIOUS
<1> HIDE DEF u
<1>4. /\ ImageTypeOK' /\ PowerInv' /\ BootCallInv' /\ ImageNvInPlace' /\ tr'[c] = u /\ \A d \in Callers \ {c} : tr'[d] = tr[d]
  <2>1. UNCHANGED <<Sdio, started>> /\ tr[c].pc # "idle" OBVIOUS
  <2>2. /\ addressReg' \in Regions /\ transfer_mutex' \in {"free"} \cup Callers /\ mem' \in [Regions -> Seq(Words)]
        /\ imageGhost' \in [masked : BOOLEAN, unlocked : BOOLEAN] /\ imageFuel' \in [others : Int, faults : Int]
    BY <1>1 DEF ImageTypeOK
  <2> QED BY ONLY <1>2, <1>3, <2>1, <2>2, TransferSteps, ImageInv, ZenonT(30)
<1>5. TransferInv'
  <2>1. ASSUME NEW d \in Callers \ {c}
        PROVE  ~Inside(d)' /\ (~imageGhost'.unlocked => (Addressed(d)' => addressReg' = tr'[d].addr) /\ tr'[d].done # 2)
    <3>1. transfer_mutex = c BY DEF ImageInv, TransferInv, Inside
    <3>2. transfer_mutex # d /\ tr'[d] = tr[d] BY <1>4, <2>1, <3>1
    <3> QED BY <2>1, <3>2 DEF ImageInv, TransferInv, Inside, Addressed
  <2>2. ~Inside(c)' /\ (~imageGhost'.unlocked => ~Addressed(c)' /\ tr'[c].done # 2)
    BY <1>2, <1>4 DEF ImageInv, TransferInv, Addressed, Inside
  <2> QED BY <2>1, <2>2 DEF TransferInv
<1>6. LoadInv'
  <2>1. Moved' => Moved BY <1>2, <1>4 DEF Moved, Callers
  <2>2. tr'["boot"].addr = tr["boot"].addr /\ tr'["boot"].data = tr["boot"].data BY <1>2, <1>4 DEF Callers
  <2> QED BY <2>1, <2>2 DEF ImageInv, LoadInv, Sdio
<1> QED BY <1>4, <1>5, <1>6 DEF ImageInv

LEMMA MoveStep == ASSUME ImageInv, NEW c \in Callers, MovesData(c) PROVE ImageInv'
<1> USE DEF MovesData
<1>1. ImageTypeOK /\ tr[c] \in Transfer /\ tr \in [Callers -> Transfer] /\ mem \in [Regions -> Seq(Words)] /\ addressReg \in Regions
  BY DEF ImageInv, ImageTypeOK
<1>2. PICK part \in Chunks(tr[c].data) :
        /\ IF part = Whole(tr[c].data) THEN UNCHANGED imageFuel ELSE Faults
        /\ mem' = IF Writes(tr[c].op) THEN [mem EXCEPT ![addressReg] = part] ELSE mem
        /\ tr' = [tr EXCEPT ![c] = [tr[c] EXCEPT !.pc = "exit",
                                                 !.ret = IF part = Whole(tr[c].data) THEN 0 ELSE -1,
                                                 !.done = IF addressReg = tr[c].addr THEN 1 ELSE 2]]
  BY ZenonT(30)
<1>3. tr[c].data \in Seq(Words) BY <1>1 DEF Transfer
<1>4. part \in Seq(Words) /\ Whole(tr[c].data) = tr[c].data BY <1>2, <1>3, WholeData
<1> DEFINE u == [tr[c] EXCEPT !.pc = "exit", !.ret = IF part = Whole(tr[c].data) THEN 0 ELSE -1,
                              !.done = IF addressReg = tr[c].addr THEN 1 ELSE 2]
<1>5. /\ u \in Transfer /\ u.op = tr[c].op /\ u.addr = tr[c].addr /\ u.data = tr[c].data /\ u.pc = "exit"
      /\ u.done = (IF addressReg = tr[c].addr THEN 1 ELSE 2) /\ (u.ret = 0 => part = tr[c].data)
  <2> DEFINE ret == IF part = Whole(tr[c].data) THEN 0 ELSE -1
             done == IF addressReg = tr[c].addr THEN 1 ELSE 2
  <2>1. ret \in {0, -1} /\ done \in {0, 1, 2} /\ (ret = 0 => part = tr[c].data) BY <1>4
  <2>2. u = [tr[c] EXCEPT !.pc = "exit", !.ret = ret, !.done = done] OBVIOUS
  <2> HIDE DEF ret, done, u
  <2>3. u \in Transfer /\ u.done = done /\ u.ret = ret BY <1>1, <2>1, <2>2 DEF Transfer
  <2>4. u.op = tr[c].op /\ u.addr = tr[c].addr /\ u.data = tr[c].data /\ u.pc = "exit" BY <1>1, <2>2 DEF Transfer
  <2> QED BY <2>1, <2>3, <2>4 DEF done
<1>6. tr' = [tr EXCEPT ![c] = u] BY <1>2
<1> HIDE DEF u
<1>7. mem' \in [Regions -> Seq(Words)] BY <1>1, <1>2, <1>4
<1>8. imageFuel' \in [others : Int, faults : Int]
  <2>1. imageFuel' = imageFuel \/ imageFuel' = [imageFuel EXCEPT !.faults = @ - 1] BY <1>2 DEF Faults
  <2> QED BY <1>1, <2>1 DEF ImageTypeOK
<1>9. /\ ImageTypeOK' /\ PowerInv' /\ BootCallInv' /\ ImageNvInPlace' /\ tr'[c] = u /\ \A d \in Callers \ {c} : tr'[d] = tr[d]
  <2>1. UNCHANGED <<Sdio, started>> /\ tr[c].pc # "idle" OBVIOUS
  <2>2. /\ addressReg' \in Regions /\ transfer_mutex' \in {"free"} \cup Callers /\ mem' \in [Regions -> Seq(Words)]
        /\ imageGhost' \in [masked : BOOLEAN, unlocked : BOOLEAN] /\ imageFuel' \in [others : Int, faults : Int]
    BY <1>1, <1>7, <1>8 DEF ImageTypeOK
  <2> QED BY ONLY <1>5, <1>6, <2>1, <2>2, TransferSteps, ImageInv, ZenonT(30)
<1>10. transfer_mutex = c /\ (~imageGhost.unlocked => addressReg = tr[c].addr)
  BY DEF ImageInv, TransferInv, Inside, Addressed
<1>11. TransferInv'
  <2>1. ASSUME NEW d \in Callers \ {c}
        PROVE  /\ Inside(d)' => transfer_mutex' = d
               /\ ~imageGhost'.unlocked => (Addressed(d)' => addressReg' = tr'[d].addr) /\ tr'[d].done # 2
    BY <1>9, <2>1 DEF ImageInv, TransferInv, Inside, Addressed
  <2>2. /\ Inside(c)' => transfer_mutex' = c
        /\ ~imageGhost'.unlocked => ~Addressed(c)' /\ tr'[c].done # 2
    BY <1>5, <1>9, <1>10 DEF Addressed
  <2> QED BY <2>1, <2>2 DEF TransferInv
<1>12. LoadInv'
  <2> USE DEF Sdio
  <2>1. boot_data.iram_dl_addr \in LoadAddresses /\ boot_data.dram_dl_addr \in LoadAddresses
    BY <1>1 DEF ImageTypeOK, BootData
  <2>2. CASE c = "other"
    <3>1. tr[c].addr = "regs" /\ tr'["boot"] = tr["boot"] BY <1>9, <2>2 DEF ImageInv, BootCallInv, Callers
    <3>2. ASSUME ~imageGhost.unlocked, NEW r \in Regions, r # "regs" PROVE mem'[r] = mem[r]
      BY <1>1, <1>2, <1>10, <3>1, <3>2
    <3>3. tr["boot"].pc # "idle" => tr["boot"].addr \in Regions \ {"regs"}
      BY <2>1 DEF ImageInv, BootCallInv, Regions, LoadAddresses
    <3>4. LoadAddresses \subseteq Regions /\ "regs" \notin LoadAddresses BY DEF Regions, LoadAddresses
    <3>5. Moved' = Moved /\ (Moved => tr["boot"].pc # "idle") BY <3>1 DEF Moved
    <3> QED BY <2>1, <3>1, <3>2, <3>3, <3>4, <3>5 DEF ImageInv, LoadInv
  <2>3. CASE c = "boot"
    <3>1. /\ probe.pc \in {"config?", "dram?", "iram?"} /\ tr[c].op = "dt_write"
          /\ probe.pc = "iram?" => tr[c].addr = boot_data.iram_dl_addr
      BY <2>3 DEF ImageInv, BootCallInv
    <3>2. mem' = [mem EXCEPT ![addressReg] = part] BY <1>2, <3>1 DEF Writes
    <3>3. ~started BY <3>1 DEF ImageInv, LoadInv
    <3>4. ~imageGhost.unlocked => mem'[tr[c].addr] = part /\ \A r \in Regions : r # tr[c].addr => mem'[r] = mem[r]
      <4>1. mem'[addressReg] = part
        <5>1. addressReg \in DOMAIN mem BY ONLY <1>1
        <5> QED BY ONLY <3>2, <5>1
      <4>2. ASSUME NEW r \in Regions, r # addressReg PROVE mem'[r] = mem[r]
        <5>1. r \in DOMAIN mem BY ONLY <1>1, <4>2
        <5> QED BY ONLY <3>2, <4>2, <5>1
      <4> QED BY ONLY <1>10, <4>1, <4>2
    <3>5. ~imageGhost'.unlocked /\ Moved' => mem'[tr'["boot"].addr] = tr'["boot"].data
      <4>1. tr'["boot"] = u BY ONLY <1>9, <2>3
      <4>2. Moved' => part = tr[c].data BY ONLY <1>5, <4>1 DEF Moved
      <4>3. ~imageGhost'.unlocked => ~imageGhost.unlocked OBVIOUS
      <4> QED BY ONLY <1>5, <3>4, <4>1, <4>2, <4>3
    <3>6. boot_data.dram_dl_addr \in Regions BY <2>1 DEF Regions, LoadAddresses
    <3>7. ASSUME ~imageGhost.unlocked, ~imageGhost.masked, boot_data.iram_dl_addr # boot_data.dram_dl_addr, probe.pc = "iram?"
          PROVE  mem'[boot_data.dram_dl_addr] = boot_data.dram
      BY <3>1, <3>4, <3>6, <3>7 DEF ImageInv, LoadInv
    <3> QED BY <3>1, <3>3, <3>5, <3>7 DEF ImageInv, LoadInv
  <2> QED BY <2>2, <2>3 DEF Callers
<1> QED BY <1>9, <1>11, <1>12 DEF ImageInv

\* The words that are written besides the images', and the words of the images.
LEMMA WordLists == /\ <<"w">> \in Seq(Words) /\ <<"0">> \in Seq(Words)
                   /\ \A w \in Seq(STRING) : w \in Seq(Words)
<1>1. ASSUME NEW w \in Words PROVE <<w>> \in Seq(Words)
  <2>1. <<w>> = [i \in 1 .. 1 |-> w] OBVIOUS
  <2>2. [i \in 1 .. 1 |-> w] \in Seq(Words) OBVIOUS
  <2> QED BY <2>1, <2>2
<1>2. "w" \in Words /\ "0" \in Words BY DEF Words
<1>3. ASSUME NEW w \in Seq(STRING) PROVE w \in Seq(Words)
  <2>1. Len(w) \in Nat /\ w \in [1 .. Len(w) -> STRING] OBVIOUS
  <2>2. w \in [1 .. Len(w) -> Words] BY <2>1 DEF Words
  <2> QED BY <2>1, <2>2
<1> QED BY <1>1, <1>2, <1>3

LEMMA OtherStep == ASSUME ImageInv, OtherCalls PROVE ImageInv'
<1> USE DEF OtherCalls, Calls, Sdio
<1>1. ImageTypeOK /\ tr \in [Callers -> Transfer] BY DEF ImageInv, ImageTypeOK
<1>2. PICK u \in Transfer : /\ tr' = [tr EXCEPT !["other"] = u] /\ u.addr = "regs" /\ u.done = 0
                            /\ u.pc = (IF u.op = "dt_read" THEN "address" ELSE "enter")
  <2>1. PICK op \in {"dt_read", "writel", "readl"} :
          tr' = [tr EXCEPT !["other"] = [pc |-> IF op = "dt_read" THEN "address" ELSE "enter",
                                         op |-> op, addr |-> "regs", data |-> <<"w">>, done |-> 0, ret |-> 0]]
    OBVIOUS
  <2> DEFINE u == [pc |-> IF op = "dt_read" THEN "address" ELSE "enter",
                   op |-> op, addr |-> "regs", data |-> <<"w">>, done |-> 0, ret |-> 0]
  <2>2. <<"w">> \in Seq(Words) BY WordLists
  <2>3. u \in Transfer BY <2>1, <2>2 DEF Transfer, Regions
  <2> QED BY <2>1, <2>3
<1>3. tr' \in [Callers -> Transfer] /\ tr'["other"] = u /\ tr'["boot"] = tr["boot"] BY <1>1, <1>2 DEF Callers
<1>4. imageFuel' \in [others : Int, faults : Int] BY <1>1 DEF ImageTypeOK
<1>5. ImageTypeOK' BY <1>3, <1>4 DEF ImageInv, ImageTypeOK
<1>6. PowerInv' /\ ImageNvInPlace' BY DEF ImageInv, PowerInv, GpioFlags, ImageNvInPlace
<1>7. TransferInv'
  <2>1. ~Inside("other")' /\ ~Addressed("other")' /\ tr'["other"].done # 2 BY <1>2, <1>3 DEF Inside, Addressed
  <2>2. /\ Inside("boot")' => transfer_mutex' = "boot"
        /\ ~imageGhost'.unlocked => (Addressed("boot")' => addressReg' = tr'["boot"].addr) /\ tr'["boot"].done # 2
    BY <1>3 DEF ImageInv, TransferInv, Inside, Addressed, Callers
  <2> QED BY <2>1, <2>2 DEF TransferInv, Callers
<1>8. BootCallInv' BY <1>2, <1>3 DEF ImageInv, BootCallInv
<1>9. LoadInv' BY <1>3 DEF ImageInv, LoadInv, Moved
<1> QED BY <1>5, <1>6, <1>7, <1>8, <1>9 DEF ImageInv

LEMMA LoadSteps ==
    ASSUME ImageInv, NEW pc \in {"config", "dram", "iram"}, NEW addr \in Regions, NEW data \in Seq(Words),
           NEW next \in {"config?", "dram?", "iram?"}, Loads(pc, addr, data, next),
           next = "config?" => addr = "config",
           next = "dram?" => addr = boot_data.dram_dl_addr /\ data = boot_data.dram,
           next = "iram?" => pc = "iram" /\ addr = boot_data.iram_dl_addr /\ data = boot_data.iram
    PROVE  ImageInv'
<1> USE DEF Loads, Calls
<1>1. ImageTypeOK /\ tr \in [Callers -> Transfer] /\ ~started BY DEF ImageInv, ImageTypeOK, LoadInv
<1> DEFINE u == [pc |-> "enter", op |-> "dt_write", addr |-> addr, data |-> data, done |-> 0, ret |-> 0]
<1>2. u \in Transfer BY DEF Transfer
<1>3. tr' = [tr EXCEPT !["boot"] = u] OBVIOUS
<1>4. u.pc = "enter" /\ u.op = "dt_write" /\ u.addr = addr /\ u.data = data /\ u.done = 0 OBVIOUS
<1> HIDE DEF u
<1>5. tr' \in [Callers -> Transfer] /\ tr'["boot"] = u /\ tr'["other"] = tr["other"] BY <1>1, <1>2, <1>3 DEF Callers
<1>6. probe' \in [pc : ProbePcs, tries : Nat, ret : {0, -1}] /\ probe'.pc = next BY <1>1 DEF ImageTypeOK, ProbePcs
<1>7. ImageTypeOK' BY <1>5, <1>6 DEF ImageInv, ImageTypeOK
<1>8. PowerInv' /\ ImageNvInPlace' BY <1>6 DEF ImageInv, PowerInv, GpioFlags, ImageNvInPlace
<1>9. TransferInv'
  <2>1. ~Inside("boot")' /\ ~Addressed("boot")' /\ tr'["boot"].done # 2 BY <1>4, <1>5 DEF Inside, Addressed
  <2>2. /\ Inside("other")' => transfer_mutex' = "other"
        /\ ~imageGhost'.unlocked => (Addressed("other")' => addressReg' = tr'["other"].addr) /\ tr'["other"].done # 2
    BY <1>5 DEF ImageInv, TransferInv, Inside, Addressed, Callers
  <2> QED BY <2>1, <2>2 DEF TransferInv, Callers
<1>10. BootCallInv' BY <1>4, <1>5, <1>6 DEF ImageInv, BootCallInv
<1>11. LoadInv' BY <1>1, <1>4, <1>5, <1>6 DEF ImageInv, LoadInv, Moved
<1> QED BY <1>7, <1>8, <1>9, <1>10, <1>11 DEF ImageInv

LEMMA WriteStep == ASSUME ImageInv, BootWrites PROVE ImageInv'
<1>1. boot_data \in BootData BY DEF ImageInv, ImageTypeOK
<1>2. /\ boot_data.dram_dl_addr \in Regions /\ boot_data.iram_dl_addr \in Regions
      /\ boot_data.dram \in Seq(Words) /\ boot_data.iram \in Seq(Words)
  BY <1>1, WordLists DEF BootData, Regions, LoadAddresses
<1>3. CASE Loads("config", "config", <<"0">>, "config?")
  <2>1. "config" \in Regions /\ <<"0">> \in Seq(Words) BY WordLists DEF Regions
  <2> QED BY <1>3, <2>1, LoadSteps
<1>4. CASE Loads("dram", boot_data.dram_dl_addr, boot_data.dram, "dram?") BY <1>2, <1>4, LoadSteps
<1>5. CASE Loads("iram", boot_data.iram_dl_addr, boot_data.iram, "iram?") BY <1>2, <1>5, LoadSteps
<1> QED BY <1>3, <1>4, <1>5 DEF BootWrites

LEMMA WrittenStep == ASSUME ImageInv, BootWritten PROVE ImageInv'
<1> USE DEF BootWritten
<1>1. ImageTypeOK /\ tr \in [Callers -> Transfer] /\ tr["boot"] \in Transfer /\ ~started
  BY DEF ImageInv, ImageTypeOK, LoadInv, Callers
<1>2. Idle \in Transfer /\ Idle.pc = "idle" /\ Idle.done = 0 BY DEF Idle, Transfer, Regions
<1>3. tr' \in [Callers -> Transfer] /\ tr'["boot"] = Idle /\ tr'["other"] = tr["other"] BY <1>1, <1>2 DEF Callers
<1>4. /\ probe' \in [pc : ProbePcs, tries : Nat, ret : {0, -1}]
      /\ \/ probe'.pc = "done"
         \/ probe.pc = "config?" /\ probe'.pc = "dram"
         \/ probe.pc = "dram?" /\ probe'.pc = "iram"
         \/ probe.pc = "iram?" /\ probe'.pc = "flag" /\ tr["boot"].ret = 0
  <2>1. CASE probe.pc = "iram?" /\ tr["boot"].ret # 0 BY <1>1, <2>1 DEF ImageTypeOK, ProbePcs
  <2>2. CASE ~(probe.pc = "iram?" /\ tr["boot"].ret # 0)
    <3>1. probe' = [probe EXCEPT !.pc = Follows(probe.pc)] BY <2>2
    <3>2. \/ probe.pc = "config?" /\ Follows(probe.pc) = "dram"
          \/ probe.pc = "dram?" /\ Follows(probe.pc) = "iram"
          \/ probe.pc = "iram?" /\ Follows(probe.pc) = "flag" /\ tr["boot"].ret = 0
      BY <2>2 DEF Follows
    <3> QED BY <1>1, <3>1, <3>2 DEF ImageTypeOK, ProbePcs
  <2> QED BY <2>1, <2>2
<1> DEFINE v == imageGhost.masked \/ (probe.pc = "dram?" /\ tr["boot"].ret # 0)
<1>5. v \in BOOLEAN
  <2>1. imageGhost.masked \in BOOLEAN BY <1>1, Zenon DEF ImageTypeOK
  <2> QED BY <2>1, Zenon
<1>6. imageGhost' = [imageGhost EXCEPT !.masked = v] OBVIOUS
<1>7. (probe.pc = "dram?" /\ ~v) => ~imageGhost.masked /\ tr["boot"].ret = 0 OBVIOUS
<1>8. ~v => ~imageGhost.masked OBVIOUS
<1> HIDE DEF v
<1>9. /\ imageGhost' \in [masked : BOOLEAN, unlocked : BOOLEAN]
      /\ imageGhost'.masked = v /\ imageGhost'.unlocked = imageGhost.unlocked
  BY <1>1, <1>5, <1>6 DEF ImageTypeOK
<1>10. ImageTypeOK' BY <1>3, <1>4, <1>9 DEF ImageInv, ImageTypeOK
<1>11. PowerInv' /\ ImageNvInPlace' BY <1>4 DEF ImageInv, PowerInv, GpioFlags, ImageNvInPlace
<1>12. TransferInv'
  <2>1. ~Inside("boot")' /\ ~Addressed("boot")' /\ tr'["boot"].done # 2 BY <1>2, <1>3 DEF Inside, Addressed
  <2>2. /\ Inside("other")' => transfer_mutex' = "other"
        /\ ~imageGhost'.unlocked => (Addressed("other")' => addressReg' = tr'["other"].addr) /\ tr'["other"].done # 2
    BY <1>3, <1>9 DEF ImageInv, TransferInv, Inside, Addressed, Callers
  <2> QED BY <2>1, <2>2 DEF TransferInv, Callers
<1>13. BootCallInv' BY <1>2, <1>3, <1>4 DEF ImageInv, BootCallInv
<1>14. LoadInv'
  <2>1. tr["boot"].ret = 0 => Moved BY DEF Moved
  <2>2. probe.pc = "dram?" => tr["boot"].addr = boot_data.dram_dl_addr /\ tr["boot"].data = boot_data.dram BY DEF ImageInv, BootCallInv
  <2>3. probe.pc = "iram?" => tr["boot"].addr = boot_data.iram_dl_addr /\ tr["boot"].data = boot_data.iram BY DEF ImageInv, BootCallInv
  <2>4. ~Moved' BY <1>2, <1>3 DEF Moved
  <2>5. ~started' /\ boot_data' = boot_data /\ mem' = mem BY <1>1
  <2>6. ASSUME ~imageGhost'.unlocked, probe'.pc = "flag" PROVE mem'[boot_data.iram_dl_addr] = boot_data.iram
    BY <1>4, <1>9, <2>1, <2>3, <2>5, <2>6 DEF ImageInv, LoadInv
  <2>7. ASSUME ~imageGhost'.unlocked, ~imageGhost'.masked, boot_data.iram_dl_addr # boot_data.dram_dl_addr,
               probe'.pc \in {"iram", "iram?", "flag"}
        PROVE  mem'[boot_data.dram_dl_addr] = boot_data.dram
    <3>1. ~imageGhost.masked /\ ~imageGhost.unlocked BY <1>8, <1>9, <2>7
    <3>2. CASE probe.pc = "dram?" BY <1>7, <1>9, <2>1, <2>2, <2>5, <2>7, <3>1, <3>2 DEF ImageInv, LoadInv
    <3>3. CASE probe.pc = "iram?" BY <2>5, <2>7, <3>1, <3>3 DEF ImageInv, LoadInv
    <3> QED BY <1>4, <2>7, <3>2, <3>3
  <2>8. probe'.pc \notin {"start", "bus", "files"} BY <1>4
  <2> QED BY <2>4, <2>5, <2>6, <2>7, <2>8 DEF LoadInv
<1> QED BY <1>10, <1>11, <1>12, <1>13, <1>14 DEF ImageInv

LEMMA StartStep == ASSUME ImageInv, BootStarts PROVE ImageInv'
<1> USE DEF BootStarts
<1>1. ImageTypeOK BY DEF ImageInv
<1>2. probe' \in [pc : ProbePcs, tries : Nat, ret : {0, -1}] /\ probe'.pc = "done" BY <1>1 DEF ImageTypeOK, ProbePcs
<1>3. started' \in BOOLEAN /\ imageFuel' \in [others : Int, faults : Int]
  <2>1. CASE started' = TRUE /\ UNCHANGED imageFuel BY <1>1, <2>1 DEF ImageTypeOK
  <2>2. CASE Faults /\ UNCHANGED started
    <3>1. started' \in BOOLEAN BY <1>1, <2>2, Zenon DEF ImageTypeOK
    <3>2. imageFuel' \in [others : Int, faults : Int] BY <1>1, <2>2, FaultsFuel
    <3> QED BY <3>1, <3>2
  <2> QED BY <2>1, <2>2
<1>4. ImageTypeOK' BY <1>2, <1>3 DEF ImageInv, ImageTypeOK
<1>5. PowerInv' /\ ImageNvInPlace' BY <1>2 DEF ImageInv, PowerInv, GpioFlags, ImageNvInPlace
<1>6. TransferInv' BY DEF ImageInv, TransferInv, Inside, Addressed
<1>7. BootCallInv' BY <1>2 DEF ImageInv, BootCallInv
<1>8. LoadInv' BY <1>2 DEF ImageInv, LoadInv, Moved
<1> QED BY <1>4, <1>5, <1>6, <1>7, <1>8 DEF ImageInv

LEMMA ImageStep == ImageInv /\ [ImageNext]_ImageVars => ImageInv'
<1> SUFFICES ASSUME ImageInv, [ImageNext]_ImageVars PROVE ImageInv' OBVIOUS
<1>1. DOMAIN tr = Callers BY DEF ImageInv, ImageTypeOK
<1>2. CASE UNCHANGED ImageVars
  <2> USE <1>2 DEF ImageVars
  <2>1. ImageTypeOK' /\ PowerInv' /\ BootCallInv' BY DEF ImageInv, ImageTypeOK, PowerInv, GpioFlags, BootCallInv
  <2>2. TransferInv' /\ LoadInv' /\ ImageNvInPlace' BY DEF ImageInv, TransferInv, Inside, Addressed, LoadInv, Moved, ImageNvInPlace
  <2> QED BY <2>1, <2>2 DEF ImageInv
<1> QED BY <1>1, <1>2, ProbeSteps, CardStep, EnterStep, AddressStep, MoveStep, ExitStep, OtherStep, WriteStep, WrittenStep,
           StartStep DEF ImageNext

(* Whatever the firmware directory holds, however a transfer or an allocation fails and whoever else uses the address
   register: a chip that is started has both images whole where the image says, with the board's NV data between its
   marks and nothing else changed, and has power while it is looked for and loaded; a DRAM write whose failure
   skw_sdio_boot_cp overwrites and an address that skw_sdio_dt_read sets outside the mutex are the only exceptions. *)
THEOREM ImageSafety == ImageSpec => []ImageSafe
<1>1. ImageInv => ImageSafe
  <2> SUFFICES ASSUME ImageInv PROVE ImageSafe OBVIOUS
  <2>1. ImageNvInPlace BY DEF ImageInv
  <2>2. ImageWhole BY DEF ImageInv, LoadInv, ImageWhole
  <2>3. DirectAddressed BY DEF ImageInv, ImageTypeOK, TransferInv, DirectAddressed
  <2>4. ImagePowered
    <3>1. dt.activeLow \in BOOLEAN /\ dt.present \in BOOLEAN BY Zenon DEF ImageInv, ImageTypeOK
    <3> QED BY <3>1 DEF ImageInv, PowerInv, GpioFlags, ImagePowered
  <2> QED BY <2>1, <2>2, <2>3, <2>4 DEF ImageSafe
<1> QED BY <1>1, ImageInitInv, ImageStep, PTL DEF ImageSpec

-----------------------------------------------------------------------------
(* What goes over the wires, and what the controller and the driver hold. *)
Wire == [cmd : {"mode7x10", "auto", "fixed"}] \cup [cmd : {"control"}, on : BOOLEAN, level : Nat]
        \cup [cmd : {"addr"}, addr : Nat, bytes : Seq(Nat) \ {<<>>}]
ControllerStates == [mode : BOOLEAN, auto : BOOLEAN, ram : [RamBytes -> Nat], on : BOOLEAN, level : Nat]
Cached == [text : [1 .. NumDigits -> Glyphs], digits : [1 .. NumDigits -> Nat], symbols : SymbolSets,
           brightness : Levels, enabled : BOOLEAN]

PanelTypes ==
    /\ PanelTypeOK /\ todo \in Seq(Wire) /\ chip \in ControllerStates /\ panel \in Cached
    /\ \A i \in 1 .. NumDigits : panel.digits[i] = Seg7[panel.text[i]]

(* The files come after probe, and whoever binds starts afresh. *)
LifeInv ==
    /\ drv \in {"new", "probing", "gone"} => ~attrs
    /\ drv = "probing" => panel = Fresh

(* Of S the first k transactions have been sent, and ts is the rest. *)
SentOf(S, k, ts) ==
    /\ k \in 0 .. Len(S) - 1 /\ Len(ts) = Len(S) - k
    /\ \A i \in 1 .. Len(ts) : ts[i] = S[k + i]

(* The first j bytes of ht1628_write_digits and ht1628_write_symbols. *)
Reached(a, j) == (\E i \in 1 .. NumDigits : i <= j /\ a = DigitAddr(i)) \/ (j > NumDigits /\ a = SymbolAddr)

SwitchedAs == chip.on = panel.enabled /\ chip.level = panel.brightness
Shown == chip.mode /\ ~chip.auto /\ chip.ram = RamOf(panel) /\ SwitchedAs

ShowsDigits(k) ==
    /\ SentOf(ht1628_write_digits(panel), k, todo) /\ chip.mode /\ ~chip.auto /\ SwitchedAs
    /\ \A a \in RamBytes : chip.ram[a] = RamOf(panel)[a] \/ \E i \in 1 .. NumDigits : i > k /\ a = DigitAddr(i)
ShowsSymbols ==
    /\ todo = ht1628_write_symbols(panel) /\ chip.mode /\ ~chip.auto /\ SwitchedAs
    /\ \A a \in RamBytes : chip.ram[a] = RamOf(panel)[a] \/ a = SymbolAddr
ShowsControl ==
    /\ todo = ht1628_write_control(panel, panel.enabled) /\ chip.mode /\ ~chip.auto /\ chip.ram = RamOf(panel)
ShowsRestore(k) ==
    /\ SentOf(ht1628_restore(panel), k, todo)
    /\ (k >= 1 => chip.mode) /\ (k \in {2, 3} => chip.auto) /\ (k >= 4 => ~chip.auto)
    /\ k >= 3 => \A a \in RamBytes : chip.ram[a] = IF Reached(a, k - 4) THEN RamOf(panel)[a] ELSE 0

(* The controller shows the cached state, or will when the lock's holder is through. *)
Showing ==
    \/ holder = "none" /\ Shown
    \/ holder # "none" /\ \/ \E k \in Nat : ShowsDigits(k) \/ ShowsRestore(k)
                          \/ ShowsSymbols \/ ShowsControl

(* The controller is dark, or will be. *)
Darkening == IF holder = "none" THEN ~chip.on ELSE todo = ht1628_write_control(panel, FALSE)

(* What the service has written is in the cache, and what it leaves behind is dark. *)
TruthInv ==
    /\ last \in [text : ClockTexts \cup {<<>>}, symbols : {<<>>} \cup {<<v>> : v \in SymbolSets}]
    /\ dpc \in {"start", "enable"} => last.text = <<>> /\ last.symbols = <<>>
    /\ ~foreign =>
        /\ dpc \in {"update", "symbols"} /\ last.text # <<>> => panel.text = last.text
        /\ dpc \in {"update", "symbols"} /\ last.symbols # <<>> => <<panel.symbols>> = last.symbols
        /\ dpc = "stopped" /\ attrs => ~panel.enabled \/ RamOf(panel) = Dark

PanelInv ==
    /\ PanelTypes /\ LifeInv /\ TruthInv
    /\ drv \in {"probing", "bound"} => Showing
    /\ drv \in {"removing", "gone", "suspended", "off"} /\ ~late => Darkening

\* The digits and the symbols have bytes of their own in the display RAM.
LEMMA PanelAddresses ==
    /\ NumDigits \in Nat /\ NumDigits >= 1 /\ SymbolAddr \in RamBytes /\ RamBytes \subseteq Nat
    /\ \A i \in 1 .. NumDigits : DigitAddr(i) \in RamBytes /\ DigitAddr(i) # SymbolAddr
    /\ \A i, j \in 1 .. NumDigits : DigitAddr(i) = DigitAddr(j) => i = j
BY PanelAssumption DEF SymbolAddr, RamBytes, DigitAddr

\* What the cached state stands for, byte by byte.
LEMMA RamOfAt ==
    ASSUME NEW p \in Cached
    PROVE  /\ RamOf(p) \in [RamBytes -> Nat] /\ RamOf(p)[SymbolAddr] = p.symbols
           /\ \A i \in 1 .. NumDigits : RamOf(p)[DigitAddr(i)] = Seg7[p.text[i]]
           /\ \A a \in RamBytes : a # SymbolAddr /\ (\A i \in 1 .. NumDigits : a # DigitAddr(i)) => RamOf(p)[a] = 0
<1>1. p.text \in [1 .. NumDigits -> Glyphs] /\ p.symbols \in Nat BY PanelAssumption DEF Cached
<1>2. ASSUME NEW i \in 1 .. NumDigits PROVE (CHOOSE j \in 1 .. NumDigits : DigitAddr(i) = DigitAddr(j)) = i
  <2>1. \A j \in 1 .. NumDigits : DigitAddr(i) = DigitAddr(j) <=> j = i BY PanelAddresses
  <2> HIDE DEF DigitAddr
  <2> QED BY <2>1
<1>3. ASSUME NEW a \in RamBytes, \E i \in 1 .. NumDigits : a = DigitAddr(i)
      PROVE  (CHOOSE i \in 1 .. NumDigits : a = DigitAddr(i)) \in 1 .. NumDigits
  BY <1>3
<1>4. \A g \in Glyphs : Seg7[g] \in Nat BY PanelAssumption
<1>5. RamOf(p) \in [RamBytes -> Nat]
  <2>1. ASSUME NEW a \in RamBytes
        PROVE  (IF \E i \in 1 .. NumDigits : a = DigitAddr(i)
                THEN Seg7[p.text[CHOOSE i \in 1 .. NumDigits : a = DigitAddr(i)]]
                ELSE IF a = SymbolAddr THEN p.symbols ELSE 0) \in Nat
    <3>1. CASE \E i \in 1 .. NumDigits : a = DigitAddr(i)
      <4>1. p.text[CHOOSE i \in 1 .. NumDigits : a = DigitAddr(i)] \in Glyphs BY <1>1, <1>3, <3>1
      <4> QED BY <1>4, <3>1, <4>1
    <3>2. CASE ~\E i \in 1 .. NumDigits : a = DigitAddr(i) BY <1>1, <3>2
    <3> QED BY <3>1, <3>2
  <2> QED BY <2>1 DEF RamOf
<1>6. ASSUME NEW i \in 1 .. NumDigits PROVE RamOf(p)[DigitAddr(i)] = Seg7[p.text[i]]
  <2>1. DigitAddr(i) \in RamBytes BY PanelAddresses
  <2>2. RamOf(p)[DigitAddr(i)] = Seg7[p.text[CHOOSE j \in 1 .. NumDigits : DigitAddr(i) = DigitAddr(j)]] BY <2>1 DEF RamOf
  <2> QED BY <1>2, <2>2
<1>7. RamOf(p)[SymbolAddr] = p.symbols BY PanelAddresses DEF RamOf
<1>8. \A a \in RamBytes : a # SymbolAddr /\ (\A i \in 1 .. NumDigits : a # DigitAddr(i)) => RamOf(p)[a] = 0 BY DEF RamOf
<1> QED BY <1>5, <1>6, <1>7, <1>8

\* What each of the four functions that write sends.
LEMMA OneByte == ASSUME NEW a \in Nat, NEW v \in Nat PROVE Bytes(a, <<v>>) \in Wire /\ <<v>>[Len(<<v>>)] = v
<1>1. <<v>> \in Seq(Nat) \ {<<>>} OBVIOUS
<1>2. Bytes(a, <<v>>) \in [cmd : {"addr"}, addr : Nat, bytes : Seq(Nat) \ {<<>>}] BY <1>1 DEF Bytes
<1> QED BY <1>2 DEF Wire

LEMMA DigitScript ==
    ASSUME NEW p \in Cached
    PROVE  /\ ht1628_write_digits(p) \in Seq(Wire) /\ Len(ht1628_write_digits(p)) = NumDigits
           /\ \A i \in 1 .. NumDigits : ht1628_write_digits(p)[i] = Bytes(DigitAddr(i), <<p.digits[i]>>)
<1>1. \A i \in 1 .. NumDigits : p.digits[i] \in Nat BY DEF Cached
<1>2. \A i \in 1 .. NumDigits : Bytes(DigitAddr(i), <<p.digits[i]>>) \in Wire BY <1>1, PanelAddresses, OneByte
<1>3. ht1628_write_digits(p) = [i \in 1 .. NumDigits |-> Bytes(DigitAddr(i), <<p.digits[i]>>)] BY DEF ht1628_write_digits
<1>4. ht1628_write_digits(p) \in [1 .. NumDigits -> Wire] BY <1>2, <1>3
<1> QED BY <1>3, <1>4, PanelAddresses

LEMMA ShortScripts ==
    ASSUME NEW p \in Cached, NEW on \in BOOLEAN
    PROVE  /\ ht1628_write_symbols(p) \in Seq(Wire) /\ Len(ht1628_write_symbols(p)) = 1
           /\ ht1628_write_symbols(p)[1] = Bytes(SymbolAddr, <<p.symbols>>)
           /\ ht1628_write_control(p, on) \in Seq(Wire) /\ Len(ht1628_write_control(p, on)) = 1
           /\ ht1628_write_control(p, on)[1] = [cmd |-> "control", on |-> on, level |-> p.brightness]
<1>1. p.symbols \in Nat /\ p.brightness \in Nat BY PanelAssumption DEF Cached
<1>2. Bytes(SymbolAddr, <<p.symbols>>) \in Wire BY <1>1, PanelAddresses, OneByte
<1>3. [cmd |-> "control", on |-> on, level |-> p.brightness] \in Wire BY <1>1 DEF Wire
<1> QED BY <1>2, <1>3 DEF ht1628_write_symbols, ht1628_write_control

\* Sequences of transactions.
LEMMA EmptyWire == \A q \in Seq(Wire) : q = <<>> <=> Len(q) = 0
OBVIOUS

LEMMA ConcatAt ==
    ASSUME NEW r \in Seq(Wire), NEW s \in Seq(Wire)
    PROVE  /\ r \o s \in Seq(Wire) /\ Len(r \o s) = Len(r) + Len(s)
           /\ \A i \in 1 .. Len(r) : (r \o s)[i] = r[i]
           /\ \A i \in 1 .. Len(s) : (r \o s)[Len(r) + i] = s[i]
<1>1. Len(r) \in Nat /\ Len(s) \in Nat OBVIOUS
<1>2. r \o s \in Seq(Wire) /\ Len(r \o s) = Len(r) + Len(s) OBVIOUS
<1>3. \A i \in 1 .. Len(r) : (r \o s)[i] = r[i] BY <1>1
<1>4. \A i \in 1 .. Len(s) : (r \o s)[Len(r) + i] = s[i] BY <1>1
<1> QED BY <1>2, <1>3, <1>4

LEMMA RestoreScript ==
    ASSUME NEW p \in Cached
    PROVE  /\ ht1628_restore(p) \in Seq(Wire) /\ Len(ht1628_restore(p)) = NumDigits + 6
           /\ ht1628_restore(p)[1] = Bare("mode7x10") /\ ht1628_restore(p)[2] = Bare("auto")
           /\ ht1628_restore(p)[3] = Bytes(0, [a \in 1 .. SymbolAddr + 2 |-> 0]) /\ ht1628_restore(p)[4] = Bare("fixed")
           /\ \A i \in 1 .. NumDigits : ht1628_restore(p)[4 + i] = Bytes(DigitAddr(i), <<p.digits[i]>>)
           /\ ht1628_restore(p)[NumDigits + 5] = Bytes(SymbolAddr, <<p.symbols>>)
           /\ ht1628_restore(p)[NumDigits + 6] = [cmd |-> "control", on |-> p.enabled, level |-> p.brightness]
<1> DEFINE A == <<Bare("mode7x10"), Bare("auto"), Bytes(DigitAddr(1), [a \in 1 .. SymbolAddr + 2 |-> 0]), Bare("fixed")>>
           D == ht1628_write_digits(p)
           S == ht1628_write_symbols(p)
           C == ht1628_write_control(p, p.enabled)
<1>1. p.enabled \in BOOLEAN BY DEF Cached
<1>2. /\ D \in Seq(Wire) /\ Len(D) = NumDigits
      /\ \A i \in 1 .. NumDigits : D[i] = Bytes(DigitAddr(i), <<p.digits[i]>>)
  BY DigitScript
<1>3. /\ S \in Seq(Wire) /\ Len(S) = 1 /\ S[1] = Bytes(SymbolAddr, <<p.symbols>>)
      /\ C \in Seq(Wire) /\ Len(C) = 1 /\ C[1] = [cmd |-> "control", on |-> p.enabled, level |-> p.brightness]
  BY <1>1, ShortScripts
<1>4. DigitAddr(1) = 0 BY DEF DigitAddr
<1>5. /\ A \in Seq(Wire) /\ Len(A) = 4 /\ A[1] = Bare("mode7x10") /\ A[2] = Bare("auto")
      /\ A[3] = Bytes(0, [a \in 1 .. SymbolAddr + 2 |-> 0]) /\ A[4] = Bare("fixed")
  <2>1. Bare("mode7x10") \in Wire /\ Bare("auto") \in Wire /\ Bare("fixed") \in Wire BY DEF Bare, Wire
  <2> DEFINE Z == [a \in 1 .. SymbolAddr + 2 |-> 0]
  <2>2. Z \in Seq(Nat) /\ Z # <<>>
    <3>1. SymbolAddr + 2 \in Nat /\ SymbolAddr + 2 # 0 BY PanelAddresses
    <3>2. Z \in [1 .. SymbolAddr + 2 -> Nat] OBVIOUS
    <3>3. Z \in Seq(Nat) /\ Len(Z) = SymbolAddr + 2 BY <3>1, <3>2
    <3> QED BY <3>1, <3>3
  <2> HIDE DEF Z
  <2>3. Bytes(0, Z) \in [cmd : {"addr"}, addr : Nat, bytes : Seq(Nat) \ {<<>>}] BY <2>2 DEF Bytes
  <2>4. Bytes(0, Z) \in Wire BY <2>3 DEF Wire
  <2>5. A = <<Bare("mode7x10"), Bare("auto"), Bytes(0, Z), Bare("fixed")>> BY <1>4 DEF Z
  <2> HIDE DEF A
  <2>6. A \in Seq(Wire) /\ Len(A) = 4 /\ A[1] = Bare("mode7x10") /\ A[2] = Bare("auto") /\ A[3] = Bytes(0, Z) /\ A[4] = Bare("fixed")
    BY <2>1, <2>4, <2>5
  <2> QED BY <2>6 DEF Z
<1>6. ht1628_restore(p) = ((A \o D) \o S) \o C BY DEF ht1628_restore
<1> HIDE DEF A, D, S, C
<1> DEFINE AD == A \o D
           ADS == AD \o S
<1>7. /\ AD \in Seq(Wire) /\ Len(AD) = NumDigits + 4 /\ \A i \in 1 .. 4 : AD[i] = A[i]
      /\ \A i \in 1 .. NumDigits : AD[4 + i] = D[i]
  <2>1. /\ AD \in Seq(Wire) /\ Len(AD) = Len(A) + Len(D) /\ \A i \in 1 .. Len(A) : AD[i] = A[i]
        /\ \A i \in 1 .. Len(D) : AD[Len(A) + i] = D[i]
    BY ONLY <1>2, <1>5, ConcatAt DEF AD
  <2> HIDE DEF AD
  <2>2. Len(A) = 4 /\ Len(D) = NumDigits /\ NumDigits \in Nat BY ONLY <1>2, <1>5, PanelAddresses
  <2>3. Len(AD) = NumDigits + 4 BY ONLY <2>1, <2>2
  <2> QED BY ONLY <2>1, <2>2, <2>3
<1> HIDE DEF AD
<1>8. /\ ADS \in Seq(Wire) /\ Len(ADS) = NumDigits + 5 /\ \A i \in 1 .. NumDigits + 4 : ADS[i] = AD[i]
      /\ ADS[NumDigits + 5] = S[1]
  <2>1. /\ ADS \in Seq(Wire) /\ Len(ADS) = Len(AD) + Len(S) /\ \A i \in 1 .. Len(AD) : ADS[i] = AD[i]
        /\ \A i \in 1 .. Len(S) : ADS[Len(AD) + i] = S[i]
    BY ONLY <1>3, <1>7, ConcatAt DEF ADS
  <2>2. 1 \in 1 .. Len(S) /\ Len(AD) + 1 = NumDigits + 5 BY <1>3, <1>7, PanelAddresses
  <2>3. Len(AD) + Len(S) = NumDigits + 5 BY <1>3, <1>7, PanelAddresses
  <2> HIDE DEF ADS
  <2>4. ADS[NumDigits + 5] = S[1] BY <2>1, <2>2
  <2> QED BY <1>7, <2>1, <2>3, <2>4
<1> HIDE DEF ADS
<1>9. ht1628_restore(p) = ADS \o C BY <1>6 DEF ADS, AD
<1> DEFINE R == ADS \o C
<1>10. /\ R \in Seq(Wire) /\ Len(R) = NumDigits + 6 /\ \A i \in 1 .. NumDigits + 5 : R[i] = ADS[i]
       /\ R[NumDigits + 6] = C[1]
  <2>1. /\ R \in Seq(Wire) /\ Len(R) = Len(ADS) + Len(C) /\ \A i \in 1 .. Len(ADS) : R[i] = ADS[i]
        /\ \A i \in 1 .. Len(C) : R[Len(ADS) + i] = C[i]
    BY ONLY <1>3, <1>8, ConcatAt DEF R
  <2>2. 1 \in 1 .. Len(C) /\ Len(ADS) + 1 = NumDigits + 6 BY <1>3, <1>8, PanelAddresses
  <2>3. Len(ADS) + Len(C) = NumDigits + 6 BY <1>3, <1>8, PanelAddresses
  <2> HIDE DEF R
  <2>4. R[NumDigits + 6] = C[1] BY <2>1, <2>2
  <2> QED BY <1>8, <2>1, <2>3, <2>4
<1> HIDE DEF R
<1>11. /\ \A i \in 1 .. 4 : R[i] = A[i]
       /\ \A i \in 1 .. NumDigits : R[4 + i] = D[i]
       /\ R[NumDigits + 5] = S[1]
  <2>1. NumDigits \in Nat BY PanelAddresses
  <2>2. \A i \in 1 .. NumDigits + 4 : R[i] = AD[i] BY <2>1, <1>8, <1>10
  <2>3. \A i \in 1 .. NumDigits : 4 + i \in 1 .. NumDigits + 4 BY <2>1
  <2>4. \A i \in 1 .. 4 : i \in 1 .. NumDigits + 4 BY <2>1
  <2>5. NumDigits + 5 \in 1 .. NumDigits + 5 BY <2>1
  <2> QED BY <1>7, <1>8, <1>10, <2>2, <2>3, <2>4, <2>5
<1>12. ht1628_restore(p) = R BY <1>9 DEF R
<1> QED BY <1>2, <1>3, <1>5, <1>10, <1>11, <1>12

\* How far a script has been sent.
LEMMA SentStart == ASSUME NEW S \in Seq(Wire), S # <<>> PROVE SentOf(S, 0, S)
BY DEF SentOf

LEMMA SentNext ==
    ASSUME NEW S \in Seq(Wire), NEW k \in Nat, NEW ts \in Seq(Wire), SentOf(S, k, ts)
    PROVE  /\ Head(ts) = S[k + 1] /\ k + 1 \in 1 .. Len(S) /\ (Len(ts) = 1 <=> k + 1 = Len(S))
           /\ k + 1 # Len(S) => SentOf(S, k + 1, Tail(ts))
<1>1. Len(S) \in Nat /\ Len(ts) \in Nat /\ Len(ts) >= 1 /\ Len(ts) = Len(S) - k BY DEF SentOf
<1>2. ts # <<>> BY <1>1
<1>3. Head(ts) = ts[1] BY <1>2
<1>4. Tail(ts) \in Seq(Wire) /\ Len(Tail(ts)) = Len(ts) - 1 /\ \A i \in 1 .. Len(ts) - 1 : Tail(ts)[i] = ts[i + 1]
  BY <1>1, <1>2
<1>5. ts[1] = S[k + 1] BY <1>1 DEF SentOf
<1>6. ASSUME k + 1 # Len(S) PROVE SentOf(S, k + 1, Tail(ts))
  <2>1. k + 1 \in 0 .. Len(S) - 1 BY <1>1, <1>6
  <2>2. ASSUME NEW i \in 1 .. Len(Tail(ts)) PROVE Tail(ts)[i] = S[k + 1 + i]
    <3>1. i + 1 \in 1 .. Len(ts) /\ Tail(ts)[i] = ts[i + 1] BY <1>1, <1>4
    <3>2. ts[i + 1] = S[k + (i + 1)] BY <3>1 DEF SentOf
    <3>3. k + (i + 1) = k + 1 + i BY <1>1, <1>4
    <3> QED BY <3>1, <3>2, <3>3
  <2> QED BY <1>1, <1>4, <2>1, <2>2 DEF SentOf
<1> QED BY <1>1, <1>3, <1>5, <1>6

\* What a transaction does to the controller.
LEMMA ObeyTypes == ASSUME NEW c \in ControllerStates, NEW t \in Wire PROVE Obeyed(c, t) \in ControllerStates
<1>1. CASE t \in [cmd : {"mode7x10", "auto", "fixed"}] BY <1>1 DEF Obeyed, ControllerStates
<1>2. CASE t \in [cmd : {"control"}, on : BOOLEAN, level : Nat]
  <2>1. t.cmd = "control" /\ t.on \in BOOLEAN /\ t.level \in Nat BY <1>2
  <2>2. Obeyed(c, t) = [c EXCEPT !.on = t.on, !.level = t.level] BY <2>1 DEF Obeyed
  <2> QED BY <2>1, <2>2 DEF ControllerStates
<1>3. CASE t \in [cmd : {"addr"}, addr : Nat, bytes : Seq(Nat) \ {<<>>}]
  <2>1. t.cmd = "addr" /\ t.addr \in Nat /\ t.bytes \in Seq(Nat) /\ t.bytes # <<>> BY <1>3
  <2> DEFINE ram == [a \in RamBytes |->
             IF c.auto THEN IF a - t.addr + 1 \in DOMAIN t.bytes THEN t.bytes[a - t.addr + 1] ELSE c.ram[a]
             ELSE IF a = t.addr THEN t.bytes[Len(t.bytes)] ELSE c.ram[a]]
  <2>2. Obeyed(c, t) = [c EXCEPT !.ram = ram] BY <2>1 DEF Obeyed
  <2>3. c.ram \in [RamBytes -> Nat] BY DEF ControllerStates
  <2>4. \A j \in DOMAIN t.bytes : t.bytes[j] \in Nat BY <2>1
  <2>5. Len(t.bytes) \in DOMAIN t.bytes BY <2>1
  <2>6. ASSUME NEW a \in RamBytes
        PROVE  (IF c.auto THEN IF a - t.addr + 1 \in DOMAIN t.bytes THEN t.bytes[a - t.addr + 1] ELSE c.ram[a]
                ELSE IF a = t.addr THEN t.bytes[Len(t.bytes)] ELSE c.ram[a]) \in Nat
    BY <2>3, <2>4, <2>5
  <2>7. ram \in [RamBytes -> Nat] BY <2>6
  <2> HIDE DEF ram
  <2> QED BY <2>2, <2>7 DEF ControllerStates
<1> QED BY <1>1, <1>2, <1>3 DEF Wire

LEMMA ObeyBare ==
    ASSUME NEW c \in ControllerStates
    PROVE  /\ Obeyed(c, Bare("mode7x10")) = [c EXCEPT !.mode = TRUE]
           /\ Obeyed(c, Bare("auto")) = [c EXCEPT !.auto = TRUE]
           /\ Obeyed(c, Bare("fixed")) = [c EXCEPT !.auto = FALSE]
BY DEF Obeyed, Bare

LEMMA ObeyByte ==
    ASSUME NEW c \in ControllerStates, ~c.auto, NEW b \in RamBytes, NEW v \in Nat
    PROVE  /\ Obeyed(c, Bytes(b, <<v>>)).mode = c.mode /\ Obeyed(c, Bytes(b, <<v>>)).auto = c.auto
           /\ Obeyed(c, Bytes(b, <<v>>)).on = c.on /\ Obeyed(c, Bytes(b, <<v>>)).level = c.level
           /\ Obeyed(c, Bytes(b, <<v>>)).ram = [a \in RamBytes |-> IF a = b THEN v ELSE c.ram[a]]
<1> DEFINE t == Bytes(b, <<v>>)
<1>1. t.cmd = "addr" /\ t.addr = b /\ t.bytes = <<v>> /\ <<v>>[Len(<<v>>)] = v BY DEF Bytes
<1> HIDE DEF t
<1>2. Obeyed(c, t) = [c EXCEPT !.ram = [a \in RamBytes |-> IF a = t.addr THEN t.bytes[Len(t.bytes)] ELSE c.ram[a]]]
  BY <1>1 DEF Obeyed
<1>3. Obeyed(c, t) = [c EXCEPT !.ram = [a \in RamBytes |-> IF a = b THEN v ELSE c.ram[a]]] BY <1>1, <1>2
<1>4. /\ Obeyed(c, t).mode = c.mode /\ Obeyed(c, t).auto = c.auto /\ Obeyed(c, t).on = c.on /\ Obeyed(c, t).level = c.level
      /\ Obeyed(c, t).ram = [a \in RamBytes |-> IF a = b THEN v ELSE c.ram[a]]
  BY <1>3 DEF ControllerStates
<1> QED BY <1>4 DEF t

LEMMA ObeyClear ==
    ASSUME NEW c \in ControllerStates, c.auto
    PROVE  /\ Obeyed(c, Bytes(0, [a \in 1 .. SymbolAddr + 2 |-> 0])).mode = c.mode
           /\ Obeyed(c, Bytes(0, [a \in 1 .. SymbolAddr + 2 |-> 0])).auto
           /\ \A a \in RamBytes : Obeyed(c, Bytes(0, [b \in 1 .. SymbolAddr + 2 |-> 0])).ram[a] = 0
<1> DEFINE Z == [a \in 1 .. SymbolAddr + 2 |-> 0]
           t == Bytes(0, Z)
<1>1. t.cmd = "addr" /\ t.addr = 0 /\ t.bytes = Z BY DEF Bytes
<1>2. DOMAIN Z = 1 .. SymbolAddr + 2 /\ \A j \in 1 .. SymbolAddr + 2 : Z[j] = 0 OBVIOUS
<1> HIDE DEF t, Z
<1>3. Obeyed(c, t) = [c EXCEPT !.ram = [a \in RamBytes |->
                        IF a - t.addr + 1 \in DOMAIN t.bytes THEN t.bytes[a - t.addr + 1] ELSE c.ram[a]]]
  BY <1>1 DEF Obeyed
<1>4. ASSUME NEW a \in RamBytes PROVE a - t.addr + 1 \in DOMAIN t.bytes /\ t.bytes[a - t.addr + 1] = 0
  <2>1. a - t.addr + 1 \in 1 .. SymbolAddr + 2 BY <1>1, PanelAddresses DEF RamBytes
  <2> QED BY <1>1, <1>2, <2>1
<1>5. /\ Obeyed(c, t).mode = c.mode /\ Obeyed(c, t).auto
      /\ \A a \in RamBytes : Obeyed(c, t).ram[a] = 0
  BY <1>3, <1>4 DEF ControllerStates
<1> QED BY <1>5 DEF t, Z

\* A step of ht1628_write_digits: all of the digits are there when the last one is.
LEMMA DigitSent ==
    ASSUME PanelInv, ht1628_transaction, NEW k \in Nat, ShowsDigits(k)
    PROVE  Showing'
<1> USE DEF ht1628_transaction
<1> DEFINE S == ht1628_write_digits(panel)
<1>1. panel \in Cached /\ todo \in Seq(Wire) /\ chip \in ControllerStates
      /\ \A i \in 1 .. NumDigits : panel.digits[i] = Seg7[panel.text[i]]
  BY DEF PanelInv, PanelTypes
<1>2. S \in Seq(Wire) /\ Len(S) = NumDigits /\ \A i \in 1 .. NumDigits : S[i] = Bytes(DigitAddr(i), <<panel.digits[i]>>)
  BY <1>1, DigitScript
<1>3. SentOf(S, k, todo) BY DEF ShowsDigits
<1> HIDE DEF S
<1>4. /\ Head(todo) = S[k + 1] /\ k + 1 \in 1 .. Len(S) /\ (Len(todo) = 1 <=> k + 1 = Len(S))
      /\ k + 1 # Len(S) => SentOf(S, k + 1, Tail(todo))
  BY <1>1, <1>2, <1>3, SentNext
<1>5. k + 1 \in 1 .. NumDigits /\ DigitAddr(k + 1) \in RamBytes /\ panel.digits[k + 1] \in Nat
      /\ panel.digits[k + 1] = RamOf(panel)[DigitAddr(k + 1)]
  <2>1. k + 1 \in 1 .. NumDigits /\ DigitAddr(k + 1) \in RamBytes BY <1>2, <1>4, PanelAddresses
  <2>2. panel.digits[k + 1] \in Nat BY <1>1, <2>1 DEF Cached
  <2>3. RamOf(panel)[DigitAddr(k + 1)] = Seg7[panel.text[k + 1]] BY <1>1, <2>1, RamOfAt
  <2> QED BY <1>1, <2>1, <2>2, <2>3
<1>6. chip' = Obeyed(chip, Bytes(DigitAddr(k + 1), <<panel.digits[k + 1]>>)) BY <1>2, <1>4, <1>5
<1>7. ~chip.auto /\ chip.mode /\ SwitchedAs BY DEF ShowsDigits
<1>8. /\ chip'.mode = chip.mode /\ chip'.auto = chip.auto /\ chip'.on = chip.on /\ chip'.level = chip.level
      /\ chip'.ram = [a \in RamBytes |-> IF a = DigitAddr(k + 1) THEN panel.digits[k + 1] ELSE chip.ram[a]]
  <2> HIDE DEF DigitAddr
  <2>1. ~chip.auto /\ DigitAddr(k + 1) \in RamBytes /\ panel.digits[k + 1] \in Nat /\ chip \in ControllerStates
    BY <1>1, <1>5, <1>7
  <2> QED BY ONLY <1>6, <2>1, ObeyByte, ZenonT(30)
<1>9. panel' = panel /\ SwitchedAs' BY <1>7, <1>8 DEF SwitchedAs
<1>10. ASSUME NEW a \in RamBytes
       PROVE  chip'.ram[a] = RamOf(panel)[a] \/ \E i \in 1 .. NumDigits : i > k + 1 /\ a = DigitAddr(i)
  <2>1. CASE a = DigitAddr(k + 1) BY <1>5, <1>8, <2>1
  <2>2. CASE a # DigitAddr(k + 1)
    <3>1. chip'.ram[a] = chip.ram[a] BY <1>8, <2>2
    <3>2. chip.ram[a] = RamOf(panel)[a] \/ \E i \in 1 .. NumDigits : i > k /\ a = DigitAddr(i) BY DEF ShowsDigits
    <3>3. \A i \in 1 .. NumDigits : i > k /\ a = DigitAddr(i) => i > k + 1 BY <1>5, <2>2
    <3> QED BY <3>1, <3>2, <3>3
  <2> QED BY <2>1, <2>2
<1>11. CASE k + 1 = NumDigits
  <2>1. holder' = "none" BY <1>2, <1>4, <1>11
  <2>2. \A a \in RamBytes : chip'.ram[a] = RamOf(panel)[a] BY <1>10, <1>11, PanelAddresses
  <2>3. chip'.ram = RamOf(panel)
    <3>1. RamOf(panel) \in [RamBytes -> Nat] BY <1>1, RamOfAt
    <3> QED BY <1>8, <2>2, <3>1
  <2>4. Shown' BY <1>7, <1>8, <1>9, <2>3 DEF Shown
  <2> QED BY <2>1, <2>4 DEF Showing
<1>12. CASE k + 1 # NumDigits
  <2>1. holder' # "none" /\ k + 1 \in Nat BY <1>2, <1>4, <1>12
  <2>2. SentOf(ht1628_write_digits(panel'), k + 1, todo') BY <1>2, <1>4, <1>9, <1>12 DEF S
  <2>3. ShowsDigits(k + 1)' BY <1>7, <1>8, <1>9, <1>10, <2>2 DEF ShowsDigits
  <2> QED BY <2>1, <2>3 DEF Showing
<1> QED BY <1>11, <1>12

\* A script of one transaction.
LEMMA ShortSent ==
    ASSUME PanelInv, ht1628_transaction, ShowsSymbols \/ ShowsControl
    PROVE  Showing'
<1> USE DEF ht1628_transaction
<1>1. panel \in Cached /\ todo \in Seq(Wire) /\ chip \in ControllerStates /\ panel.enabled \in BOOLEAN /\ panel.symbols \in Nat
  BY PanelAssumption DEF PanelInv, PanelTypes, Cached
<1>2. /\ ht1628_write_symbols(panel) \in Seq(Wire) /\ Len(ht1628_write_symbols(panel)) = 1
      /\ ht1628_write_symbols(panel)[1] = Bytes(SymbolAddr, <<panel.symbols>>)
      /\ Len(ht1628_write_control(panel, panel.enabled)) = 1
      /\ ht1628_write_control(panel, panel.enabled)[1] = [cmd |-> "control", on |-> panel.enabled, level |-> panel.brightness]
  BY <1>1, ShortScripts
<1>3. Len(todo) = 1 /\ Head(todo) = todo[1] BY <1>1, <1>2 DEF ShowsSymbols, ShowsControl
<1>4. holder' = "none" /\ panel' = panel BY <1>3
<1>5. RamOf(panel) \in [RamBytes -> Nat] /\ RamOf(panel)[SymbolAddr] = panel.symbols BY <1>1, RamOfAt
<1>6. CASE ShowsSymbols
  <2>1. ~chip.auto /\ chip.mode /\ SwitchedAs BY <1>6 DEF ShowsSymbols
  <2>2. chip' = Obeyed(chip, Bytes(SymbolAddr, <<panel.symbols>>)) BY <1>2, <1>3, <1>6 DEF ShowsSymbols
  <2>3. /\ chip'.mode = chip.mode /\ chip'.auto = chip.auto /\ chip'.on = chip.on /\ chip'.level = chip.level
        /\ chip'.ram = [a \in RamBytes |-> IF a = SymbolAddr THEN panel.symbols ELSE chip.ram[a]]
    <3>1. ~chip.auto /\ SymbolAddr \in RamBytes /\ panel.symbols \in Nat /\ chip \in ControllerStates
      BY <1>1, <2>1, PanelAddresses
    <3> QED BY ONLY <2>2, <3>1, ObeyByte, ZenonT(30)
  <2>4. \A a \in RamBytes : chip'.ram[a] = RamOf(panel)[a] BY <1>5, <1>6, <2>3 DEF ShowsSymbols
  <2>5. chip'.ram = RamOf(panel) BY <1>5, <2>3, <2>4
  <2>6. SwitchedAs' BY <1>4, <2>1, <2>3 DEF SwitchedAs
  <2> QED BY <1>4, <2>1, <2>3, <2>5, <2>6 DEF Shown, Showing
<1>7. CASE ShowsControl
  <2>1. ~chip.auto /\ chip.mode /\ chip.ram = RamOf(panel) BY <1>7 DEF ShowsControl
  <2>2. chip' = [chip EXCEPT !.on = panel.enabled, !.level = panel.brightness]
    <3>1. chip' = Obeyed(chip, [cmd |-> "control", on |-> panel.enabled, level |-> panel.brightness])
      BY <1>2, <1>3, <1>7 DEF ShowsControl
    <3> QED BY ONLY <3>1 DEF Obeyed
  <2>3. /\ chip'.mode = chip.mode /\ chip'.auto = chip.auto /\ chip'.ram = chip.ram
        /\ chip'.on = panel.enabled /\ chip'.level = panel.brightness
    BY <1>1, <2>2 DEF ControllerStates
  <2> QED BY <1>4, <2>1, <2>3 DEF Shown, SwitchedAs, Showing
<1> QED BY <1>6, <1>7

\* How Reached grows with the script of ht1628_restore.
LEMMA ReachedNext ==
    /\ \A a \in RamBytes, j \in {-1, 0} : ~Reached(a, j)
    /\ \A a \in RamBytes, i \in 1 .. NumDigits : Reached(a, i) <=> Reached(a, i - 1) \/ a = DigitAddr(i)
    /\ \A a \in RamBytes : Reached(a, NumDigits + 1) <=> Reached(a, NumDigits) \/ a = SymbolAddr
    /\ \A a \in RamBytes : ~Reached(a, NumDigits + 1) => a # SymbolAddr /\ \A i \in 1 .. NumDigits : a # DigitAddr(i)
<1>1. NumDigits \in Nat /\ NumDigits >= 1 BY PanelAddresses
<1> HIDE DEF DigitAddr, SymbolAddr, RamBytes
<1>2. ASSUME NEW a \in RamBytes, NEW j \in {-1, 0} PROVE ~Reached(a, j) BY <1>1 DEF Reached
<1>3. ASSUME NEW a \in RamBytes, NEW i \in 1 .. NumDigits
      PROVE  Reached(a, i) <=> Reached(a, i - 1) \/ a = DigitAddr(i)
  <2>1. ~(i > NumDigits) /\ ~(i - 1 > NumDigits) BY <1>1
  <2>2. \A h \in 1 .. NumDigits : h <= i <=> h <= i - 1 \/ h = i BY <1>1
  <2> QED BY <2>1, <2>2 DEF Reached
<1>4. ASSUME NEW a \in RamBytes PROVE Reached(a, NumDigits + 1) <=> Reached(a, NumDigits) \/ a = SymbolAddr
  <2>1. NumDigits + 1 > NumDigits /\ ~(NumDigits > NumDigits) BY <1>1
  <2>2. \A h \in 1 .. NumDigits : h <= NumDigits + 1 /\ h <= NumDigits BY <1>1
  <2> QED BY <2>1, <2>2 DEF Reached
<1>5. ASSUME NEW a \in RamBytes, ~Reached(a, NumDigits + 1)
      PROVE  a # SymbolAddr /\ \A i \in 1 .. NumDigits : a # DigitAddr(i)
  <2>1. NumDigits + 1 > NumDigits BY <1>1
  <2>2. \A h \in 1 .. NumDigits : h <= NumDigits + 1 BY <1>1
  <2> QED BY <1>5, <2>1, <2>2 DEF Reached
<1> QED BY <1>2, <1>3, <1>4, <1>5

\* A step of ht1628_restore: it needs nothing of what the controller held before.
LEMMA RestoreSent ==
    ASSUME PanelInv, ht1628_transaction, NEW k \in Nat, ShowsRestore(k)
    PROVE  Showing'
<1> USE DEF ht1628_transaction
<1> DEFINE S == ht1628_restore(panel)
           Right(j) == \A a \in RamBytes : chip.ram[a] = IF Reached(a, j) THEN RamOf(panel)[a] ELSE 0
<1>1. panel \in Cached /\ todo \in Seq(Wire) /\ chip \in ControllerStates /\ panel.enabled \in BOOLEAN
      /\ \A i \in 1 .. NumDigits : panel.digits[i] \in Nat /\ panel.digits[i] = Seg7[panel.text[i]]
  BY DEF PanelInv, PanelTypes, Cached
<1>2. panel.symbols \in Nat /\ NumDigits \in Nat /\ NumDigits >= 1
  <2>1. panel.symbols \in SymbolSets BY <1>1 DEF Cached
  <2> QED BY <2>1, PanelAssumption, PanelAddresses
<1>3. /\ S \in Seq(Wire) /\ Len(S) = NumDigits + 6
      /\ S[1] = Bare("mode7x10") /\ S[2] = Bare("auto")
      /\ S[3] = Bytes(0, [a \in 1 .. SymbolAddr + 2 |-> 0]) /\ S[4] = Bare("fixed")
      /\ \A i \in 1 .. NumDigits : S[4 + i] = Bytes(DigitAddr(i), <<panel.digits[i]>>)
      /\ S[NumDigits + 5] = Bytes(SymbolAddr, <<panel.symbols>>)
      /\ S[NumDigits + 6] = [cmd |-> "control", on |-> panel.enabled, level |-> panel.brightness]
  BY <1>1, RestoreScript
<1>4. /\ SentOf(S, k, todo) /\ (k >= 1 => chip.mode) /\ (k \in {2, 3} => chip.auto) /\ (k >= 4 => ~chip.auto)
      /\ k >= 3 => Right(k - 4)
  BY DEF ShowsRestore
<1>5. /\ RamOf(panel) \in [RamBytes -> Nat] /\ RamOf(panel)[SymbolAddr] = panel.symbols
      /\ \A i \in 1 .. NumDigits : RamOf(panel)[DigitAddr(i)] = panel.digits[i]
      /\ \A a \in RamBytes : a # SymbolAddr /\ (\A i \in 1 .. NumDigits : a # DigitAddr(i)) => RamOf(panel)[a] = 0
  BY <1>1, RamOfAt
<1>6. /\ SymbolAddr \in RamBytes /\ \A i \in 1 .. NumDigits : DigitAddr(i) \in RamBytes BY PanelAddresses
<1>7. panel' = panel /\ RamOf(panel') = RamOf(panel) /\ S' = S OBVIOUS
<1> HIDE DEF S
<1>8. /\ Head(todo) = S[k + 1] /\ k + 1 \in 1 .. Len(S) /\ (Len(todo) = 1 <=> k + 1 = Len(S))
      /\ k + 1 # Len(S) => SentOf(S, k + 1, Tail(todo))
  BY <1>1, <1>3, <1>4, SentNext
<1>9. chip' = Obeyed(chip, S[k + 1]) /\ k + 1 \in Nat BY <1>8
<1>10. CASE k + 1 = NumDigits + 6
  <2>1. holder' = "none" /\ chip' = [chip EXCEPT !.on = panel.enabled, !.level = panel.brightness]
    <3>1. chip' = Obeyed(chip, [cmd |-> "control", on |-> panel.enabled, level |-> panel.brightness])
      BY <1>3, <1>9, <1>10
    <3>2. chip' = [chip EXCEPT !.on = panel.enabled, !.level = panel.brightness]
      BY ONLY <3>1 DEF Obeyed
    <3> QED BY <1>3, <1>8, <1>10, <3>2
  <2>2. /\ chip'.on = panel.enabled /\ chip'.level = panel.brightness
        /\ chip'.mode = chip.mode /\ chip'.auto = chip.auto /\ chip'.ram = chip.ram
    BY <1>1, <2>1 DEF ControllerStates
  <2>3. chip.mode /\ ~chip.auto /\ Right(NumDigits + 1)
    <3>1. k = NumDigits + 5 /\ k - 4 = NumDigits + 1 /\ k >= 1 /\ k >= 3 /\ k >= 4 BY <1>2, <1>10
    <3> QED BY <1>4, <3>1
  <2>4. ASSUME NEW a \in RamBytes PROVE chip.ram[a] = RamOf(panel)[a]
    <3>1. CASE Reached(a, NumDigits + 1) BY <2>3, <3>1
    <3>2. CASE ~Reached(a, NumDigits + 1) BY <1>5, <2>3, <3>2, ReachedNext
    <3> QED BY <3>1, <3>2
  <2>5. chip.ram = RamOf(panel) BY <1>1, <1>5, <2>4 DEF ControllerStates
  <2> QED BY <1>7, <2>1, <2>2, <2>3, <2>5 DEF Showing, Shown, SwitchedAs
<1>11. CASE k + 1 # NumDigits + 6
  <2>1. holder' # "none" /\ SentOf(S', k + 1, todo') BY <1>3, <1>7, <1>8, <1>11
  <2>2. /\ chip'.mode /\ (k + 1 \in {2, 3} => chip'.auto) /\ (k + 1 >= 4 => ~chip'.auto)
        /\ k + 1 >= 3 => \A a \in RamBytes : chip'.ram[a] = IF Reached(a, k + 1 - 4) THEN RamOf(panel)[a] ELSE 0
    <3>1. CASE k = 0 BY <1>1, <1>3, <1>9, <3>1, ObeyBare DEF ControllerStates
    <3>2. CASE k = 1
      <4>1. chip' = [chip EXCEPT !.auto = TRUE] BY <1>1, <1>3, <1>9, <3>2, ObeyBare
      <4> QED BY <1>1, <1>4, <3>2, <4>1 DEF ControllerStates
    <3>3. CASE k = 2
      <4>1. chip.auto /\ chip.mode /\ chip' = Obeyed(chip, Bytes(0, [a \in 1 .. SymbolAddr + 2 |-> 0]))
        BY <1>3, <1>4, <1>9, <3>3
      <4>2. chip'.mode /\ chip'.auto /\ \A a \in RamBytes : chip'.ram[a] = 0 BY <1>1, <4>1, ObeyClear
      <4>3. k + 1 - 4 = -1 /\ k + 1 = 3 BY <3>3
      <4>4. \A a \in RamBytes : ~Reached(a, k + 1 - 4) BY <4>3, ReachedNext
      <4> QED BY <4>2, <4>3, <4>4
    <3>4. CASE k = 3
      <4>1. chip' = [chip EXCEPT !.auto = FALSE] BY <1>1, <1>3, <1>9, <3>4, ObeyBare
      <4>2. ~chip'.auto /\ chip'.mode = chip.mode /\ chip'.ram = chip.ram BY <1>1, <4>1 DEF ControllerStates
      <4>3. k + 1 - 4 = 0 /\ k - 4 = -1 /\ k >= 3 /\ k >= 1 BY <3>4
      <4>4. \A a \in RamBytes : ~Reached(a, k + 1 - 4) /\ ~Reached(a, k - 4) BY <4>3, ReachedNext
      <4> QED BY <1>4, <3>4, <4>2, <4>3, <4>4
    <3>5. CASE k \in 4 .. NumDigits + 3
      <4> DEFINE i == k - 3
      <4>1. i \in 1 .. NumDigits /\ i - 1 = k - 4 /\ k + 1 - 4 = i /\ k + 1 = 4 + i BY <1>2, <3>5
      <4> HIDE DEF i
      <4>2. chip.mode /\ ~chip.auto /\ Right(i - 1) BY <1>4, <3>5, <4>1
      <4>3. chip' = Obeyed(chip, Bytes(DigitAddr(i), <<panel.digits[i]>>)) BY <1>3, <1>9, <4>1
      <4>4. DigitAddr(i) \in RamBytes /\ panel.digits[i] \in Nat BY <1>1, <1>6, <4>1
      <4>5. /\ chip'.mode = chip.mode /\ chip'.auto = chip.auto
            /\ chip'.ram = [a \in RamBytes |-> IF a = DigitAddr(i) THEN panel.digits[i] ELSE chip.ram[a]]
        BY ONLY <1>1, <4>2, <4>3, <4>4, ObeyByte, ZenonT(30)
      <4>6. ASSUME NEW a \in RamBytes PROVE chip'.ram[a] = IF Reached(a, i) THEN RamOf(panel)[a] ELSE 0
        <5>1. Reached(a, i) <=> Reached(a, i - 1) \/ a = DigitAddr(i) BY <4>1, ReachedNext
        <5> HIDE DEF DigitAddr
        <5>2. CASE a = DigitAddr(i) BY <1>5, <4>1, <4>5, <5>1, <5>2
        <5>3. CASE a # DigitAddr(i) BY <4>2, <4>5, <5>1, <5>3
        <5> QED BY <5>2, <5>3
      <4>7. ~(k + 1 \in {2, 3}) BY <3>5
      <4> QED BY <4>1, <4>2, <4>5, <4>6, <4>7
    <3>6. CASE k = NumDigits + 4
      <4>1. k - 4 = NumDigits /\ k + 1 - 4 = NumDigits + 1 /\ k + 1 = NumDigits + 5 /\ k >= 4 /\ k >= 3 /\ k >= 1
        BY <1>2, <3>6
      <4>2. chip.mode /\ ~chip.auto /\ Right(NumDigits) BY <1>4, <4>1
      <4>3. chip' = Obeyed(chip, Bytes(SymbolAddr, <<panel.symbols>>)) BY <1>3, <1>9, <4>1
      <4>4. /\ chip'.mode = chip.mode /\ chip'.auto = chip.auto
            /\ chip'.ram = [a \in RamBytes |-> IF a = SymbolAddr THEN panel.symbols ELSE chip.ram[a]]
        BY ONLY <1>1, <1>2, <1>6, <4>2, <4>3, ObeyByte, ZenonT(30)
      <4>5. ASSUME NEW a \in RamBytes PROVE chip'.ram[a] = IF Reached(a, NumDigits + 1) THEN RamOf(panel)[a] ELSE 0
        <5>1. Reached(a, NumDigits + 1) <=> Reached(a, NumDigits) \/ a = SymbolAddr BY ReachedNext
        <5> HIDE DEF SymbolAddr
        <5>2. CASE a = SymbolAddr BY <1>5, <4>4, <5>1, <5>2
        <5>3. CASE a # SymbolAddr BY <4>2, <4>4, <5>1, <5>3
        <5> QED BY <5>2, <5>3
      <4>6. ~(k + 1 \in {2, 3}) BY <1>2, <3>6
      <4> QED BY <4>1, <4>2, <4>4, <4>5, <4>6
    <3>7. k \in 0 .. NumDigits + 4 BY <1>2, <1>3, <1>8, <1>11
    <3>8. k \in {0, 1, 2, 3} \/ k \in 4 .. NumDigits + 3 \/ k = NumDigits + 4 BY <1>2, <3>7
    <3> QED BY <3>1, <3>2, <3>3, <3>4, <3>5, <3>6, <3>8
  <2>3. ShowsRestore(k + 1)'
    <3>1. SentOf(ht1628_restore(panel'), k + 1, todo') BY <2>1 DEF S
    <3> QED BY <1>7, <2>2, <3>1 DEF ShowsRestore
  <2> QED BY <1>9, <2>1, <2>3 DEF Showing
<1> QED BY <1>10, <1>11

\* A transaction keeps the invariant, whoever sends it.
LEMMA PanelTransaction == ASSUME PanelInv, ht1628_transaction PROVE PanelInv'
<1> USE DEF ht1628_transaction, ServiceVars, LifeVars
<1>1. PanelTypeOK /\ todo \in Seq(Wire) /\ todo # <<>> /\ chip \in ControllerStates /\ panel \in Cached
  BY DEF PanelInv, PanelTypes, PanelTypeOK
<1>2. Head(todo) \in Wire /\ Tail(todo) \in Seq(Wire) /\ (Tail(todo) = <<>> <=> Len(todo) = 1)
      /\ Head(todo) = todo[1]
  <2>1. Len(todo) \in Nat /\ Len(todo) >= 1 /\ Head(todo) = todo[1] /\ todo[1] \in Wire BY <1>1
  <2>2. Tail(todo) \in Seq(Wire) /\ Len(Tail(todo)) = Len(todo) - 1 BY <1>1
  <2>3. Tail(todo) = <<>> <=> Len(Tail(todo)) = 0 BY ONLY <2>2, EmptyWire
  <2> QED BY <2>1, <2>2, <2>3
<1>3. chip' \in ControllerStates BY <1>1, <1>2, ObeyTypes
<1>4. holder' \in {"none", "operator", "core", "service"} /\ (holder' = "none" <=> todo' = <<>>)
  BY <1>1, <1>2 DEF PanelTypeOK
<1>5. PanelTypes' BY <1>1, <1>2, <1>3, <1>4 DEF PanelInv, PanelTypes, PanelTypeOK
<1>6. LifeInv' /\ TruthInv' BY DEF PanelInv, LifeInv, TruthInv, RamOf
<1>7. Showing => Showing'
  <2> SUFFICES ASSUME Showing PROVE Showing' OBVIOUS
  <2>1. \/ \E k \in Nat : ShowsDigits(k) \/ ShowsRestore(k)
        \/ ShowsSymbols \/ ShowsControl
    BY DEF Showing
  <2>2. CASE \E k \in Nat : ShowsDigits(k) \/ ShowsRestore(k)
    <3>1. PICK k \in Nat : ShowsDigits(k) \/ ShowsRestore(k) BY <2>2
    <3> QED BY <3>1, DigitSent, RestoreSent
  <2>3. CASE ShowsSymbols \/ ShowsControl BY <2>3, ShortSent
  <2> QED BY <2>1, <2>2, <2>3
<1>8. Darkening => Darkening'
  <2> SUFFICES ASSUME Darkening PROVE Darkening' OBVIOUS
  <2>1. todo = ht1628_write_control(panel, FALSE) BY DEF Darkening
  <2>2. Len(todo) = 1 /\ todo[1] = [cmd |-> "control", on |-> FALSE, level |-> panel.brightness]
    BY <1>1, <2>1, ShortScripts
  <2>3. chip' = Obeyed(chip, [cmd |-> "control", on |-> FALSE, level |-> panel.brightness]) BY <1>2, <2>2
  <2>4. chip' = [chip EXCEPT !.on = FALSE, !.level = panel.brightness] BY ONLY <2>3 DEF Obeyed
  <2>5. chip'.on = FALSE BY <1>1, <2>4 DEF ControllerStates
  <2>6. holder' = "none" BY <2>2
  <2> QED BY <2>5, <2>6 DEF Darkening
<1> QED BY <1>5, <1>6, <1>7, <1>8 DEF PanelInv

\* What a store leaves, if what it sends keeps the display true to the files.
LEMMA StoreKeeps ==
    ASSUME PanelInv, NEW who \in {"operator", "service"}, NEW p \in Cached, NEW ts \in Seq(Wire), ts # <<>>,
           \A i \in 1 .. NumDigits : p.digits[i] = Seg7[p.text[i]],
           Store(who, p, ts), UNCHANGED LifeVars,
           dpc' \in {"start", "enable", "update", "symbols", "failed", "stopped"},
           Shown => Showing', TruthInv'
    PROVE  PanelInv'
<1> USE DEF Store, Locked, LifeVars
<1>1. PanelTypes' BY DEF PanelInv, PanelTypes, PanelTypeOK, Cached
<1>2. attrs /\ drv \notin {"new", "probing", "gone", "suspended"} BY DEF PanelInv, LifeInv
<1>3. LifeInv' BY <1>2 DEF LifeInv
<1>4. drv' \in {"probing", "bound"} => Showing' BY <1>2 DEF PanelInv, Showing
<1>5. ~(drv' \in {"removing", "gone", "suspended", "off"} /\ ~late') BY <1>2
<1> QED BY <1>1, <1>3, <1>4, <1>5 DEF PanelInv

\* Each of the four files: what is stored is sent, and nothing else of the display changes.
LEMMA TextStore ==
    ASSUME PanelInv, NEW who \in {"operator", "service"}, NEW n \in 0 .. NumDigits, NEW s \in [1 .. n -> Glyphs],
           text_store(who, s), UNCHANGED LifeVars, TruthInv',
           dpc' \in {"start", "enable", "update", "symbols", "failed", "stopped"}
    PROVE  PanelInv'
<1> DEFINE p == [panel EXCEPT !.text = Padded(s), !.digits = [i \in 1 .. NumDigits |-> Seg7[Padded(s)[i]]]]
<1>1. panel \in Cached BY DEF PanelInv, PanelTypes
<1>2. Padded(s) \in [1 .. NumDigits -> Glyphs]
  <2>1. n \in Nat /\ Len(s) = n /\ Blank \in Glyphs BY PanelAddresses, PanelAssumption
  <2>2. \A i \in 1 .. NumDigits : (IF i <= Len(s) THEN s[i] ELSE Blank) \in Glyphs BY <2>1, PanelAddresses
  <2> HIDE DEF Blank
  <2> QED BY <2>2 DEF Padded
<1>3. \A i \in 1 .. NumDigits : Seg7[Padded(s)[i]] \in Nat BY <1>2, PanelAssumption
<1> DEFINE d == [i \in 1 .. NumDigits |-> Seg7[Padded(s)[i]]]
           q == Padded(s)
<1>4. d \in [1 .. NumDigits -> Nat] /\ (\A i \in 1 .. NumDigits : d[i] = Seg7[q[i]]) /\ q \in [1 .. NumDigits -> Glyphs]
  BY <1>2, <1>3
<1>5. p = [panel EXCEPT !.text = q, !.digits = d] OBVIOUS
<1>6. Store(who, p, ht1628_write_digits(p)) BY DEF text_store
<1> HIDE DEF p, d, q
<1>7. /\ p \in Cached /\ p.text = q /\ p.digits = d /\ p.symbols = panel.symbols
      /\ p.enabled = panel.enabled /\ p.brightness = panel.brightness
  BY <1>1, <1>4, <1>5 DEF Cached
<1>8. ht1628_write_digits(p) \in Seq(Wire) /\ Len(ht1628_write_digits(p)) = NumDigits BY <1>7, DigitScript
<1>9. ht1628_write_digits(p) # <<>> BY <1>8, PanelAddresses
<1>10. ASSUME Shown PROVE Showing'
  <2>1. holder' # "none" /\ panel' = p /\ todo' = ht1628_write_digits(p) /\ chip' = chip
    BY <1>6 DEF Store, Locked
  <2>2. SentOf(ht1628_write_digits(p), 0, ht1628_write_digits(p)) BY <1>8, <1>9, SentStart
  <2>3. SwitchedAs' BY <1>7, <1>10, <2>1 DEF Shown, SwitchedAs
  <2>4. ASSUME NEW a \in RamBytes
        PROVE  chip.ram[a] = RamOf(p)[a] \/ \E i \in 1 .. NumDigits : i > 0 /\ a = DigitAddr(i)
    <3>1. CASE \E i \in 1 .. NumDigits : a = DigitAddr(i) BY <3>1
    <3>2. CASE ~\E i \in 1 .. NumDigits : a = DigitAddr(i)
      <4>1. RamOf(p)[a] = RamOf(panel)[a] BY <1>1, <1>7, <3>2, RamOfAt
      <4> QED BY <1>10, <4>1 DEF Shown
    <3> QED BY <3>1, <3>2
  <2>5. ShowsDigits(0)' BY <1>10, <2>1, <2>2, <2>3, <2>4 DEF ShowsDigits, Shown
  <2> QED BY <2>1, <2>5 DEF Showing
<1> QED BY <1>4, <1>6, <1>7, <1>8, <1>9, <1>10, StoreKeeps

LEMMA SymbolsStore ==
    ASSUME PanelInv, NEW who \in {"operator", "service"}, NEW v \in SymbolSets,
           symbols_store(who, v), UNCHANGED LifeVars, TruthInv',
           dpc' \in {"start", "enable", "update", "symbols", "failed", "stopped"}
    PROVE  PanelInv'
<1> DEFINE p == [panel EXCEPT !.symbols = v]
<1>1. panel \in Cached /\ \A i \in 1 .. NumDigits : panel.digits[i] = Seg7[panel.text[i]] BY DEF PanelInv, PanelTypes
<1>2. /\ p \in Cached /\ p.text = panel.text /\ p.digits = panel.digits /\ p.symbols = v
      /\ p.enabled = panel.enabled /\ p.brightness = panel.brightness
  BY <1>1 DEF Cached
<1>3. Store(who, p, ht1628_write_symbols(p)) BY DEF symbols_store
<1> HIDE DEF p
<1>4. ht1628_write_symbols(p) \in Seq(Wire) /\ Len(ht1628_write_symbols(p)) = 1 BY <1>2, ShortScripts
<1>5. ASSUME Shown PROVE Showing'
  <2>1. holder' # "none" /\ panel' = p /\ todo' = ht1628_write_symbols(p) /\ chip' = chip
    BY <1>3 DEF Store, Locked
  <2>2. SwitchedAs' BY <1>2, <1>5, <2>1 DEF Shown, SwitchedAs
  <2>3. ASSUME NEW a \in RamBytes PROVE chip.ram[a] = RamOf(p)[a] \/ a = SymbolAddr
    <3>1. CASE \E i \in 1 .. NumDigits : a = DigitAddr(i)
      <4>1. RamOf(p)[a] = RamOf(panel)[a] BY <1>1, <1>2, <3>1, RamOfAt
      <4> QED BY <1>5, <4>1 DEF Shown
    <3>2. CASE ~\E i \in 1 .. NumDigits : a = DigitAddr(i)
      <4>1. a # SymbolAddr => RamOf(p)[a] = RamOf(panel)[a] BY <1>1, <1>2, <3>2, RamOfAt
      <4> QED BY <1>5, <4>1 DEF Shown
    <3> QED BY <3>1, <3>2
  <2>4. ShowsSymbols' BY <1>5, <2>1, <2>2, <2>3 DEF ShowsSymbols, Shown
  <2> QED BY <2>1, <2>4 DEF Showing
<1>6. ht1628_write_symbols(p) # <<>>
  <2>1. Len(ht1628_write_symbols(p)) # 0 BY ONLY <1>4
  <2> QED BY ONLY <1>4, <2>1, EmptyWire, ZenonT(30)
<1> QED BY <1>1, <1>2, <1>3, <1>4, <1>5, <1>6, StoreKeeps

LEMMA ControlStore ==
    ASSUME PanelInv, NEW who \in {"operator", "service"}, NEW p \in Cached,
           p.text = panel.text, p.digits = panel.digits, p.symbols = panel.symbols,
           Store(who, p, ht1628_write_control(p, p.enabled)), UNCHANGED LifeVars, TruthInv',
           dpc' \in {"start", "enable", "update", "symbols", "failed", "stopped"}
    PROVE  PanelInv'
<1>1. \A i \in 1 .. NumDigits : p.digits[i] = Seg7[p.text[i]] BY DEF PanelInv, PanelTypes
<1>2. p.enabled \in BOOLEAN BY DEF Cached
<1>3. ht1628_write_control(p, p.enabled) \in Seq(Wire) /\ Len(ht1628_write_control(p, p.enabled)) = 1
  BY <1>2, ShortScripts
<1>4. ht1628_write_control(p, p.enabled) # <<>>
  <2>1. Len(ht1628_write_control(p, p.enabled)) # 0 BY ONLY <1>3
  <2> QED BY ONLY <1>3, <2>1, EmptyWire, ZenonT(30)
<1>5. ASSUME Shown PROVE Showing'
  <2>1. holder' # "none" /\ panel' = p /\ todo' = ht1628_write_control(p, p.enabled) /\ chip' = chip
    BY DEF Store, Locked
  <2>2. RamOf(p) = RamOf(panel) BY DEF RamOf
  <2>3. ShowsControl' BY <1>5, <2>1, <2>2 DEF ShowsControl, Shown
  <2> QED BY <2>1, <2>3 DEF Showing
<1> QED BY <1>1, <1>3, <1>4, <1>5, StoreKeeps

LEMMA BrightnessStore ==
    ASSUME PanelInv, NEW who \in {"operator", "service"}, NEW v \in Levels,
           brightness_store(who, v), UNCHANGED LifeVars, TruthInv',
           dpc' \in {"start", "enable", "update", "symbols", "failed", "stopped"}
    PROVE  PanelInv'
<1> DEFINE p == [panel EXCEPT !.brightness = v]
<1>1. panel \in Cached BY DEF PanelInv, PanelTypes
<1>2. p \in Cached /\ p.text = panel.text /\ p.digits = panel.digits /\ p.symbols = panel.symbols BY <1>1 DEF Cached
<1>3. Store(who, p, ht1628_write_control(p, p.enabled)) BY DEF brightness_store
<1> HIDE DEF p
<1> QED BY <1>2, <1>3, ControlStore

LEMMA EnabledStore ==
    ASSUME PanelInv, NEW who \in {"operator", "service"}, NEW v \in BOOLEAN,
           enabled_store(who, v), UNCHANGED LifeVars, TruthInv',
           dpc' \in {"start", "enable", "update", "symbols", "failed", "stopped"}
    PROVE  PanelInv'
<1> DEFINE p == [panel EXCEPT !.enabled = v]
<1>1. panel \in Cached BY DEF PanelInv, PanelTypes
<1>2. /\ p \in Cached /\ p.text = panel.text /\ p.digits = panel.digits /\ p.symbols = panel.symbols
      /\ p.enabled = v
  BY <1>1 DEF Cached
<1>3. Store(who, p, ht1628_write_control(p, p.enabled)) BY <1>2 DEF enabled_store
<1> HIDE DEF p
<1> QED BY <1>2, <1>3, ControlStore

LEMMA OperatorStep == ASSUME PanelInv, OperatorStores PROVE PanelInv'
<1> USE DEF OperatorStores, ServiceVars
<1>1. dpc' = dpc /\ last' = last /\ UNCHANGED LifeVars /\ dpc \in {"start", "enable", "update", "symbols", "failed", "stopped"}
  BY DEF PanelInv, PanelTypes, PanelTypeOK
<1>2. CASE \E n \in 0 .. NumDigits : \E s \in [1 .. n -> Glyphs] : text_store("operator", s) /\ foreign' = TRUE
  <2>1. TruthInv' BY <1>1, <1>2 DEF PanelInv, TruthInv
  <2>2. PICK n \in 0 .. NumDigits : \E s \in [1 .. n -> Glyphs] : text_store("operator", s) BY <1>2
  <2>3. PICK s \in [1 .. n -> Glyphs] : text_store("operator", s) BY <2>2
  <2> QED BY <1>1, <2>1, <2>3, TextStore
<1>3. CASE \E v \in SymbolSets : symbols_store("operator", v) /\ foreign' = TRUE
  <2>1. TruthInv' BY <1>1, <1>3 DEF PanelInv, TruthInv
  <2>2. PICK v \in SymbolSets : symbols_store("operator", v) BY <1>3
  <2> QED BY <1>1, <2>1, <2>2, SymbolsStore
<1>4. CASE \E v \in Levels : brightness_store("operator", v) /\ UNCHANGED foreign
  <2>1. PICK v \in Levels : brightness_store("operator", v) BY <1>4
  <2>2. panel' = [panel EXCEPT !.brightness = v] /\ panel \in Cached
    BY <2>1 DEF brightness_store, Store, Locked, PanelInv, PanelTypes
  <2>3. panel'.text = panel.text /\ panel'.symbols = panel.symbols /\ panel'.enabled = panel.enabled BY <2>2 DEF Cached
  <2>4. RamOf(panel') = RamOf(panel) BY <2>3 DEF RamOf
  <2>5. TruthInv' BY <1>1, <1>4, <2>3, <2>4 DEF PanelInv, TruthInv, LifeVars
  <2> QED BY <1>1, <2>1, <2>5, BrightnessStore
<1>5. CASE \E v \in BOOLEAN : enabled_store("operator", v) /\ foreign' = TRUE
  <2>1. TruthInv' BY <1>1, <1>5 DEF PanelInv, TruthInv
  <2>2. PICK v \in BOOLEAN : enabled_store("operator", v) BY <1>5
  <2> QED BY <1>1, <2>1, <2>2, EnabledStore
<1> QED BY <1>2, <1>3, <1>4, <1>5

\* The service.  A step that stores nothing leaves the display alone.
LEMMA NoStore ==
    ASSUME PanelInv, UNCHANGED <<holder, todo, panel, chip, late>>, UNCHANGED LifeVars, TruthInv',
           dpc' \in {"start", "enable", "update", "symbols", "failed", "stopped"}
    PROVE  PanelInv'
<1> USE DEF LifeVars
<1>1. PanelTypes' BY DEF PanelInv, PanelTypes, PanelTypeOK
<1>2. LifeInv' BY DEF PanelInv, LifeInv
<1>3. Showing' = Showing
  BY DEF Showing, Shown, SwitchedAs, ShowsDigits, ShowsRestore, ShowsSymbols, ShowsControl
<1>4. Darkening' = Darkening BY DEF Darkening
<1> QED BY <1>1, <1>2, <1>3, <1>4 DEF PanelInv

LEMMA ServiceStep ==
    ASSUME PanelInv, ServiceStarts \/ ServiceEnables \/ UpdateText \/ UpdateSymbols \/ ServiceStops \/ StopPost
    PROVE  PanelInv'
<1>1. TruthInv /\ panel \in Cached BY DEF PanelInv, PanelTypes
<1>2. ASSUME ServiceFails, UNCHANGED LifeVars, foreign' = foreign PROVE PanelInv'
  <2>1. TruthInv' BY <1>1, <1>2 DEF TruthInv, ServiceFails
  <2> QED BY <1>2, <2>1, NoStore DEF ServiceFails
<1>3. CASE ServiceStarts
  <2> USE <1>3 DEF ServiceStarts
  <2>1. CASE brightness_store("service", 7) /\ dpc' = "enable" /\ UNCHANGED last
    <3>1. TruthInv' BY <1>1, <2>1 DEF TruthInv
    <3> QED BY <2>1, <3>1, BrightnessStore, PanelAssumption
  <2> QED BY <1>2, <2>1
<1>4. CASE ServiceEnables
  <2> USE <1>4 DEF ServiceEnables
  <2>1. CASE enabled_store("service", TRUE) /\ dpc' = "update" /\ UNCHANGED last
    <3>1. TruthInv' BY <1>1, <2>1 DEF TruthInv
    <3> QED BY <2>1, <3>1, EnabledStore
  <2> QED BY <1>2, <2>1
<1>5. CASE UpdateText
  <2> USE <1>5 DEF UpdateText
  <2>1. CASE ServiceFails BY <1>2, <2>1
  <2>2. ASSUME NEW t \in ClockTexts, attrs, t = last.text, dpc' = "symbols", UNCHANGED <<last, holder, todo, panel, chip, late>>
        PROVE  PanelInv'
    <3>1. TruthInv' BY <1>1, <2>2 DEF TruthInv
    <3> QED BY <2>2, <3>1, NoStore
  <2>3. ASSUME NEW t \in ClockTexts, text_store("service", t), dpc' = "symbols", last' = [last EXCEPT !.text = t]
        PROVE  PanelInv'
    <3>1. t \in [1 .. NumDigits -> Glyphs] /\ NumDigits \in 0 .. NumDigits BY PanelAssumption
    <3>2. Padded(t) = t
      <4>1. Len(t) = NumDigits /\ NumDigits \in Nat BY <3>1, PanelAddresses
      <4>2. \A i \in 1 .. NumDigits : (IF i <= Len(t) THEN t[i] ELSE Blank) = t[i] BY <4>1
      <4>3. t = [i \in 1 .. NumDigits |-> t[i]] BY <3>1
      <4> HIDE DEF Blank
      <4> QED BY ONLY <4>2, <4>3 DEF Padded
    <3>3. panel' = [panel EXCEPT !.text = Padded(t), !.digits = [i \in 1 .. NumDigits |-> Seg7[Padded(t)[i]]]]
      BY <2>3 DEF text_store, Store, Locked
    <3> DEFINE d == [i \in 1 .. NumDigits |-> Seg7[Padded(t)[i]]]
    <3>4. panel' = [panel EXCEPT !.text = t, !.digits = d] BY <3>2, <3>3
    <3> HIDE DEF d
    <3>5. panel'.text = t /\ panel'.symbols = panel.symbols BY <1>1, <3>4 DEF Cached
    <3>6. TruthInv' BY <1>1, <2>3, <3>5 DEF TruthInv
    <3> QED BY <2>3, <3>1, <3>6, TextStore
  <2> QED BY <2>1, <2>2, <2>3
<1>6. CASE UpdateSymbols
  <2> USE <1>6 DEF UpdateSymbols
  <2>1. ASSUME NEW v \in SymbolSets, <<v>> = last.symbols, dpc' = "update", UNCHANGED <<last, holder, todo, panel, chip, late>>
        PROVE  PanelInv'
    <3>1. TruthInv' BY <1>1, <2>1 DEF TruthInv
    <3> QED BY <2>1, <3>1, NoStore
  <2>2. ASSUME NEW v \in SymbolSets, symbols_store("service", v), dpc' = "update", last' = [last EXCEPT !.symbols = <<v>>]
        PROVE  PanelInv'
    <3>1. panel' = [panel EXCEPT !.symbols = v] BY <2>2 DEF symbols_store, Store, Locked
    <3>2. panel'.text = panel.text /\ panel'.symbols = v BY <1>1, <3>1 DEF Cached
    <3>3. TruthInv' BY <1>1, <2>2, <3>2 DEF TruthInv
    <3> QED BY <2>2, <3>3, SymbolsStore
  <2> QED BY <1>2, <2>1, <2>2
<1>7. CASE ServiceStops
  <2>1. TruthInv' BY <1>1, <1>7 DEF TruthInv, ServiceStops
  <2> QED BY <1>7, <2>1, NoStore DEF ServiceStops
<1>8. CASE StopPost
  <2> USE <1>8 DEF StopPost
  <2>1. CASE ~attrs /\ UNCHANGED <<holder, todo, panel, chip, late>>
    <3>1. TruthInv' BY <1>1, <2>1 DEF TruthInv, LifeVars
    <3> QED BY <2>1, <3>1, NoStore
  <2>2. CASE enabled_store("service", FALSE)
    <3>1. panel' = [panel EXCEPT !.enabled = FALSE] BY <2>2 DEF enabled_store, Store, Locked
    <3>2. ~panel'.enabled BY <1>1, <3>1 DEF Cached
    <3>3. TruthInv' BY <1>1, <3>2 DEF TruthInv
    <3> QED BY <2>2, <3>3, EnabledStore
  <2> QED BY <2>1, <2>2
<1> QED BY <1>3, <1>4, <1>5, <1>6, <1>7, <1>8

\* The driver's life.
LEMMA FreshCached ==
    /\ Fresh \in Cached /\ Fresh.enabled = TRUE /\ RamOf(Fresh) = Dark
    /\ \A i \in 1 .. NumDigits : Fresh.digits[i] = Seg7[Fresh.text[i]]
<1>1. [i \in 1 .. NumDigits |-> Blank] \in [1 .. NumDigits -> Glyphs] /\ [i \in 1 .. NumDigits |-> 0] \in [1 .. NumDigits -> Nat]
  BY PanelAssumption
<1>2. Fresh \in Cached BY <1>1, PanelAssumption DEF Fresh, Cached
<1>3. \A i \in 1 .. NumDigits : Fresh.digits[i] = 0 /\ Seg7[Fresh.text[i]] = 0 BY PanelAssumption DEF Fresh
<1>4. RamOf(Fresh) = Dark
  <2>1. ASSUME NEW a \in RamBytes PROVE RamOf(Fresh)[a] = 0
    <3>1. CASE \E i \in 1 .. NumDigits : a = DigitAddr(i) BY <1>2, <1>3, <3>1, RamOfAt
    <3>2. CASE a = SymbolAddr
      <4>1. Fresh.symbols = 0 BY DEF Fresh
      <4> QED BY <1>2, <3>2, <4>1, RamOfAt
    <3>3. CASE a # SymbolAddr /\ ~\E i \in 1 .. NumDigits : a = DigitAddr(i) BY <1>2, <3>3, RamOfAt
    <3> QED BY <3>1, <3>2, <3>3
  <2>2. RamOf(Fresh) \in [RamBytes -> Nat] BY <1>2, RamOfAt
  <2> QED BY <2>1, <2>2 DEF Dark
<1>5. Fresh.enabled = TRUE BY DEF Fresh
<1> QED BY <1>2, <1>3, <1>4, <1>5

\* What the driver core leaves when it takes the lock.
LEMMA CoreTypes ==
    ASSUME PanelInv, NEW p \in Cached, NEW ts \in Seq(Wire), ts # <<>>,
           \A i \in 1 .. NumDigits : p.digits[i] = Seg7[p.text[i]],
           Locked("core", p, ts), chip' = chip, UNCHANGED ServiceVars,
           drv' \in {"new", "probing", "bound", "removing", "gone", "suspended", "off"}
    PROVE  PanelTypes'
BY DEF PanelInv, PanelTypes, PanelTypeOK, Cached, Locked, ServiceVars

\* Switching off, whatever the state it leads to.
LEMMA SwitchOff ==
    ASSUME PanelInv, Locked("core", panel, ht1628_write_control(panel, FALSE)), UNCHANGED <<attrs, chip, foreign>>,
           UNCHANGED ServiceVars, drv' \in {"removing", "gone", "suspended", "off"}, drv' = "gone" => ~attrs
    PROVE  PanelInv'
<1>1. panel \in Cached /\ \A i \in 1 .. NumDigits : panel.digits[i] = Seg7[panel.text[i]] BY DEF PanelInv, PanelTypes
<1>2. ht1628_write_control(panel, FALSE) \in Seq(Wire) /\ Len(ht1628_write_control(panel, FALSE)) = 1
  BY <1>1, ShortScripts
<1>3. ht1628_write_control(panel, FALSE) # <<>>
  <2>1. PICK s : s = ht1628_write_control(panel, FALSE) OBVIOUS
  <2>2. s \in Seq(Wire) /\ Len(s) = 1 BY ONLY <1>2, <2>1, ZenonT(30)
  <2>3. Len(s) # 0 BY ONLY <2>2
  <2> QED BY ONLY <2>1, <2>2, <2>3, EmptyWire, ZenonT(30)
<1>4. PanelTypes' BY <1>1, <1>2, <1>3, CoreTypes
<1>5. LifeInv' BY DEF LifeInv
<1>6. panel' = panel /\ TruthInv' BY DEF PanelInv, TruthInv, ServiceVars, Locked
<1>7. Darkening' BY <1>6 DEF Darkening, Locked
<1> QED BY <1>4, <1>5, <1>6, <1>7 DEF PanelInv

\* Everything is sent anew.
LEMMA Restores ==
    ASSUME PanelInv, NEW p \in Cached, \A i \in 1 .. NumDigits : p.digits[i] = Seg7[p.text[i]],
           Locked("core", p, ht1628_restore(p)), chip' = chip, UNCHANGED ServiceVars, drv' \in {"probing", "bound"},
           LifeInv', TruthInv'
    PROVE  PanelInv'
<1>1. ht1628_restore(p) \in Seq(Wire) /\ Len(ht1628_restore(p)) = NumDigits + 6 BY RestoreScript
<1>2. ht1628_restore(p) # <<>>
  <2>1. Len(ht1628_restore(p)) # 0 BY <1>1, PanelAddresses
  <2> QED BY ONLY <1>1, <2>1, EmptyWire, ZenonT(30)
<1>3. PanelTypes' BY <1>1, <1>2, CoreTypes
<1>4. SentOf(ht1628_restore(p), 0, ht1628_restore(p)) BY <1>1, <1>2, SentStart
<1>5. panel' = p /\ todo' = ht1628_restore(p) /\ holder' # "none" BY DEF Locked
<1>6. ShowsRestore(0)' BY <1>4, <1>5 DEF ShowsRestore
<1>7. Showing' BY <1>5, <1>6 DEF Showing
<1> QED BY <1>3, <1>7 DEF PanelInv

LEMMA LifeStep ==
    ASSUME PanelInv,
           \/ ht1628_probe \/ ProbeEnds \/ ht1628_remove \/ FilesGo \/ ht1628_suspend \/ ht1628_resume \/ SupplyLost
    PROVE  PanelInv'
<1>1. /\ TruthInv /\ LifeInv /\ PanelTypes /\ panel \in Cached
      /\ \A i \in 1 .. NumDigits : panel.digits[i] = Seg7[panel.text[i]]
  BY DEF PanelInv, PanelTypes
<1>2. CASE ht1628_probe
  <2> USE <1>2 DEF ht1628_probe
  <2>1. ~attrs /\ attrs' = attrs /\ panel' = Fresh BY <1>1 DEF LifeInv, Locked
  <2>2. LifeInv' BY <2>1 DEF LifeInv
  <2>3. ~foreign' => ~foreign /\ dpc \notin {"update", "symbols"} OBVIOUS
  <2>4. TruthInv' BY <1>1, <2>1, <2>3 DEF TruthInv, ServiceVars
  <2> QED BY <2>2, <2>4, FreshCached, Restores
<1>3. CASE ProbeEnds
  <2> USE <1>3 DEF ProbeEnds
  <2>1. CASE drv' = "bound" /\ attrs' = TRUE /\ UNCHANGED <<holder, panel, todo>>
    <3>1. panel = Fresh BY <1>1 DEF LifeInv
    <3>2. TruthInv' BY <1>1, <2>1, <3>1, FreshCached DEF TruthInv, ServiceVars
    <3>3. LifeInv' BY <2>1 DEF LifeInv
    <3>4. PanelTypes' BY <1>1, <2>1 DEF PanelTypes, PanelTypeOK, ServiceVars
    <3>5. Showing BY DEF PanelInv
    <3>6. Showing' BY <2>1, <3>5 DEF Showing, Shown, SwitchedAs
    <3> QED BY <2>1, <3>2, <3>3, <3>4, <3>6 DEF PanelInv
  <2>2. CASE drv' = "gone" /\ Locked("core", panel, ht1628_write_control(panel, FALSE)) /\ UNCHANGED attrs
    <3>1. ~attrs BY <1>1 DEF LifeInv
    <3> QED BY <2>2, <3>1, SwitchOff
  <2> QED BY <2>1, <2>2
<1>4. CASE ht1628_remove BY <1>4, SwitchOff DEF ht1628_remove
<1>5. CASE ht1628_suspend BY <1>5, SwitchOff DEF ht1628_suspend
<1>6. CASE FilesGo
  <2> USE <1>6 DEF FilesGo
  <2>1. PanelTypes' BY <1>1 DEF PanelTypes, PanelTypeOK, ServiceVars
  <2>2. LifeInv' /\ TruthInv' BY <1>1 DEF LifeInv, TruthInv, ServiceVars
  <2>3. ~late' => Darkening' BY DEF PanelInv, Darkening
  <2> QED BY <2>1, <2>2, <2>3 DEF PanelInv
<1>7. CASE ht1628_resume
  <2> USE <1>7 DEF ht1628_resume
  <2>1. panel' = panel /\ LifeInv' BY <1>1 DEF LifeInv, Locked
  <2>2. TruthInv' BY <1>1, <2>1 DEF TruthInv, ServiceVars
  <2> QED BY <1>1, <2>1, <2>2, Restores
<1>8. CASE SupplyLost
  <2> USE <1>8 DEF SupplyLost
  <2>1. chip' \in ControllerStates /\ chip'.on = FALSE BY DEF ControllerStates, Leftover
  <2>2. PanelTypes' BY <1>1, <2>1 DEF PanelTypes, PanelTypeOK, ServiceVars, LifeVars
  <2>3. LifeInv' /\ TruthInv' BY <1>1 DEF LifeInv, TruthInv, ServiceVars, LifeVars
  <2>4. Darkening' BY <2>1 DEF Darkening
  <2>5. drv' = "suspended" BY DEF LifeVars
  <2> QED BY <2>2, <2>3, <2>4, <2>5 DEF PanelInv
<1> QED BY <1>2, <1>3, <1>4, <1>5, <1>6, <1>7, <1>8

LEMMA PanelInitInv == PanelInit => PanelInv
<1> SUFFICES ASSUME PanelInit PROVE PanelInv OBVIOUS
<1> USE DEF PanelInit
<1>1. chip \in ControllerStates BY DEF ControllerStates, Leftover
<1>2. Fresh.text \in [1 .. NumDigits -> Glyphs] /\ Fresh.symbols \in SymbolSets /\ Fresh.brightness \in Levels
  BY FreshCached DEF Cached
<1>3. PanelTypeOK BY <1>2 DEF PanelTypeOK
<1>4. PanelTypes BY <1>1, <1>3, FreshCached DEF PanelTypes
<1>5. LifeInv /\ TruthInv BY DEF LifeInv, TruthInv
<1> QED BY <1>4, <1>5 DEF PanelInv

LEMMA PanelStep == PanelInv /\ [PanelNext]_PanelVars => PanelInv'
<1> SUFFICES ASSUME PanelInv, [PanelNext]_PanelVars PROVE PanelInv' OBVIOUS
<1>1. CASE UNCHANGED PanelVars
  <2>1. TruthInv' BY <1>1 DEF PanelVars, PanelInv, TruthInv
  <2> QED BY <1>1, <2>1, NoStore DEF PanelVars, LifeVars, PanelInv, PanelTypes, PanelTypeOK
<1> QED BY <1>1, PanelTransaction, OperatorStep, LifeStep, ServiceStep DEF PanelNext

(* However the stores of the service and of an operator, binding, removal, shutdown and sleep follow each other, for every
   number of digits, set of glyphs and bound: with the lock free a bound panel shows what its files say, a panel switched
   off is dark unless a store came through files that outlive it, and what the service believes it has written is there
   unless somebody else wrote (skykirin_ht1628.c, bm201-front-panel). *)
THEOREM PanelSafety == PanelSpec => []PanelSafe
<1>1. PanelInv => PanelSafe
  <2> SUFFICES ASSUME PanelInv PROVE PanelSafe OBVIOUS
  <2>1. PanelTypeOK BY DEF PanelInv, PanelTypes
  <2>2. ShowsState BY DEF PanelInv, Showing, Shown, SwitchedAs, ShowsState
  <2>3. DarkWhenOff BY DEF PanelInv, Darkening, DarkWhenOff
  <2>4. ServiceTruth
    <3>1. ASSUME holder = "none", attrs, ~foreign PROVE dpc = "stopped" /\ ~late => ~chip.on \/ chip.ram = Dark
      <4>1. CASE drv = "bound" BY <2>2, <3>1, <4>1 DEF PanelInv, TruthInv, ShowsState
      <4>2. CASE drv \in {"removing", "gone", "suspended", "off"} BY <2>3, <3>1, <4>2 DEF DarkWhenOff
      <4>3. drv \in {"bound", "removing", "suspended", "off"} BY <2>1, <3>1 DEF PanelInv, LifeInv, PanelTypeOK
      <4> QED BY <4>1, <4>2, <4>3
    <3> QED BY <3>1 DEF PanelInv, TruthInv, ServiceTruth
  <2> QED BY <2>1, <2>2, <2>3, <2>4 DEF PanelSafe
<1> QED BY <1>1, PanelInitInv, PanelStep, PTL DEF PanelSpec
=============================================================================
