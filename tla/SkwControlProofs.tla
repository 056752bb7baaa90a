--------------------------- MODULE SkwControlProofs ---------------------------
(***************************************************************************)
(* Proofs about the recovery of the Wi-Fi driver after a crash of the chip *)
(* (SkwRecovery), about its station (SkwSta) and its interfaces (SkwIface).*)
(*                                                                         *)
(* RecInv says at every step of the work which connections of user space   *)
(* have a peer, live or put aside (ToldInv), that a peer put aside is told *)
(* at most once (PeersInv), and that a recovery that failed leaves its     *)
(* trace, FW_CHIP_RECOVERY with FW_ASSERT or a crash under way (WorkInv),  *)
(* so that the next one goes on with the same peers.                       *)
(*                                                                         *)
(* StaInv says what the station's BSS, peer, state and connection are in   *)
(* the middle of a call, by what the call has still to do (Moves, Leaves), *)
(* and between calls (Quiet).                                              *)
(*                                                                         *)
(* IfaceInv says what an operation under way has changed already: the      *)
(* bitmap, the table and the firmware's devices (TablesAgree, DevicesAgree)*)
(* and where events can still be (EventsLive); and how far probe is        *)
(* (PartsBuilt, IfacePhase).                                               *)
(***************************************************************************)
EXTENDS SkwSta, SkwRecovery, SkwIface, FiniteSetTheorems, WellFoundedInduction, TLAPS

RecPcs == {"idle", "queued", "prepare", "restart", "open", "recover", "flush", "end"}

(* Every variable keeps its type; the lock, which no property is about, is left out. *)
RecTypeOK ==
    /\ recFlags \in [assert : BOOLEAN, chip : BOOLEAN]
    /\ recFw \in [alive : BOOLEAN, asked : BOOLEAN, dev : SUBSET RecInsts, ap : SUBSET RecInsts, peer : SUBSET RecInsts]
    /\ recHost \in [live : SUBSET RecInsts, upper : SUBSET RecInsts, ap : SUBSET RecInsts, ifaces : SUBSET RecInsts]
    /\ rd \in [peer : [RecInsts -> {"none", "held", "deauthed"}], map : SUBSET RecInsts, param : SUBSET RecInsts]
    /\ recWork \in [pc : RecPcs, i : Nat \ {0}, ret : {0, 1}]
    /\ recNf \in {"none", "assert", "cancelling", "off", "ready"}
    /\ recCall \in RecInsts \cup {0}
    /\ removal \in {"no", "unbound", "locked", "done"}
    /\ recGhost \in [forgotten : BOOLEAN, joined : SUBSET RecInsts, excused : SUBSET RecInsts, told : [RecInsts -> Nat]]

(* Who is told: a peer in peer_ctx has a connection of user space and nobody was told of its end; one
   that was put aside is told once, and is not connected meanwhile. *)
PeersInv ==
    /\ recHost.live \subseteq recHost.upper
    /\ \A i \in recHost.live : recGhost.told[i] = 0
    /\ \A i \in RecInsts : ToTell(i) => /\ recGhost.told[i] = 0 /\ i \notin recHost.live
                                        /\ removal = "no" => i \in recHost.upper
    /\ \A i \in RecInsts : recGhost.told[i] <= 1

(* What users have asked for. *)
UsersInv ==
    /\ removal = "no" => recHost.ifaces = RecInsts
    /\ removal # "no" => recCall = 0 /\ recHost.ap = {} /\ recHost.upper = {}
    /\ recHost.ap \subseteq OfType("ap")
    /\ recHost.upper \subseteq OfType("sta") \cup recHost.ap
    /\ recCall # 0 => recCall \in OfType("ap") \ recHost.ap /\ recCall \in rd.param
    /\ recHost.ap \subseteq rd.param \cup recGhost.excused

(* The work: FW_CHIP_RECOVERY is set from its preparation on, and stays set after a failure, which is
   never unnoticed: the chip is asserted, or has crashed. *)
WorkInv ==
    /\ recWork.pc \in {"prepare", "restart"} => recWork.i = 1
    /\ recWork.pc \in {"restart", "open", "recover", "flush", "end"} => recFlags.chip
    /\ recWork.pc \in {"recover", "flush"} => recWork.i \in RecInsts /\ recWork.ret = 0
    /\ recWork.pc = "flush" => IfTypes[recWork.i] = "ap"
    /\ removal = "no" =>
          /\ recWork.pc = "open" /\ recWork.i > 1 => recWork.ret = 0
          /\ recWork.pc = "end" /\ recWork.ret = 1 => recFlags.assert
          /\ recWork.pc = "idle" /\ recFlags.chip => recFlags.assert \/ recNf # "none"

(* No crash is waiting for its recovery to begin. *)
Current == recFw.alive /\ recNf = "none" /\ recWork.pc \notin {"queued", "prepare"}

(* The interfaces the work is done with. *)
Passed(j) ==
    \/ recWork.pc \in {"open", "recover", "flush"} /\ j < recWork.i
    \/ recWork.pc = "end" /\ recWork.ret = 0
Restarted(j) ==
    \/ Passed(j)
    \/ recWork.pc = "flush" /\ j = recWork.i
    \/ recWork.pc = "idle" /\ ~recFlags.chip

(* Every connection of user space has its peer, live or put aside; a live peer is the firmware's, or
   joined during a recovery; what the work has passed is told, and on the air. *)
ToldInv ==
    /\ recFlags.chip => recHost.live \subseteq recGhost.joined
    /\ removal = "no" /\ ~recGhost.forgotten =>
          /\ \A i \in recHost.upper : i \in recHost.live \/ (recFlags.chip /\ ToTell(i))
          /\ \A j \in RecInsts : Passed(j) /\ j \in recHost.upper => j \in recHost.live
    /\ Current => recHost.live \subseteq recFw.peer \cup recGhost.joined
    /\ removal = "no" /\ ~recGhost.forgotten /\ Current =>
          \A j \in RecInsts : Restarted(j) /\ j \in recHost.ap => j \in recFw.ap \cup recGhost.excused

(* The inductive invariant. *)
RecInv == RecTypeOK /\ PeersInv /\ UsersInv /\ WorkInv /\ ToldInv

(* Instances are numbered from 1, and each has one of the three types. *)
LEMMA InterfaceNumbers ==
    /\ RecInsts \subseteq Nat \ {0} /\ 1 \in RecInsts
    /\ \A i \in Nat \ {0} : i \notin RecInsts => \A j \in RecInsts : j < i
    /\ \A i \in RecInsts : IfTypes[i] \in {"sta", "ap", "dev"}
BY RecTypes DEF RecInsts

(* The initial state satisfies the invariant. *)
LEMMA RecInitInv == RecInit => RecInv
<1> SUFFICES ASSUME RecInit PROVE RecInv OBVIOUS
<1> USE InterfaceNumbers DEF RecInit, RecIdle, Booted
<1>1. RecTypeOK BY DEF RecTypeOK, RecPcs
<1>2. PeersInv BY DEF PeersInv, ToTell
<1>3. UsersInv BY DEF UsersInv
<1>4. WorkInv BY DEF WorkInv
<1>5. ToldInv BY DEF ToldInv, Passed, Restarted, Current
<1> QED BY <1>1, <1>2, <1>3, <1>4, <1>5 DEF RecInv


(* What can become of a command, and when. *)
LEMMA OutcomeSet ==
    ASSUME NEW o \in Outcomes
    PROVE  /\ o \in {"blocked", "lost", "ok", "refused"}
           /\ o = "ok" => ~recFlags.assert /\ recFw.alive
           /\ o = "lost" => ~recFw.alive
           /\ o = "refused" => recFw.alive /\ ~recFlags.assert
           /\ o = "blocked" => recFlags.assert
BY DEF Outcomes

(* Each action keeps the invariant.  The peers are put aside, or those of a recovery that failed stay so. *)
LEMMA skw_recovery_prepareStep ==
    ASSUME RecInv, skw_recovery_prepare
    PROVE  RecInv'
<1> USE InterfaceNumbers DEF RecInv
<1>1. /\ recWork.pc = "prepare" /\ recWork' = [recWork EXCEPT !.pc = "restart"]
      /\ UNCHANGED <<recFw, recNf, recCall, removal>>
  BY DEF skw_recovery_prepare
<1>2. CASE recFlags.chip /\ UNCHANGED <<rd, recHost, recFlags, recGhost>>
<2>1. RecTypeOK' BY <1>1, <1>2 DEF RecTypeOK, RecPcs
<2>2. PeersInv' BY <1>1, <1>2 DEF RecTypeOK, PeersInv, UsersInv, WorkInv, ToTell
<2>3. UsersInv' BY <1>1, <1>2 DEF RecTypeOK, UsersInv, WorkInv, OfType
<2>4. WorkInv' BY <1>1, <1>2 DEF RecTypeOK, UsersInv, WorkInv
<2>5. ToldInv' BY <1>1, <1>2 DEF RecTypeOK, PeersInv, UsersInv, WorkInv, ToldInv, ToTell, Current, Passed, Restarted, OfType
<2> QED BY <2>1, <2>2, <2>3, <2>4, <2>5 DEF RecInv
<1>3. CASE ~recFlags.chip /\ SetAside /\ recFlags' = [recFlags EXCEPT !.chip = TRUE]
  <2> DEFINE p == [i \in RecInsts |-> IF i \in recHost.live THEN "held" ELSE "none"]
  <2>1. /\ rd' = [rd EXCEPT !.peer = p, !.map = recHost.live]
        /\ recHost' = [recHost EXCEPT !.live = {}] /\ recGhost' = [recGhost EXCEPT !.joined = {}]
    BY <1>3 DEF SetAside
  <2>2. p \in [RecInsts -> {"none", "held", "deauthed"}] /\ \A i \in RecInsts : p[i] = "held" => i \in recHost.live
    OBVIOUS
  <2> HIDE DEF p
  <2>3. /\ rd' \in [peer : [RecInsts -> {"none", "held", "deauthed"}], map : SUBSET RecInsts, param : SUBSET RecInsts]
        /\ rd'.peer = p /\ rd'.map = recHost.live /\ rd'.param = rd.param
    BY <2>1, <2>2 DEF RecTypeOK
  <2>4. /\ recHost' \in [live : SUBSET RecInsts, upper : SUBSET RecInsts, ap : SUBSET RecInsts, ifaces : SUBSET RecInsts]
        /\ recHost'.live = {} /\ recHost'.upper = recHost.upper /\ recHost'.ap = recHost.ap /\ recHost'.ifaces = recHost.ifaces
    BY <2>1 DEF RecTypeOK
  <2>5. /\ recGhost' \in [forgotten : BOOLEAN, joined : SUBSET RecInsts, excused : SUBSET RecInsts, told : [RecInsts -> Nat]]
        /\ recGhost'.forgotten = recGhost.forgotten /\ recGhost'.excused = recGhost.excused
        /\ recGhost'.told = recGhost.told
    BY <2>1 DEF RecTypeOK
  <2>6. recFlags' \in [assert : BOOLEAN, chip : BOOLEAN] /\ recFlags'.assert = recFlags.assert /\ recFlags'.chip
    BY <1>3 DEF RecTypeOK
  <2>12. \A i \in RecInsts : i \in recHost.live => p[i] = "held" BY DEF p
  <2>13. \A i \in RecInsts : (ToTell(i))' <=> i \in recHost.live BY <2>2, <2>3, <2>12 DEF ToTell, RecTypeOK
  <2>7. RecTypeOK' BY <1>1, <2>3, <2>4, <2>5, <2>6 DEF RecTypeOK, RecPcs
  <2>8. PeersInv' BY <1>1, <2>4, <2>5, <2>13, <2>7 DEF RecTypeOK, PeersInv
  <2>9. UsersInv' BY <1>1, <2>3, <2>4, <2>5 DEF RecTypeOK, UsersInv, OfType
  <2>10. WorkInv' BY <1>1, <2>6 DEF RecTypeOK, WorkInv
  <2>11. ToldInv' BY <1>1, <1>3, <2>13, <2>4, <2>5, <2>6 DEF RecTypeOK, PeersInv, ToldInv, Current, Passed, Restarted
  <2> QED BY <2>7, <2>8, <2>9, <2>10, <2>11 DEF RecInv
<1> QED BY <1>1, <1>2, <1>3 DEF skw_recovery_prepare

(* The chip is enabled and its flags are cleared. *)
LEMMA RestartStep ==
    ASSUME RecInv, Restart
    PROVE  RecInv'
<1> USE InterfaceNumbers DEF RecInv
<1>1. PICK o : /\ o \in {"ok", "refused", "lost"} /\ (o = "lost" <=> ~recFw.alive)
               /\ recWork' = [recWork EXCEPT !.pc = "open", !.ret = IF o = "ok" THEN 0 ELSE 1]
               /\ recFlags' = [recFlags EXCEPT !.assert = o = "lost"]
  BY DEF Restart
<1>2. recWork.pc = "restart" /\ UNCHANGED <<recFw, recHost, rd, recNf, recCall, removal, recGhost>>
  BY DEF Restart
<1>3. recFlags' \in [assert : BOOLEAN, chip : BOOLEAN] /\ recFlags'.chip = recFlags.chip
  <2>1. CASE o = "lost" BY <1>1, <2>1 DEF RecTypeOK
  <2>2. CASE o # "lost" BY <1>1, <2>2 DEF RecTypeOK
  <2> QED BY <2>1, <2>2
<1>4. recWork' \in [pc : RecPcs, i : Nat \ {0}, ret : {0, 1}] /\ recWork'.pc = "open" /\ recWork'.i = recWork.i
  BY <1>1, <1>2 DEF RecTypeOK, RecPcs
<1>5. RecTypeOK' BY <1>2, <1>3, <1>4 DEF RecTypeOK
<1>6. PeersInv' BY <1>2 DEF PeersInv, ToTell
<1>7. UsersInv' BY <1>2 DEF UsersInv, OfType
<1>8. WorkInv' BY <1>2, <1>3, <1>4 DEF RecTypeOK, WorkInv
<1>9. ToldInv' BY <1>2, <1>3, <1>4 DEF RecTypeOK, WorkInv, ToldInv, ToTell, Current, Passed, Restarted
<1> QED BY <1>5, <1>6, <1>7, <1>8, <1>9 DEF RecInv

(* An interface is opened, or the chip asserted. *)
LEMMA OpensInterfaceStep ==
    ASSUME RecInv, OpensInterface
    PROVE  RecInv'
<1> USE InterfaceNumbers DEF RecInv
<1>1. /\ recWork.pc = "open" /\ recWork.i \in RecInsts /\ ~recFlags.assert
      /\ UNCHANGED <<recHost, rd, recNf, recCall, removal, recGhost>>
  BY DEF OpensInterface, Opening
<1>a. PeersInv' BY <1>1 DEF PeersInv, ToTell
<1>b. UsersInv' BY <1>1 DEF UsersInv, OfType
<1>2. CASE /\ recFw' = [recFw EXCEPT !.dev = @ \union {recWork.i}]
           /\ recWork' = [recWork EXCEPT !.pc = "recover", !.ret = 0] /\ UNCHANGED recFlags
  <2>1. /\ recFw' \in [alive : BOOLEAN, asked : BOOLEAN, dev : SUBSET RecInsts, ap : SUBSET RecInsts, peer : SUBSET RecInsts]
        /\ recFw'.alive = recFw.alive /\ recFw'.ap = recFw.ap /\ recFw'.peer = recFw.peer
    BY <1>1, <1>2 DEF RecTypeOK
  <2>2. /\ recWork' \in [pc : RecPcs, i : Nat \ {0}, ret : {0, 1}]
        /\ recWork'.pc = "recover" /\ recWork'.i = recWork.i /\ recWork'.ret = 0
    BY <1>1, <1>2 DEF RecTypeOK, RecPcs
  <2>3. RecTypeOK' BY <1>1, <1>2, <2>1, <2>2 DEF RecTypeOK
  <2>4. WorkInv' BY <1>1, <1>2, <2>2 DEF WorkInv
  <2>5. ToldInv' BY <1>1, <1>2, <2>1, <2>2 DEF RecTypeOK, ToldInv, ToTell, Current, Passed, Restarted
  <2> QED BY <1>a, <1>b, <2>3, <2>4, <2>5 DEF RecInv
<1>3. CASE /\ recFlags' = [recFlags EXCEPT !.assert = TRUE] /\ recFw' = [recFw EXCEPT !.asked = recFw.alive]
           /\ recWork' = [recWork EXCEPT !.pc = "end", !.ret = 1]
  <2>1. /\ recFw' \in [alive : BOOLEAN, asked : BOOLEAN, dev : SUBSET RecInsts, ap : SUBSET RecInsts, peer : SUBSET RecInsts]
        /\ recFw'.alive = recFw.alive /\ recFw'.ap = recFw.ap /\ recFw'.peer = recFw.peer
    <3>1. CASE recFw.alive BY <1>3, <3>1 DEF RecTypeOK
    <3>2. CASE ~recFw.alive BY <1>3, <3>2 DEF RecTypeOK
    <3> QED BY <3>1, <3>2
  <2>2. /\ recWork' \in [pc : RecPcs, i : Nat \ {0}, ret : {0, 1}]
        /\ recWork'.pc = "end" /\ recWork'.i = recWork.i /\ recWork'.ret = 1
    BY <1>1, <1>3 DEF RecTypeOK, RecPcs
  <2>6. recFlags' \in [assert : BOOLEAN, chip : BOOLEAN] /\ recFlags'.chip = recFlags.chip /\ recFlags'.assert
    BY <1>3 DEF RecTypeOK
  <2>3. RecTypeOK' BY <1>1, <2>1, <2>2, <2>6 DEF RecTypeOK
  <2>4. WorkInv' BY <1>1, <2>2, <2>6 DEF WorkInv
  <2>5. ToldInv' BY <1>1, <2>1, <2>2, <2>6 DEF RecTypeOK, ToldInv, ToTell, Current, Passed, Restarted
  <2> QED BY <1>a, <1>b, <2>3, <2>4, <2>5 DEF RecInv
<1> QED BY <1>2, <1>3 DEF OpensInterface

(* The end of the work. *)
LEMMA WorkEndsStep ==
    ASSUME RecInv, WorkEnds
    PROVE  RecInv'
<1> USE InterfaceNumbers DEF RecInv
<1>1. /\ recWork.pc = "end" /\ recWork' = [pc |-> "idle", i |-> 1, ret |-> 0]
      /\ UNCHANGED <<recFw, recHost, recNf, recCall, removal, recGhost>>
  BY DEF WorkEnds, RecIdle
<1>2. recWork' \in [pc : RecPcs, i : Nat \ {0}, ret : {0, 1}] BY <1>1 DEF RecPcs
<1>3. PeersInv' BY DEF RecTypeOK, PeersInv, UsersInv, WorkInv, ToTell, WorkEnds, RecIdle
<1>4. UsersInv' BY DEF RecTypeOK, UsersInv, WorkInv, OfType, WorkEnds, RecIdle
<1>5. WorkInv' BY DEF RecTypeOK, UsersInv, WorkInv, WorkEnds, RecIdle
<1>6. ToldInv' BY DEF RecTypeOK, PeersInv, UsersInv, WorkInv, ToldInv, ToTell, Current, Passed, Restarted, OfType, WorkEnds, RecIdle
<1>7. CASE recWork.ret = 0
  <2>1. rd' \in [peer : [RecInsts -> {"none", "held", "deauthed"}], map : SUBSET RecInsts, param : SUBSET RecInsts]
    <3> DEFINE p == [i \in RecInsts |-> "none"]
    <3>1. p \in [RecInsts -> {"none", "held", "deauthed"}] OBVIOUS
    <3>2. rd' = [rd EXCEPT !.peer = p] BY <1>7 DEF WorkEnds
    <3> HIDE DEF p
    <3> QED BY <3>1, <3>2 DEF RecTypeOK
  <2>3. recFlags' = [recFlags EXCEPT !.chip = FALSE] BY <1>7 DEF WorkEnds
  <2>2. recFlags' \in [assert : BOOLEAN, chip : BOOLEAN] BY <2>3 DEF RecTypeOK
  <2> QED BY <1>1, <1>2, <1>3, <1>4, <1>5, <1>6, <2>1, <2>2 DEF RecInv, RecTypeOK
<1>8. CASE recWork.ret # 0
  <2>1. UNCHANGED <<rd, recFlags>> BY <1>8 DEF WorkEnds
  <2> QED BY <1>1, <1>2, <1>3, <1>4, <1>5, <1>6, <2>1 DEF RecInv, RecTypeOK
<1> QED BY <1>7, <1>8


(* A command may assert the chip, and changes no other flag. *)
LEMMA Raised ==
    ASSUME RecTypeOK, NEW o, Raises(o)
    PROVE  /\ recFlags' \in [assert : BOOLEAN, chip : BOOLEAN] /\ recFlags'.chip = recFlags.chip
           /\ recFlags.assert => recFlags'.assert
<1>1. CASE o = "lost" BY <1>1 DEF Raises, RecTypeOK
<1>2. CASE o # "lost" BY <1>2 DEF Raises, RecTypeOK
<1> QED BY <1>1, <1>2

(* What telling of a lost peer changes, field by field. *)
LEMMA TellsPeer ==
    ASSUME RecTypeOK, NEW i \in RecInsts, Told(i), rd' = [rd EXCEPT !.peer[i] = "deauthed"],
           recHost' = [recHost EXCEPT !.upper = @ \ {i}]
    PROVE  /\ recGhost' \in [forgotten : BOOLEAN, joined : SUBSET RecInsts, excused : SUBSET RecInsts, told : [RecInsts -> Nat]]
           /\ recGhost'.forgotten = recGhost.forgotten /\ recGhost'.joined = recGhost.joined
           /\ recGhost'.excused = recGhost.excused
           /\ \A j \in RecInsts : recGhost'.told[j] = IF j = i THEN recGhost.told[j] + 1 ELSE recGhost.told[j]
           /\ rd' \in [peer : [RecInsts -> {"none", "held", "deauthed"}], map : SUBSET RecInsts, param : SUBSET RecInsts]
           /\ rd'.map = rd.map /\ rd'.param = rd.param
           /\ \A j \in RecInsts : rd'.peer[j] = IF j = i THEN "deauthed" ELSE rd.peer[j]
           /\ recHost' \in [live : SUBSET RecInsts, upper : SUBSET RecInsts, ap : SUBSET RecInsts, ifaces : SUBSET RecInsts]
           /\ recHost'.live = recHost.live /\ recHost'.upper = recHost.upper \ {i}
           /\ recHost'.ap = recHost.ap /\ recHost'.ifaces = recHost.ifaces
<1> DEFINE t == [recGhost.told EXCEPT ![i] = @ + 1]
           p == [rd.peer EXCEPT ![i] = "deauthed"]
<1>1. t \in [RecInsts -> Nat] /\ \A j \in RecInsts : t[j] = IF j = i THEN recGhost.told[j] + 1 ELSE recGhost.told[j]
  BY DEF RecTypeOK
<1>2. p \in [RecInsts -> {"none", "held", "deauthed"}] /\ \A j \in RecInsts : p[j] = IF j = i THEN "deauthed" ELSE rd.peer[j]
  BY DEF RecTypeOK
<1>3. recGhost' = [recGhost EXCEPT !.told = t] BY DEF Told, RecTypeOK
<1>4. rd' = [rd EXCEPT !.peer = p] BY DEF RecTypeOK
<1> HIDE DEF t, p
<1>5. /\ recGhost' \in [forgotten : BOOLEAN, joined : SUBSET RecInsts, excused : SUBSET RecInsts, told : [RecInsts -> Nat]]
      /\ recGhost'.forgotten = recGhost.forgotten /\ recGhost'.joined = recGhost.joined
      /\ recGhost'.excused = recGhost.excused /\ recGhost'.told = t
  BY <1>1, <1>3 DEF RecTypeOK
<1>6. /\ rd' \in [peer : [RecInsts -> {"none", "held", "deauthed"}], map : SUBSET RecInsts, param : SUBSET RecInsts]
      /\ rd'.map = rd.map /\ rd'.param = rd.param /\ rd'.peer = p
  BY <1>2, <1>4 DEF RecTypeOK
<1>7. /\ recHost' \in [live : SUBSET RecInsts, upper : SUBSET RecInsts, ap : SUBSET RecInsts, ifaces : SUBSET RecInsts]
      /\ recHost'.live = recHost.live /\ recHost'.upper = recHost.upper \ {i}
      /\ recHost'.ap = recHost.ap /\ recHost'.ifaces = recHost.ifaces
  BY DEF RecTypeOK
<1> QED BY <1>1, <1>2, <1>5, <1>6, <1>7

(* The work goes on with the next interface. *)
LEMMA GoesOn ==
    ASSUME RecTypeOK, NextInterface
    PROVE  /\ recWork' \in [pc : RecPcs, i : Nat \ {0}, ret : {0, 1}]
           /\ recWork'.pc = "open" /\ recWork'.i = recWork.i + 1 /\ recWork'.ret = recWork.ret
<1>1. recWork \in [pc : RecPcs, i : Nat \ {0}, ret : {0, 1}] BY DEF RecTypeOK
<1>2. recWork.i + 1 \in Nat \ {0} BY <1>1
<1>3. recWork' = [recWork EXCEPT !.pc = "open", !.i = recWork.i + 1] BY <1>1 DEF NextInterface
<1> QED BY <1>1, <1>2, <1>3 DEF RecPcs

(* A peer that is reported gone, and the next interface. *)
LEMMA TellsStep ==
    ASSUME RecInv, recWork.i \in RecInsts, recWork.pc \in {"recover", "flush"}, ToTell(recWork.i), Told(recWork.i),
           IfTypes[recWork.i] = "sta" \/ recWork.pc = "flush",
           rd' = [rd EXCEPT !.peer[recWork.i] = "deauthed"], recHost' = [recHost EXCEPT !.upper = @ \ {recWork.i}],
           NEW o, Raises(o), NextInterface, UNCHANGED <<recNf, recCall, removal>>,
           UNCHANGED recFw \/ (IfTypes[recWork.i] = "sta" /\ recFw' = [recFw EXCEPT !.peer = @ \ {recWork.i}])
    PROVE  RecInv'
<1> USE InterfaceNumbers DEF RecInv
<1> DEFINE i == recWork.i
<1>1. /\ i \in RecInsts /\ recWork.pc \in {"recover", "flush"} /\ ToTell(i) /\ UNCHANGED <<recNf, recCall, removal>>
      /\ recWork.ret = 0 /\ recFlags.chip /\ recGhost.told[i] = 0 /\ i \notin recHost.live
      /\ i \in OfType("sta") \/ recWork.pc = "flush"
  BY DEF PeersInv, WorkInv, OfType
<1>2. /\ recGhost' \in [forgotten : BOOLEAN, joined : SUBSET RecInsts, excused : SUBSET RecInsts, told : [RecInsts -> Nat]]
      /\ recGhost'.forgotten = recGhost.forgotten /\ recGhost'.joined = recGhost.joined
      /\ recGhost'.excused = recGhost.excused
      /\ \A j \in RecInsts : recGhost'.told[j] = IF j = i THEN recGhost.told[j] + 1 ELSE recGhost.told[j]
  BY TellsPeer
<1>3. /\ rd' \in [peer : [RecInsts -> {"none", "held", "deauthed"}], map : SUBSET RecInsts, param : SUBSET RecInsts]
      /\ rd'.map = rd.map /\ rd'.param = rd.param
      /\ \A j \in RecInsts : rd'.peer[j] = IF j = i THEN "deauthed" ELSE rd.peer[j]
  BY TellsPeer
<1>4. /\ recHost' \in [live : SUBSET RecInsts, upper : SUBSET RecInsts, ap : SUBSET RecInsts, ifaces : SUBSET RecInsts]
      /\ recHost'.live = recHost.live /\ recHost'.upper = recHost.upper \ {i}
      /\ recHost'.ap = recHost.ap /\ recHost'.ifaces = recHost.ifaces
  BY TellsPeer
<1>5. /\ recFlags' \in [assert : BOOLEAN, chip : BOOLEAN] /\ recFlags'.chip = recFlags.chip
      /\ recFlags.assert => recFlags'.assert
  BY Raised
<1>6. /\ recWork' \in [pc : RecPcs, i : Nat \ {0}, ret : {0, 1}]
      /\ recWork'.pc = "open" /\ recWork'.i = i + 1 /\ recWork'.ret = 0
  BY GoesOn, <1>1
<1>7. /\ recFw' \in [alive : BOOLEAN, asked : BOOLEAN, dev : SUBSET RecInsts, ap : SUBSET RecInsts, peer : SUBSET RecInsts]
      /\ recFw'.alive = recFw.alive /\ recFw'.ap = recFw.ap /\ recFw.peer \ {i} \subseteq recFw'.peer
  BY DEF RecTypeOK
<1>8. \A j \in RecInsts : (ToTell(j))' <=> ToTell(j) /\ j # i
  BY <1>3 DEF ToTell, RecTypeOK
<1> HIDE DEF i
<1>14. recNf' \in {"none", "assert", "cancelling", "off", "ready"} /\ recCall' \in RecInsts \cup {0}
       /\ removal' \in {"no", "unbound", "locked", "done"}
  BY <1>1 DEF RecTypeOK
<1>9. RecTypeOK' BY <1>2, <1>3, <1>4, <1>5, <1>6, <1>7, <1>14, Zenon DEF RecTypeOK
<1>10. PeersInv'
  <2>1. recHost'.live \subseteq recHost'.upper BY <1>1, <1>4 DEF PeersInv
  <2>2. \A j \in RecInsts : recGhost'.told[j] <= 1
    <3> SUFFICES ASSUME NEW j \in RecInsts PROVE recGhost'.told[j] <= 1 OBVIOUS
    <3>1. CASE j = i BY <1>1, <1>2, <3>1
    <3>2. CASE j # i BY <1>2, <3>2 DEF PeersInv
    <3> QED BY <3>1, <3>2
  <2>3. \A j \in recHost'.live : recGhost'.told[j] = 0 BY <1>1, <1>2, <1>4 DEF PeersInv, RecTypeOK
  <2>4. \A j \in RecInsts : (ToTell(j))' => recGhost'.told[j] = 0 /\ j \notin recHost'.live
                                            /\ (removal' = "no" => j \in recHost'.upper)
    BY <1>1, <1>2, <1>4, <1>8 DEF PeersInv
  <2> QED BY <2>1, <2>2, <2>3, <2>4 DEF PeersInv
<1>11. UsersInv' BY <1>1, <1>2, <1>3, <1>4 DEF UsersInv, OfType
<1>12. WorkInv' BY <1>1, <1>5, <1>6 DEF WorkInv
<1>13. ToldInv'
  <2>1. recFlags'.chip => recHost'.live \subseteq recGhost'.joined BY <1>2, <1>4, <1>5 DEF ToldInv
  <2>2. (Current)' <=> Current BY <1>1, <1>6, <1>7 DEF Current
  <2>3. \A j \in RecInsts : (Passed(j))' <=> (Passed(j) \/ j = i) BY <1>1, <1>6 DEF Passed, i, RecTypeOK
  <2>4. \A j \in RecInsts : (Restarted(j))' <=> (Passed(j) \/ j = i) BY <1>1, <1>6, <2>3 DEF Restarted
  <2>5. removal' = "no" /\ ~recGhost'.forgotten =>
          /\ \A j \in recHost'.upper : j \in recHost'.live \/ (recFlags'.chip /\ (ToTell(j))')
          /\ \A j \in RecInsts : (Passed(j))' /\ j \in recHost'.upper => j \in recHost'.live
    BY <1>1, <1>2, <1>4, <1>5, <1>8, <2>3 DEF ToldInv, RecTypeOK
  <2>6. (Current)' => recHost'.live \subseteq recFw'.peer \cup recGhost'.joined
    BY <1>1, <1>2, <1>4, <1>7, <2>2 DEF ToldInv
  <2>7. removal' = "no" /\ ~recGhost'.forgotten /\ (Current)' =>
          \A j \in RecInsts : (Restarted(j))' /\ j \in recHost'.ap => j \in recFw'.ap \cup recGhost'.excused
    <3>1. recWork.pc = "flush" => Restarted(i) BY DEF Restarted, i
    <3>2. \A j \in RecInsts : Passed(j) => Restarted(j) BY DEF Restarted
    <3>3. i \in OfType("sta") => i \notin recHost.ap BY DEF UsersInv, OfType
    <3> QED BY <1>1, <1>2, <1>4, <1>7, <2>2, <2>4, <3>1, <3>2, <3>3 DEF ToldInv
  <2> QED BY <2>1, <2>5, <2>6, <2>7 DEF ToldInv
<1> QED BY <1>9, <1>10, <1>11, <1>12, <1>13 DEF RecInv


(* An interface the work is done with, without anything to tell, or with a peer it forgets. *)
LEMMA PassesStep ==
    ASSUME RecInv, recWork.pc \in {"recover", "flush"}, NextInterface,
           UNCHANGED <<recFw, recHost, rd, recNf, recCall, removal>>,
           recFlags' \in [assert : BOOLEAN, chip : BOOLEAN], recFlags'.chip = recFlags.chip,
           recFlags.assert => recFlags'.assert,
           recGhost' \in [forgotten : BOOLEAN, joined : SUBSET RecInsts, excused : SUBSET RecInsts, told : [RecInsts -> Nat]],
           recGhost'.joined = recGhost.joined, recGhost'.told = recGhost.told,
           recGhost.forgotten => recGhost'.forgotten, recGhost.excused \subseteq recGhost'.excused,
           recWork.i \in recHost.upper /\ removal = "no" /\ ToTell(recWork.i) => recGhost'.forgotten,
           recWork.pc = "recover" /\ recWork.i \in recHost.ap => recWork.i \in recGhost'.excused
    PROVE  RecInv'
<1> USE InterfaceNumbers DEF RecInv
<1> DEFINE i == recWork.i
<1>1. /\ recWork.i \in RecInsts /\ recWork.ret = 0 /\ recFlags.chip
      /\ \A j \in RecInsts : (ToTell(j))' <=> ToTell(j)
  BY DEF WorkInv, ToTell
<1>2. /\ recWork' \in [pc : RecPcs, i : Nat \ {0}, ret : {0, 1}]
      /\ recWork'.pc = "open" /\ recWork'.i = recWork.i + 1 /\ recWork'.ret = 0
  BY GoesOn, <1>1
<1>3. RecTypeOK' BY <1>2 DEF RecTypeOK
<1>4. PeersInv' BY <1>1 DEF PeersInv
<1>5. UsersInv' BY DEF UsersInv, OfType
<1>6. WorkInv' BY <1>1, <1>2 DEF WorkInv
<1>7. ToldInv'
  <2>1. recFlags'.chip => recHost'.live \subseteq recGhost'.joined BY DEF ToldInv
  <2>2. (Current)' <=> Current BY <1>2 DEF Current
  <2>3. \A j \in RecInsts : (Passed(j))' <=> (Passed(j) \/ j = recWork.i) BY <1>1, <1>2 DEF Passed, RecTypeOK
  <2>4. \A j \in RecInsts : (Restarted(j))' <=> (Passed(j) \/ j = recWork.i) BY <1>1, <1>2, <2>3 DEF Restarted
  <2>5. removal' = "no" /\ ~recGhost'.forgotten =>
          \A j \in recHost'.upper : j \in recHost'.live \/ (recFlags'.chip /\ (ToTell(j))')
    BY <1>1 DEF ToldInv, RecTypeOK
  <2>8. removal' = "no" /\ ~recGhost'.forgotten =>
          \A j \in RecInsts : (Passed(j))' /\ j \in recHost'.upper => j \in recHost'.live
    BY <1>1, <2>3 DEF ToldInv
  <2>6. (Current)' => recHost'.live \subseteq recFw'.peer \cup recGhost'.joined
    BY <2>2 DEF ToldInv
  <2>7. removal' = "no" /\ ~recGhost'.forgotten /\ (Current)' =>
          \A j \in RecInsts : (Restarted(j))' /\ j \in recHost'.ap => j \in recFw'.ap \cup recGhost'.excused
    <3>1. recWork.pc = "flush" => Restarted(recWork.i) BY DEF Restarted
    <3>2. \A j \in RecInsts : Passed(j) => Restarted(j) BY DEF Restarted
    <3> QED BY <1>1, <2>2, <2>4, <3>1, <3>2 DEF ToldInv
  <2> QED BY <2>1, <2>5, <2>6, <2>7, <2>8 DEF ToldInv
<1> QED BY <1>3, <1>4, <1>5, <1>6, <1>7 DEF RecInv

(* The clients of an access point are told gone, or forgotten. *)
LEMMA skw_recovery_sap_flush_staStep ==
    ASSUME RecInv, skw_recovery_sap_flush_sta
    PROVE  RecInv'
<1> USE InterfaceNumbers DEF RecInv
<1>1. /\ recWork.pc = "flush" /\ recWork.i \in RecInsts /\ NextInterface
      /\ UNCHANGED <<recFw, recNf, recCall, removal>>
  BY DEF skw_recovery_sap_flush_sta, WorkInv
<1>2. PICK o \in Outcomes : Raises(o) BY DEF skw_recovery_sap_flush_sta
<1>3. /\ recFlags' \in [assert : BOOLEAN, chip : BOOLEAN] /\ recFlags'.chip = recFlags.chip
      /\ recFlags.assert => recFlags'.assert
  BY <1>2, Raised
<1>4. CASE /\ ToTell(recWork.i) /\ Told(recWork.i) /\ rd' = [rd EXCEPT !.peer[recWork.i] = "deauthed"]
           /\ recHost' = [recHost EXCEPT !.upper = @ \ {recWork.i}]
  BY <1>1, <1>2, <1>4, TellsStep
<1>5. CASE ~ToTell(recWork.i) /\ UNCHANGED <<rd, recHost, recGhost>>
  <2>1. recGhost' \in [forgotten : BOOLEAN, joined : SUBSET RecInsts, excused : SUBSET RecInsts, told : [RecInsts -> Nat]]
    BY <1>5 DEF RecTypeOK
  <2> QED BY <1>1, <1>3, <1>5, <2>1, PassesStep
<1>6. CASE recGhost' = [recGhost EXCEPT !.forgotten = TRUE] /\ UNCHANGED <<rd, recHost>>
  <2>1. /\ recGhost' \in [forgotten : BOOLEAN, joined : SUBSET RecInsts, excused : SUBSET RecInsts, told : [RecInsts -> Nat]]
        /\ recGhost'.joined = recGhost.joined /\ recGhost'.told = recGhost.told /\ recGhost'.forgotten
        /\ recGhost'.excused = recGhost.excused
    BY <1>6 DEF RecTypeOK
  <2> QED BY <1>1, <1>3, <1>6, <2>1, PassesStep
<1> QED BY <1>4, <1>5, <1>6 DEF skw_recovery_sap_flush_sta

(* A station's connection is told lost. *)
LEMMA skw_recovery_staStep ==
    ASSUME RecInv, recWork.pc = "recover", IfTypes[recWork.i] = "sta", skw_recovery_sta(recWork.i),
           UNCHANGED <<recNf, recCall, removal>>
    PROVE  RecInv'
<1> USE InterfaceNumbers DEF RecInv
<1>1. recWork.i \in RecInsts /\ NextInterface BY DEF WorkInv, skw_recovery_sta
<1>2. CASE ToTell(recWork.i)
  <2>1. PICK o \in Outcomes : Raises(o) /\ recFw' = IF o = "ok" THEN [recFw EXCEPT !.peer = @ \ {recWork.i}] ELSE recFw
    BY <1>2 DEF skw_recovery_sta
  <2>2. /\ Told(recWork.i) /\ rd' = [rd EXCEPT !.peer[recWork.i] = "deauthed"]
        /\ recHost' = [recHost EXCEPT !.upper = @ \ {recWork.i}]
    BY <1>2 DEF skw_recovery_sta
  <2>3. UNCHANGED recFw \/ (IfTypes[recWork.i] = "sta" /\ recFw' = [recFw EXCEPT !.peer = @ \ {recWork.i}])
    BY <2>1
  <2> QED BY <1>1, <1>2, <2>1, <2>2, <2>3, TellsStep
<1>3. CASE ~ToTell(recWork.i)
  <2>1. UNCHANGED <<recFw, recFlags, rd, recHost, recGhost>> BY <1>3 DEF skw_recovery_sta
  <2>2. recGhost' \in [forgotten : BOOLEAN, joined : SUBSET RecInsts, excused : SUBSET RecInsts, told : [RecInsts -> Nat]]
    BY <2>1 DEF RecTypeOK
  <2>3. recFlags' \in [assert : BOOLEAN, chip : BOOLEAN] BY <2>1 DEF RecTypeOK
  <2>4. recWork.i \notin recHost.ap BY DEF UsersInv, OfType
  <2> QED BY <1>1, <1>3, <2>1, <2>2, <2>3, <2>4, PassesStep
<1> QED BY <1>2, <1>3

(* An access point is started again, or not. *)
LEMMA skw_recovery_sapStep ==
    ASSUME RecInv, recWork.pc = "recover", IfTypes[recWork.i] = "ap", skw_recovery_sap(recWork.i),
           UNCHANGED <<recNf, recCall, removal>>
    PROVE  RecInv'
<1> USE InterfaceNumbers DEF RecInv
<1> DEFINE i == recWork.i
<1>1. i \in RecInsts /\ recWork.ret = 0 /\ recFlags.chip /\ UNCHANGED <<rd, recHost>> BY DEF WorkInv, skw_recovery_sap
<1>2. PICK o \in Outcomes :
        /\ Raises(o)
        /\ \/ /\ o = "ok" /\ i \in rd.param /\ recFw' = [recFw EXCEPT !.ap = @ \union {i}]
              /\ recWork' = [recWork EXCEPT !.pc = "flush"] /\ UNCHANGED recGhost
           \/ /\ ~(o = "ok" /\ i \in rd.param) /\ NextInterface
              /\ recGhost' = [recGhost EXCEPT !.forgotten = @ \/ ToTell(i),
                                              !.excused = IF o = "ok" THEN @ ELSE @ \union {i}]
              /\ UNCHANGED recFw
  BY DEF skw_recovery_sap
<1>3. /\ recFlags' \in [assert : BOOLEAN, chip : BOOLEAN] /\ recFlags'.chip = recFlags.chip
      /\ recFlags.assert => recFlags'.assert
  BY <1>2, Raised
<1>4. CASE /\ recFw' = [recFw EXCEPT !.ap = @ \union {i}]
           /\ recWork' = [recWork EXCEPT !.pc = "flush"] /\ UNCHANGED recGhost
  <2>1. /\ recFw' \in [alive : BOOLEAN, asked : BOOLEAN, dev : SUBSET RecInsts, ap : SUBSET RecInsts, peer : SUBSET RecInsts]
        /\ recFw'.alive = recFw.alive /\ recFw'.ap = recFw.ap \cup {i} /\ recFw'.peer = recFw.peer
    BY <1>1, <1>4 DEF RecTypeOK
  <2>2. /\ recWork' \in [pc : RecPcs, i : Nat \ {0}, ret : {0, 1}]
        /\ recWork'.pc = "flush" /\ recWork'.i = i /\ recWork'.ret = 0
    BY <1>1, <1>4 DEF RecTypeOK, RecPcs
  <2> HIDE DEF i
  <2>3. RecTypeOK' BY <1>1, <1>3, <1>4, <2>1, <2>2 DEF RecTypeOK
  <2>4. PeersInv' BY <1>1, <1>4 DEF PeersInv, ToTell
  <2>5. UsersInv' BY <1>1, <1>4 DEF UsersInv, OfType
  <2>6. WorkInv' BY <1>1, <1>3, <2>2 DEF WorkInv, i
  <2>7. ToldInv'
    <3>1. \A j \in RecInsts : /\ (Passed(j))' <=> Passed(j)
                              /\ (Restarted(j))' <=> (Passed(j) \/ j = i)
                              /\ Passed(j) => Restarted(j)
      BY <2>2 DEF Passed, Restarted, i
    <3>2. (Current)' <=> Current BY <2>1, <2>2 DEF Current
    <3> QED BY <1>1, <1>3, <1>4, <2>1, <3>1, <3>2 DEF ToldInv, ToTell
  <2> QED BY <2>3, <2>4, <2>5, <2>6, <2>7 DEF RecInv
<1>5. CASE /\ ~(o = "ok" /\ i \in rd.param) /\ NextInterface
           /\ recGhost' = [recGhost EXCEPT !.forgotten = @ \/ ToTell(i), !.excused = IF o = "ok" THEN @ ELSE @ \union {i}]
           /\ UNCHANGED recFw
  <2> DEFINE f == recGhost.forgotten \/ ToTell(i)
             e == IF o = "ok" THEN recGhost.excused ELSE recGhost.excused \cup {i}
  <2>1. recGhost' = [recGhost EXCEPT !.forgotten = f, !.excused = e] BY <1>5 DEF RecTypeOK
  <2>2. f \in BOOLEAN /\ (ToTell(i) => f) /\ (recGhost.forgotten => f) OBVIOUS
  <2>3. e \in SUBSET RecInsts /\ recGhost.excused \subseteq e BY <1>1 DEF RecTypeOK
  <2>4. i \in recHost.ap => i \in e BY <1>5 DEF UsersInv
  <2> HIDE DEF f, e
  <2>5. /\ recGhost' \in [forgotten : BOOLEAN, joined : SUBSET RecInsts, excused : SUBSET RecInsts, told : [RecInsts -> Nat]]
        /\ recGhost'.joined = recGhost.joined /\ recGhost'.told = recGhost.told /\ recGhost'.forgotten = f
        /\ recGhost'.excused = e
    BY <2>1, <2>2, <2>3 DEF RecTypeOK
  <2> QED BY <1>1, <1>3, <1>5, <2>2, <2>3, <2>4, <2>5, PassesStep
<1> QED BY <1>2, <1>4, <1>5

(* One interface is recovered. *)
LEMMA RecoversStep ==
    ASSUME RecInv, Recovers
    PROVE  RecInv'
<1> USE InterfaceNumbers DEF RecInv
<1>1. recWork.pc = "recover" /\ recWork.i \in RecInsts /\ UNCHANGED <<recNf, recCall, removal>>
  BY DEF Recovers, WorkInv
<1>2. CASE IfTypes[recWork.i] = "sta" /\ skw_recovery_sta(recWork.i) BY <1>1, <1>2, skw_recovery_staStep
<1>3. CASE IfTypes[recWork.i] = "ap" /\ skw_recovery_sap(recWork.i) BY <1>1, <1>3, skw_recovery_sapStep
<1>4. CASE IfTypes[recWork.i] = "dev" /\ NextInterface /\ UNCHANGED <<recFw, recFlags, rd, recHost, recGhost>>
  <2>1. recGhost' \in [forgotten : BOOLEAN, joined : SUBSET RecInsts, excused : SUBSET RecInsts, told : [RecInsts -> Nat]]
    BY <1>4 DEF RecTypeOK
  <2>2. recFlags' \in [assert : BOOLEAN, chip : BOOLEAN] BY <1>4 DEF RecTypeOK
  <2>3. recWork.i \notin recHost.ap /\ recWork.i \notin recHost.upper BY <1>4 DEF UsersInv, OfType
  <2> QED BY <1>1, <1>4, <2>1, <2>2, <2>3, PassesStep
<1> QED BY <1>2, <1>3, <1>4 DEF Recovers


(* START_AP is answered to its user. *)
LEMMA StartApAnsweredStep ==
    ASSUME RecInv, StartApAnswered
    PROVE  RecInv'
<1> USE InterfaceNumbers DEF RecInv
<1> DEFINE c == recCall
<1>1. /\ c \in RecInsts /\ recCall' = 0 /\ UNCHANGED <<recWork, recNf, removal>> /\ removal = "no"
      /\ c \in OfType("ap") /\ c \notin recHost.ap /\ c \in rd.param /\ c \notin recHost.upper
  BY DEF StartApAnswered, RecTypeOK, UsersInv, OfType
<1>2. PICK o : /\ Raises(o) /\ (o = "ok" => ~recFlags.assert)
               /\ \/ /\ o = "ok" /\ recFw' = [recFw EXCEPT !.ap = @ \union {c}]
                     /\ recHost' = [recHost EXCEPT !.ap = @ \union {c}] /\ UNCHANGED rd
                     /\ recGhost' = [recGhost EXCEPT !.excused = @ \ {c}]
                  \/ /\ o # "ok" /\ rd' = [rd EXCEPT !.param = @ \ {c}, !.map = @ \ {c}]
                     /\ UNCHANGED <<recFw, recHost, recGhost>>
  BY OutcomeSet DEF StartApAnswered
<1>3. /\ recFlags' \in [assert : BOOLEAN, chip : BOOLEAN] /\ recFlags'.chip = recFlags.chip
      /\ recFlags.assert => recFlags'.assert
  BY <1>2, Raised
<1>4. WorkInv' BY <1>1, <1>3 DEF WorkInv
<1>5. \A j \in RecInsts : ((Passed(j))' <=> Passed(j)) /\ ((Restarted(j))' <=> Restarted(j))
  BY <1>1, <1>3 DEF Passed, Restarted
<1>6. CASE /\ recFw' = [recFw EXCEPT !.ap = @ \union {c}] /\ recHost' = [recHost EXCEPT !.ap = @ \union {c}] /\ UNCHANGED rd
           /\ recGhost' = [recGhost EXCEPT !.excused = @ \ {c}]
  <2>1. /\ recFw' \in [alive : BOOLEAN, asked : BOOLEAN, dev : SUBSET RecInsts, ap : SUBSET RecInsts, peer : SUBSET RecInsts]
        /\ recFw'.alive = recFw.alive /\ recFw'.ap = recFw.ap \cup {c} /\ recFw'.peer = recFw.peer
    BY <1>1, <1>6 DEF RecTypeOK
  <2>2. /\ recHost' \in [live : SUBSET RecInsts, upper : SUBSET RecInsts, ap : SUBSET RecInsts, ifaces : SUBSET RecInsts]
        /\ recHost'.live = recHost.live /\ recHost'.upper = recHost.upper
        /\ recHost'.ap = recHost.ap \cup {c} /\ recHost'.ifaces = recHost.ifaces
    BY <1>1, <1>6 DEF RecTypeOK
  <2>3. /\ recGhost' \in [forgotten : BOOLEAN, joined : SUBSET RecInsts, excused : SUBSET RecInsts, told : [RecInsts -> Nat]]
        /\ recGhost'.forgotten = recGhost.forgotten /\ recGhost'.joined = recGhost.joined
        /\ recGhost'.told = recGhost.told /\ recGhost'.excused = recGhost.excused \ {c}
    BY <1>6 DEF RecTypeOK
  <2> HIDE DEF c
  <2>4. RecTypeOK' BY <1>1, <1>3, <1>6, <2>1, <2>2, <2>3 DEF RecTypeOK
  <2>5. PeersInv' BY <1>1, <1>6, <2>2, <2>3 DEF PeersInv, ToTell
  <2>6. UsersInv' BY <1>1, <1>6, <2>2, <2>3 DEF UsersInv, OfType
  <2>7. ToldInv'
    <3>1. (Current)' <=> Current BY <1>1, <2>1 DEF Current
    <3> QED BY <1>1, <1>3, <1>5, <1>6, <2>1, <2>2, <2>3, <3>1 DEF ToldInv, ToTell
  <2> QED BY <1>4, <2>4, <2>5, <2>6, <2>7 DEF RecInv
<1>7. CASE rd' = [rd EXCEPT !.param = @ \ {c}, !.map = @ \ {c}] /\ UNCHANGED <<recFw, recHost, recGhost>>
  <2>1. /\ rd' \in [peer : [RecInsts -> {"none", "held", "deauthed"}], map : SUBSET RecInsts, param : SUBSET RecInsts]
        /\ rd'.map = rd.map \ {c} /\ rd'.param = rd.param \ {c} /\ rd'.peer = rd.peer
    BY <1>7 DEF RecTypeOK
  <2> HIDE DEF c
  <2>2. \A j \in RecInsts : (ToTell(j))' <=> ToTell(j) /\ j # c BY <2>1 DEF ToTell
  <2>4. RecTypeOK' BY <1>1, <1>3, <1>7, <2>1 DEF RecTypeOK
  <2>5. PeersInv' BY <1>1, <1>7, <2>2 DEF PeersInv
  <2>6. UsersInv' BY <1>1, <1>7, <2>1 DEF UsersInv, OfType
  <2>7. ToldInv'
    <3>1. (Current)' <=> Current BY <1>1, <1>7 DEF Current
    <3> QED BY <1>1, <1>3, <1>5, <1>7, <2>2, <3>1 DEF ToldInv, RecTypeOK
  <2> QED BY <1>4, <2>4, <2>5, <2>6, <2>7 DEF RecInv
<1> QED BY <1>2, <1>6, <1>7

(* A connection is made, perhaps during a recovery. *)
LEMMA ConnectsStep ==
    ASSUME RecInv, NEW i \in RecInsts, Connects(i)
    PROVE  RecInv'
<1> USE InterfaceNumbers DEF RecInv
<1>1. /\ UNCHANGED <<recFlags, rd, recWork, recNf, recCall, removal>> /\ removal = "no" /\ recFw.alive
      /\ i \notin recHost.upper /\ (i \in OfType("sta") \/ i \in recHost.ap)
  BY DEF Connects, UserCalls, Serves
<1>2. /\ recHost' \in [live : SUBSET RecInsts, upper : SUBSET RecInsts, ap : SUBSET RecInsts, ifaces : SUBSET RecInsts]
      /\ recHost'.live = recHost.live \cup {i} /\ recHost'.upper = recHost.upper \cup {i}
      /\ recHost'.ap = recHost.ap /\ recHost'.ifaces = recHost.ifaces
  <2> DEFINE l == recHost.live \cup {i}
             u == recHost.upper \cup {i}
  <2>1. recHost' = [recHost EXCEPT !.live = l, !.upper = u] BY DEF Connects, RecTypeOK
  <2>2. l \in SUBSET RecInsts /\ u \in SUBSET RecInsts BY DEF RecTypeOK
  <2>3. recHost'.live = l /\ recHost'.upper = u BY <2>1 DEF RecTypeOK
  <2> HIDE DEF l, u
  <2>4. /\ recHost' \in [live : SUBSET RecInsts, upper : SUBSET RecInsts, ap : SUBSET RecInsts, ifaces : SUBSET RecInsts]
        /\ recHost'.ap = recHost.ap /\ recHost'.ifaces = recHost.ifaces
    BY <2>1, <2>2 DEF RecTypeOK
  <2> QED BY <2>3, <2>4 DEF l, u
<1>3. /\ recFw' \in [alive : BOOLEAN, asked : BOOLEAN, dev : SUBSET RecInsts, ap : SUBSET RecInsts, peer : SUBSET RecInsts]
      /\ recFw'.alive = recFw.alive /\ recFw'.ap = recFw.ap /\ recFw'.peer = recFw.peer \cup {i}
  <2>1. recFw' = [recFw EXCEPT !.peer = @ \union {i}] BY DEF Connects
  <2> QED BY <2>1 DEF RecTypeOK
<1>4. /\ recGhost' \in [forgotten : BOOLEAN, joined : SUBSET RecInsts, excused : SUBSET RecInsts, told : [RecInsts -> Nat]]
      /\ recGhost'.forgotten = recGhost.forgotten /\ recGhost'.excused = recGhost.excused
      /\ recGhost.joined \subseteq recGhost'.joined /\ (recFlags.chip => i \in recGhost'.joined)
      /\ \A j \in RecInsts : recGhost'.told[j] = IF j = i THEN 0 ELSE recGhost.told[j]
  <2> DEFINE t == [recGhost.told EXCEPT ![i] = 0]
             J == IF recFlags.chip THEN recGhost.joined \cup {i} ELSE recGhost.joined
  <2>1. recGhost' = [recGhost EXCEPT !.told = t, !.joined = J] BY DEF Connects, RecTypeOK
  <2>2. t \in [RecInsts -> Nat] /\ \A j \in RecInsts : t[j] = IF j = i THEN 0 ELSE recGhost.told[j] BY DEF RecTypeOK
  <2>3. J \in SUBSET RecInsts /\ recGhost.joined \subseteq J /\ (recFlags.chip => i \in J) BY DEF RecTypeOK
  <2> HIDE DEF t, J
  <2> QED BY <2>1, <2>2, <2>3 DEF RecTypeOK
<1>5. ~ToTell(i) BY <1>1 DEF PeersInv
<1>6. RecTypeOK'
  <2>1. /\ recFlags' \in [assert : BOOLEAN, chip : BOOLEAN] /\ rd' \in [peer : [RecInsts -> {"none", "held", "deauthed"}], map : SUBSET RecInsts, param : SUBSET RecInsts] /\ recWork' \in [pc : RecPcs, i : Nat \ {0}, ret : {0, 1}]
        /\ recNf' \in {"none", "assert", "cancelling", "off", "ready"} /\ recCall' \in RecInsts \cup {0}
        /\ removal' \in {"no", "unbound", "locked", "done"}
    BY <1>1 DEF RecTypeOK
  <2> QED BY <1>2, <1>3, <1>4, <2>1, Zenon DEF RecTypeOK
<1>7. PeersInv' BY <1>1, <1>2, <1>4, <1>5 DEF PeersInv, ToTell, RecTypeOK
<1>8. UsersInv' BY <1>1, <1>2, <1>4 DEF UsersInv, OfType
<1>9. WorkInv' BY <1>1 DEF WorkInv
<1>10. ToldInv'
  <2>1. \A j \in RecInsts : (Passed(j))' <=> Passed(j) BY <1>1 DEF Passed
  <2>4. \A j \in RecInsts : (Restarted(j))' <=> Restarted(j) BY <1>1 DEF Restarted, Passed
  <2>2. (Current)' <=> Current BY <1>1, <1>3 DEF Current
  <2>3. \A j \in RecInsts : (ToTell(j))' <=> ToTell(j) BY <1>1 DEF ToTell
  <2> QED BY <1>1, <1>2, <1>3, <1>4, <2>1, <2>2, <2>3, <2>4 DEF ToldInv, RecTypeOK
<1> QED BY <1>6, <1>7, <1>8, <1>9, <1>10 DEF RecInv

(* An access point is stopped, or STOP_AP fails. *)
LEMMA RecStopApStep ==
    ASSUME RecInv, NEW i \in RecInsts, RecStopAp(i)
    PROVE  RecInv'
<1> USE InterfaceNumbers DEF RecInv
<1>1. UNCHANGED <<recWork, recNf, recCall, removal>> /\ removal = "no" /\ i \in recHost.ap /\ recCall = 0
  BY DEF RecStopAp, UserCalls
<1>2. PICK o \in Outcomes :
        /\ Raises(o)
        /\ rd' = [rd EXCEPT !.param = @ \ {i}, !.map = @ \ {i}]
        /\ recHost' = [recHost EXCEPT !.live = @ \ {i}, !.upper = @ \ {i}, !.ap = IF o = "ok" THEN @ \ {i} ELSE @]
        /\ recFw' = IF o = "ok" THEN [recFw EXCEPT !.ap = @ \ {i}, !.peer = @ \ {i}] ELSE recFw
        /\ recGhost' = [recGhost EXCEPT !.excused = @ \union {i}]
  BY DEF RecStopAp
<1>3. /\ recFlags' \in [assert : BOOLEAN, chip : BOOLEAN] /\ recFlags'.chip = recFlags.chip
      /\ recFlags.assert => recFlags'.assert
  BY <1>2, Raised
<1>4. /\ rd' \in [peer : [RecInsts -> {"none", "held", "deauthed"}], map : SUBSET RecInsts, param : SUBSET RecInsts]
      /\ rd'.map = rd.map \ {i} /\ rd'.param = rd.param \ {i} /\ rd'.peer = rd.peer
  BY <1>2 DEF RecTypeOK
<1>5. /\ recHost' \in [live : SUBSET RecInsts, upper : SUBSET RecInsts, ap : SUBSET RecInsts, ifaces : SUBSET RecInsts]
      /\ recHost'.live = recHost.live \ {i} /\ recHost'.upper = recHost.upper \ {i}
      /\ recHost'.ap \in {recHost.ap, recHost.ap \ {i}} /\ recHost'.ifaces = recHost.ifaces
  <2> DEFINE a == IF o = "ok" THEN recHost.ap \ {i} ELSE recHost.ap
  <2>1. recHost' = [recHost EXCEPT !.live = @ \ {i}, !.upper = @ \ {i}, !.ap = a] BY <1>2 DEF RecTypeOK
  <2>2. a \in SUBSET RecInsts /\ a \in {recHost.ap, recHost.ap \ {i}} BY DEF RecTypeOK
  <2> HIDE DEF a
  <2> QED BY <2>1, <2>2 DEF RecTypeOK
<1>6. /\ recFw' \in [alive : BOOLEAN, asked : BOOLEAN, dev : SUBSET RecInsts, ap : SUBSET RecInsts, peer : SUBSET RecInsts]
      /\ recFw'.alive = recFw.alive /\ recFw.ap \ {i} \subseteq recFw'.ap /\ recFw.peer \ {i} \subseteq recFw'.peer
  <2>1. CASE o = "ok" BY <1>2, <2>1 DEF RecTypeOK
  <2>2. CASE o # "ok" BY <1>2, <2>2 DEF RecTypeOK
  <2> QED BY <2>1, <2>2
<1>7. /\ recGhost' \in [forgotten : BOOLEAN, joined : SUBSET RecInsts, excused : SUBSET RecInsts, told : [RecInsts -> Nat]]
      /\ recGhost'.forgotten = recGhost.forgotten /\ recGhost'.joined = recGhost.joined
      /\ recGhost'.told = recGhost.told /\ recGhost'.excused = recGhost.excused \cup {i}
  BY <1>2 DEF RecTypeOK
<1>8. \A j \in RecInsts : (ToTell(j))' <=> ToTell(j) /\ j # i BY <1>4 DEF ToTell
<1>9. RecTypeOK' BY <1>1, <1>3, <1>4, <1>5, <1>6, <1>7 DEF RecTypeOK
<1>10. PeersInv' BY <1>1, <1>5, <1>7, <1>8 DEF PeersInv
<1>11. UsersInv' BY <1>1, <1>4, <1>5, <1>7 DEF UsersInv, OfType
<1>12. WorkInv' BY <1>1, <1>3 DEF WorkInv
<1>13. ToldInv'
  <2>1. \A j \in RecInsts : (Passed(j))' <=> Passed(j) BY <1>1 DEF Passed
  <2>4. \A j \in RecInsts : (Restarted(j))' <=> Restarted(j) BY <1>1, <1>3 DEF Restarted, Passed
  <2>2. (Current)' <=> Current BY <1>1, <1>6 DEF Current
  <2> QED BY <1>1, <1>3, <1>5, <1>6, <1>7, <1>8, <2>1, <2>2, <2>4 DEF ToldInv, RecTypeOK
<1> QED BY <1>9, <1>10, <1>11, <1>12, <1>13 DEF RecInv

(* The chip crashes. *)
LEMMA CrashStep ==
    ASSUME RecInv, Crash
    PROVE  RecInv'
<1> USE InterfaceNumbers DEF RecInv
<1>1. RecTypeOK' BY ZenonT(30) DEF RecTypeOK, RecPcs, Crash, Dead, Booted
<1>2. PeersInv' BY DEF RecTypeOK, PeersInv, UsersInv, WorkInv, ToTell, Crash, Dead, Booted
<1>3. UsersInv' BY DEF RecTypeOK, UsersInv, WorkInv, OfType, Crash, Dead, Booted
<1>4. WorkInv' BY DEF RecTypeOK, UsersInv, WorkInv, Crash, Dead, Booted
<1>5. ToldInv' BY DEF RecTypeOK, PeersInv, UsersInv, WorkInv, ToldInv, ToTell, Current, Passed, Restarted, OfType, Crash, Dead, Booted
<1> QED BY <1>1, <1>2, <1>3, <1>4, <1>5 DEF RecInv

(* Commands are blocked. *)
LEMMA skw_bsp_notifier_assertStep ==
    ASSUME RecInv, skw_bsp_notifier_assert
    PROVE  RecInv'
<1> USE InterfaceNumbers DEF RecInv
<1>1. RecTypeOK' BY ZenonT(30) DEF RecTypeOK, RecPcs, skw_bsp_notifier_assert
<1>2. PeersInv' BY DEF RecTypeOK, PeersInv, UsersInv, WorkInv, ToTell, skw_bsp_notifier_assert
<1>3. UsersInv' BY DEF RecTypeOK, UsersInv, WorkInv, OfType, skw_bsp_notifier_assert
<1>4. WorkInv' BY DEF RecTypeOK, UsersInv, WorkInv, skw_bsp_notifier_assert
<1>5. ToldInv' BY DEF RecTypeOK, PeersInv, UsersInv, WorkInv, ToldInv, ToTell, Current, Passed, Restarted, OfType, skw_bsp_notifier_assert
<1> QED BY <1>1, <1>2, <1>3, <1>4, <1>5 DEF RecInv

(* The work is cancelled. *)
LEMMA CancelledStep ==
    ASSUME RecInv, Cancelled
    PROVE  RecInv'
<1> USE InterfaceNumbers DEF RecInv
<1>1. RecTypeOK' BY DEF RecTypeOK, RecPcs, Cancelled, RecIdle
<1>2. PeersInv' BY DEF RecTypeOK, PeersInv, UsersInv, WorkInv, ToTell, Cancelled, RecIdle
<1>3. UsersInv' BY DEF RecTypeOK, UsersInv, WorkInv, OfType, Cancelled, RecIdle
<1>4. WorkInv' BY DEF RecTypeOK, UsersInv, WorkInv, Cancelled, RecIdle
<1>5. ToldInv' BY DEF RecTypeOK, PeersInv, UsersInv, WorkInv, ToldInv, ToTell, Current, Passed, Restarted, OfType, Cancelled, RecIdle
<1> QED BY <1>1, <1>2, <1>3, <1>4, <1>5 DEF RecInv

(* The chip boots. *)
LEMMA ChipBootsStep ==
    ASSUME RecInv, ChipBoots
    PROVE  RecInv'
<1> USE InterfaceNumbers DEF RecInv
<1>1. RecTypeOK' BY DEF RecTypeOK, RecPcs, ChipBoots, Booted
<1>2. PeersInv' BY DEF RecTypeOK, PeersInv, UsersInv, WorkInv, ToTell, ChipBoots, Booted
<1>3. UsersInv' BY DEF RecTypeOK, UsersInv, WorkInv, OfType, ChipBoots, Booted
<1>4. WorkInv' BY DEF RecTypeOK, UsersInv, WorkInv, ChipBoots, Booted
<1>5. ToldInv' BY DEF RecTypeOK, PeersInv, UsersInv, WorkInv, ToldInv, ToTell, Current, Passed, Restarted, OfType, ChipBoots, Booted
<1> QED BY <1>1, <1>2, <1>3, <1>4, <1>5 DEF RecInv

(* The work is queued. *)
LEMMA skw_bsp_notifier_readyStep ==
    ASSUME RecInv, skw_bsp_notifier_ready
    PROVE  RecInv'
<1> USE InterfaceNumbers DEF RecInv
<1>1. RecTypeOK' BY DEF RecTypeOK, RecPcs, skw_bsp_notifier_ready
<1>2. PeersInv' BY DEF RecTypeOK, PeersInv, UsersInv, WorkInv, ToTell, skw_bsp_notifier_ready
<1>3. UsersInv' BY DEF RecTypeOK, UsersInv, WorkInv, OfType, skw_bsp_notifier_ready
<1>4. WorkInv' BY DEF RecTypeOK, UsersInv, WorkInv, skw_bsp_notifier_ready
<1>5. ToldInv' BY DEF RecTypeOK, PeersInv, UsersInv, WorkInv, ToldInv, ToTell, Current, Passed, Restarted, OfType, skw_bsp_notifier_ready
<1> QED BY <1>1, <1>2, <1>3, <1>4, <1>5 DEF RecInv

(* The work starts. *)
LEMMA WorkStartsStep ==
    ASSUME RecInv, WorkStarts
    PROVE  RecInv'
<1> USE InterfaceNumbers DEF RecInv
<1>1. RecTypeOK' BY ZenonT(30) DEF RecTypeOK, RecPcs, WorkStarts
<1>2. PeersInv' BY DEF RecTypeOK, PeersInv, UsersInv, WorkInv, ToTell, WorkStarts
<1>3. UsersInv' BY DEF RecTypeOK, UsersInv, WorkInv, OfType, WorkStarts
<1>4. WorkInv' BY DEF RecTypeOK, UsersInv, WorkInv, WorkStarts
<1>5. ToldInv' BY DEF RecTypeOK, PeersInv, UsersInv, WorkInv, ToldInv, ToTell, Current, Passed, Restarted, OfType, WorkStarts
<1> QED BY <1>1, <1>2, <1>3, <1>4, <1>5 DEF RecInv

(* An interface that is gone is skipped. *)
LEMMA SkipsInterfaceStep ==
    ASSUME RecInv, SkipsInterface
    PROVE  RecInv'
<1> USE InterfaceNumbers DEF RecInv
<1>1. RecTypeOK' BY DEF RecTypeOK, RecPcs, SkipsInterface
<1>2. PeersInv' BY DEF RecTypeOK, PeersInv, UsersInv, WorkInv, ToTell, SkipsInterface
<1>3. UsersInv' BY DEF RecTypeOK, UsersInv, WorkInv, OfType, SkipsInterface
<1>4. WorkInv' BY DEF RecTypeOK, UsersInv, WorkInv, SkipsInterface
<1>5. ToldInv' BY DEF RecTypeOK, PeersInv, UsersInv, WorkInv, ToldInv, ToTell, Current, Passed, Restarted, OfType, SkipsInterface
<1> QED BY <1>1, <1>2, <1>3, <1>4, <1>5 DEF RecInv

(* The loop ends. *)
LEMMA LoopEndsStep ==
    ASSUME RecInv, LoopEnds
    PROVE  RecInv'
<1> USE InterfaceNumbers DEF RecInv
<1>1. RecTypeOK' BY DEF RecTypeOK, RecPcs, LoopEnds, Opening
<1>2. PeersInv' BY DEF RecTypeOK, PeersInv, UsersInv, WorkInv, ToTell, LoopEnds, Opening
<1>3. UsersInv' BY DEF RecTypeOK, UsersInv, WorkInv, OfType, LoopEnds, Opening
<1>4. WorkInv' BY DEF RecTypeOK, UsersInv, WorkInv, LoopEnds, Opening
<1>5. ToldInv' BY DEF RecTypeOK, PeersInv, UsersInv, WorkInv, ToldInv, ToTell, Current, Passed, Restarted, OfType, LoopEnds, Opening
<1> QED BY <1>1, <1>2, <1>3, <1>4, <1>5 DEF RecInv

(* The driver is removed. *)
LEMMA skw_drv_removeStep ==
    ASSUME RecInv, __skw_drv_remove
    PROVE  RecInv'
<1> USE InterfaceNumbers DEF RecInv
<1>1. RecTypeOK' BY DEF RecTypeOK, RecPcs, __skw_drv_remove
<1>2. PeersInv' BY DEF RecTypeOK, PeersInv, UsersInv, WorkInv, ToTell, __skw_drv_remove
<1>3. UsersInv' BY DEF RecTypeOK, UsersInv, WorkInv, OfType, __skw_drv_remove
<1>4. WorkInv' BY DEF RecTypeOK, UsersInv, WorkInv, __skw_drv_remove
<1>5. ToldInv' BY DEF RecTypeOK, PeersInv, UsersInv, WorkInv, ToldInv, ToTell, Current, Passed, Restarted, OfType, __skw_drv_remove
<1> QED BY <1>1, <1>2, <1>3, <1>4, <1>5 DEF RecInv

(* The recovery's data go. *)
LEMMA skw_recovery_deinitStep ==
    ASSUME RecInv, skw_recovery_deinit
    PROVE  RecInv'
<1> USE InterfaceNumbers DEF RecInv
<1>1. RecTypeOK' BY DEF RecTypeOK, RecPcs, skw_recovery_deinit
<1>2. PeersInv' BY DEF RecTypeOK, PeersInv, UsersInv, WorkInv, ToTell, skw_recovery_deinit
<1>3. UsersInv' BY DEF RecTypeOK, UsersInv, WorkInv, OfType, skw_recovery_deinit
<1>4. WorkInv' BY DEF RecTypeOK, UsersInv, WorkInv, skw_recovery_deinit
<1>5. ToldInv' BY DEF RecTypeOK, PeersInv, UsersInv, WorkInv, ToldInv, ToTell, Current, Passed, Restarted, OfType, skw_recovery_deinit
<1> QED BY <1>1, <1>2, <1>3, <1>4, <1>5 DEF RecInv

(* The work has ended and its data are freed. *)
LEMMA DeinitEndsStep ==
    ASSUME RecInv, DeinitEnds
    PROVE  RecInv'
<1> USE InterfaceNumbers DEF RecInv
<1>1. RecTypeOK' BY DEF RecTypeOK, RecPcs, DeinitEnds, RecIdle
<1>2. PeersInv' BY DEF RecTypeOK, PeersInv, UsersInv, WorkInv, ToTell, DeinitEnds, RecIdle
<1>3. UsersInv' BY DEF RecTypeOK, UsersInv, WorkInv, OfType, DeinitEnds, RecIdle
<1>4. WorkInv' BY DEF RecTypeOK, UsersInv, WorkInv, DeinitEnds, RecIdle
<1>5. ToldInv' BY DEF RecTypeOK, PeersInv, UsersInv, WorkInv, ToldInv, ToTell, Current, Passed, Restarted, OfType, DeinitEnds, RecIdle
<1> QED BY <1>1, <1>2, <1>3, <1>4, <1>5 DEF RecInv

(* The parameters of an access point are kept. *)
LEMMA skw_recovery_data_updateStep ==
    ASSUME RecInv, NEW i \in RecInsts, skw_recovery_data_update(i)
    PROVE  RecInv'
<1> USE InterfaceNumbers DEF RecInv
<1>1. RecTypeOK' BY DEF RecTypeOK, RecPcs, skw_recovery_data_update, UserCalls
<1>2. PeersInv' BY DEF RecTypeOK, PeersInv, UsersInv, WorkInv, ToTell, skw_recovery_data_update, UserCalls
<1>3. UsersInv' BY DEF RecTypeOK, UsersInv, WorkInv, OfType, skw_recovery_data_update, UserCalls
<1>4. WorkInv' BY DEF RecTypeOK, UsersInv, WorkInv, skw_recovery_data_update, UserCalls
<1>5. ToldInv' BY DEF RecTypeOK, PeersInv, UsersInv, WorkInv, ToldInv, ToTell, Current, Passed, Restarted, OfType, skw_recovery_data_update, UserCalls
<1> QED BY <1>1, <1>2, <1>3, <1>4, <1>5 DEF RecInv


(* Every step keeps the invariant. *)
LEMMA RecStep == RecInv /\ [RecNext]_RecVars => RecInv'
<1> SUFFICES ASSUME RecInv, [RecNext]_RecVars PROVE RecInv' OBVIOUS
<1>1. CASE UNCHANGED RecVars
  BY <1>1 DEF RecVars, RecInv, RecTypeOK, PeersInv, UsersInv, WorkInv, ToldInv, ToTell, Current, Passed, Restarted
<1>2. CASE RecoveryWork
  BY <1>2, WorkStartsStep, skw_recovery_prepareStep, RestartStep, SkipsInterfaceStep, LoopEndsStep, OpensInterfaceStep,
     RecoversStep, skw_recovery_sap_flush_staStep, WorkEndsStep DEF RecoveryWork
<1>3. CASE \E i \in RecInsts : Connects(i) \/ skw_recovery_data_update(i) \/ RecStopAp(i)
  BY <1>3, ConnectsStep, skw_recovery_data_updateStep, RecStopApStep
<1>4. CASE \/ Crash \/ skw_bsp_notifier_assert \/ Cancelled \/ ChipBoots \/ skw_bsp_notifier_ready
           \/ StartApAnswered \/ __skw_drv_remove \/ skw_recovery_deinit \/ DeinitEnds
  BY <1>4, CrashStep, skw_bsp_notifier_assertStep, CancelledStep, ChipBootsStep, skw_bsp_notifier_readyStep,
     StartApAnsweredStep, skw_drv_removeStep, skw_recovery_deinitStep, DeinitEndsStep
<1> QED BY <1>1, <1>2, <1>3, <1>4 DEF RecNext

(* What a settled driver owes user space follows from the invariant: a recovery that failed leaves FW_CHIP_RECOVERY
   set and the chip asserted, so once neither is the case nothing is put aside any more. *)
LEMMA RecInvSafe == RecInv => RecoverySafe
<1> SUFFICES ASSUME RecInv PROVE RecoverySafe OBVIOUS
<1> USE InterfaceNumbers DEF RecInv
<1>1. RecoveryTellsOnce BY DEF RecoveryTellsOnce, PeersInv
<1>2. ASSUME RecSettled, ~recGhost.forgotten
      PROVE  /\ ~recFlags.chip /\ Current /\ recHost.upper \subseteq recHost.live
             /\ \A j \in RecInsts : Restarted(j)
  <2>1. ~recFlags.chip BY <1>2 DEF RecSettled, WorkInv
  <2>2. Current BY <1>2 DEF RecSettled, Current
  <2> QED BY <1>2, <2>1, <2>2 DEF RecSettled, ToldInv, Restarted
<1>3. RecoveryTells BY <1>2 DEF RecoveryTells, ToldInv
<1>4. RecoveryApBack BY <1>2 DEF RecoveryApBack, ToldInv, RecSettled, RecTypeOK
<1> QED BY <1>1, <1>3, <1>4 DEF RecoverySafe

(* The recovery's invariant holds in every reachable state, for every list of interfaces and any number of crashes,
   refusals and user calls (skw_recovery.c). *)
THEOREM RecoveryInvariance == RecSpec => []RecInv
<1>1. RecInit => RecInv BY RecInitInv
<1>2. RecInv /\ [RecNext]_RecVars => RecInv' BY RecStep
<1> QED BY <1>1, <1>2, PTL DEF RecSpec

(* After any sequence of crashes and failed recoveries user space is told of every lost peer, never twice, and every
   access point it believes in is started again (skw_recovery_work). *)
THEOREM RecoverySafety == RecSpec => []RecoverySafe
<1>1. RecSpec => []RecInv BY RecoveryInvariance
<1>2. RecInv => RecoverySafe BY RecInvSafe
<1> QED BY <1>1, <1>2, PTL

(***************************************************************************)
(* The station.                                                            *)
(***************************************************************************)
(* What went past the attempt it was meant for. *)
Astrays == {"elsewhere", "late", "moved", "silent", "kept"}

(* The types of its state, of the frames and of the steps of a call. *)
MaybeBss == Bss \cup {None}
StaOps == {"told_left", "unjoin", "join", "auth", "assoc", "leave", "told_if_report", "timed_out", "auth_frame", "quiet"}
StaFrames == [kind : {"auth", "assoc", "deauth", "discon"}, bss : MaybeBss, ok : BOOLEAN, confirm : BOOLEAN]

StaCalls == [op : StaOps, bss : MaybeBss, confirm : BOOLEAN]
StaRecords ==
    [sm : {"NONE", "AUTHING", "AUTHED", "ASSOCING", "ASSOCED"}, bss : MaybeBss, peer : MaybeBss,
     entry : MaybeBss, cbss : MaybeBss, carrier : BOOLEAN, timer : BOOLEAN, work : BOOLEAN,
     age : 0 .. 2, retry : Nat, report : BOOLEAN, confirm : BOOLEAN]
UpperRecords == [wait : {None, "auth", "assoc"}, authed : MaybeBss, conn : MaybeBss]
FwRecords == [bss : MaybeBss, asked : {None, "auth", "assoc"}]

StaTypeOK ==
    /\ sta \in StaRecords
    /\ todo \in [{"user", "event"} -> Seq(StaCalls)]
    /\ wdev_lock \in {"user", "event", None}
    /\ evq \in Seq(StaFrames)
    /\ fw \in FwRecords
    /\ upper \in UpperRecords
    /\ crossed \in BOOLEAN /\ astray \subseteq Astrays

(* cfg80211 believes in a connection with b at most; nothing is known of it after a silent reassociation. *)
Believed(b) == "moved" \in astray \/ upper.conn \in {None, b}

(* The peer context follows the BSS, and only the peer may transmit: so even in the middle of a call.
   An association under way has no connection beside it. *)
Paired ==
    /\ sta.bss = sta.peer /\ sta.entry \in {None, sta.peer}
    /\ sta.cbss # None => Believed(None)

(* Between calls. *)
Quiet ==
    /\ sta.sm # "NONE" => sta.peer # None /\ sta.report
    /\ sta.sm = "ASSOCED" => sta.entry = sta.peer /\ sta.carrier
    /\ Believed(sta.peer) /\ (Believed(None) \/ sta.sm = "ASSOCED")
    /\ sta.sm \in {"AUTHING", "ASSOCING"} => upper.wait # None

(* What a call has still to do, and the state it is in then. *)
Asks == {"auth", "assoc"}

Moves(p) ==
    \/ \E s, b \in MaybeBss :
          /\ p = <<Op("told_left", s), Op("unjoin", s), Op("join", b), Op("auth", b)>>
          /\ sta.sm = "NONE" /\ sta.peer = s /\ s # None /\ b # None /\ Believed(s) /\ upper.wait # None
    \/ \E s, b \in MaybeBss, ask \in Asks :
          /\ p = <<Op("unjoin", s), Op("join", b), Op(ask, b)>>
          /\ sta.sm = "NONE" /\ sta.peer = s /\ s # None /\ b # None /\ Believed(None) /\ upper.wait # None
          /\ ask = "assoc" => sta.report
    \/ \E b \in MaybeBss, ask \in Asks :
          /\ p = <<Op("join", b), Op(ask, b)>>
          /\ sta.sm = "NONE" /\ sta.peer = None /\ b # None /\ Believed(None) /\ upper.wait # None
          /\ ask = "assoc" => sta.report
    \/ \E b \in MaybeBss, ask \in Asks :
          /\ p = <<Op(ask, b)>>
          /\ sta.peer = b /\ b # None /\ Believed(None) /\ upper.wait # None
          /\ ask = "assoc" => sta.report

(* The last step of a call that has no connection to tell of. *)
Parting(o, b) == o \in StaCalls /\ o.op \in {"auth_frame", "timed_out", "quiet"} /\ o.bss = b

Leaves(p) ==
    \/ \E b \in MaybeBss :
          /\ p = <<Op("leave", b), Op("told_if_report", b)>>
          /\ Believed(b) /\ (Believed(None) \/ sta.report)
    \/ \E b \in MaybeBss :
          /\ p = <<Op("told_if_report", b)>>
          /\ sta.sm = "NONE" /\ Believed(b) /\ (Believed(None) \/ sta.report)
    \/ \E b \in MaybeBss : p = <<Op("leave", b), Op("told_left", b)>> /\ Believed(b)
    \/ \E b \in MaybeBss : p = <<Op("told_left", b)>> /\ sta.sm = "NONE" /\ Believed(b)
    \/ \E b \in MaybeBss, o \in StaCalls : p = <<Op("leave", b), o>> /\ Parting(o, b) /\ Believed(None)
    \/ \E b \in MaybeBss, o \in StaCalls : p = <<o>> /\ Parting(o, b) /\ sta.sm = "NONE" /\ Believed(None)

(* One call at a time: those that run side by side are crossed. *)
OneCall ==
    \/ todo["user"] = << >> /\ todo["event"] = << >> /\ wdev_lock = None /\ Quiet
    \/ todo["event"] = << >> /\ wdev_lock = "user" /\ (Moves(todo["user"]) \/ Leaves(todo["user"]))
    \/ todo["user"] = << >> /\ wdev_lock # "user" /\ Leaves(todo["event"])

StaInv == StaTypeOK /\ (Misapplied \/ (Paired /\ OneCall))

(* Heads and tails of the short sequences calls are made of. *)
LEMMA Tuples ==
    /\ \A x : Head(<<x>>) = x /\ Tail(<<x>>) = << >> /\ <<x>> # << >>
    /\ \A x, y : Head(<<x, y>>) = x /\ Tail(<<x, y>>) = <<y>> /\ <<x, y>> # << >>
    /\ \A x, y, z : Head(<<x, y, z>>) = x /\ Tail(<<x, y, z>>) = <<y, z>> /\ <<x, y, z>> # << >>
    /\ \A x, y, z, w : Head(<<x, y, z, w>>) = x /\ Tail(<<x, y, z, w>>) = <<y, z, w>> /\ <<x, y, z, w>> # << >>
OBVIOUS

(* What a step of a call is, and that it is one. *)
LEMMA OpFields ==
    /\ \A o, b : Op(o, b).op = o /\ Op(o, b).bss = b
    /\ \A o \in StaOps, b \in MaybeBss : Op(o, b) \in StaCalls
BY DEF Op, StaOps, StaCalls

(* A call about to leave its BSS (skw_sta_leave), and what it tells afterwards. *)
LEMMA AtLeave ==
    ASSUME NEW p, Moves(p) \/ Leaves(p), Head(p).op = "leave"
    PROVE  \E b \in MaybeBss : /\ Head(p).bss = b
              /\ \/ Tail(p) = <<Op("told_if_report", b)>> /\ Believed(b) /\ (Believed(None) \/ sta.report)
                 \/ Tail(p) = <<Op("told_left", b)>> /\ Believed(b)
                 \/ \E o \in StaCalls : Tail(p) = <<o>> /\ Parting(o, b) /\ Believed(None)
<1>1. ~Moves(p) BY Tuples, OpFields DEF Moves, Asks
<1>2. PICK b \in MaybeBss :
          \/ p = <<Op("leave", b), Op("told_if_report", b)>> /\ Believed(b) /\ (Believed(None) \/ sta.report)
          \/ p = <<Op("leave", b), Op("told_left", b)>> /\ Believed(b)
          \/ \E o \in StaCalls : p = <<Op("leave", b), o>> /\ Parting(o, b) /\ Believed(None)
  BY <1>1, Tuples, OpFields DEF Leaves, Parting
<1>3. ASSUME NEW o, p = <<Op("leave", b), o>> PROVE Head(p).bss = b /\ Tail(p) = <<o>>
  BY <1>3, Tuples, OpFields
<1> QED BY <1>2, <1>3

(* A call about to undo the join of another BSS goes on to join and ask (skw_auth, skw_assoc). *)
LEMMA AtUnjoin ==
    ASSUME NEW p, Moves(p) \/ Leaves(p), Head(p).op = "unjoin"
    PROVE  \E s, b \in MaybeBss, ask \in Asks :
              /\ Head(p).bss = s /\ Tail(p) = <<Op("join", b), Op(ask, b)>>
              /\ sta.sm = "NONE" /\ sta.peer = s /\ s # None /\ b # None /\ Believed(None) /\ upper.wait # None
              /\ ask = "assoc" => sta.report
<1>1. ~Leaves(p) BY Tuples, OpFields DEF Leaves, Parting
<1>2. PICK s, b \in MaybeBss, ask \in Asks :
          /\ p = <<Op("unjoin", s), Op("join", b), Op(ask, b)>>
          /\ sta.sm = "NONE" /\ sta.peer = s /\ s # None /\ b # None /\ Believed(None) /\ upper.wait # None
          /\ ask = "assoc" => sta.report
  BY <1>1, Tuples, OpFields DEF Moves, Asks
<1>3. Head(p).bss = s /\ Tail(p) = <<Op("join", b), Op(ask, b)>> BY <1>2, Tuples, OpFields
<1> QED BY <1>2, <1>3

(* A call about to join has no peer (skw_join). *)
LEMMA AtJoin ==
    ASSUME NEW p, Moves(p) \/ Leaves(p), Head(p).op = "join"
    PROVE  \E b \in MaybeBss, ask \in Asks :
              /\ Head(p).bss = b /\ Tail(p) = <<Op(ask, b)>>
              /\ sta.sm = "NONE" /\ sta.peer = None /\ b # None /\ Believed(None) /\ upper.wait # None
              /\ ask = "assoc" => sta.report
<1>1. ~Leaves(p) BY Tuples, OpFields DEF Leaves, Parting
<1>2. PICK b \in MaybeBss, ask \in Asks :
          /\ p = <<Op("join", b), Op(ask, b)>>
          /\ sta.sm = "NONE" /\ sta.peer = None /\ b # None /\ Believed(None) /\ upper.wait # None
          /\ ask = "assoc" => sta.report
  BY <1>1, Tuples, OpFields DEF Moves, Asks
<1>3. Head(p).bss = b /\ Tail(p) = <<Op(ask, b)>> BY <1>2, Tuples, OpFields
<1> QED BY <1>2, <1>3

(* A call about to ask the firmware has joined the BSS it asks for. *)
LEMMA AtAsks ==
    ASSUME NEW p, Moves(p) \/ Leaves(p), Head(p).op \in {"auth", "assoc"}
    PROVE  \E b \in MaybeBss : /\ Head(p).bss = b /\ Tail(p) = << >>
              /\ sta.peer = b /\ b # None /\ Believed(None) /\ upper.wait # None
              /\ (Head(p).op = "assoc" => sta.report)
<1>1. ~Leaves(p) BY Tuples, OpFields DEF Leaves, Parting
<1>2. PICK b \in MaybeBss, ask \in Asks :
          /\ p = <<Op(ask, b)>>
          /\ sta.peer = b /\ b # None /\ Believed(None) /\ upper.wait # None
          /\ ask = "assoc" => sta.report
  BY <1>1, Tuples, OpFields DEF Moves, Asks
<1>3. Head(p).bss = b /\ Tail(p) = << >> /\ Head(p).op = ask BY <1>2, Tuples, OpFields
<1> QED BY <1>2, <1>3

(* A call about to tell cfg80211 has left, and of the connection it tells of. *)
LEMMA AtTells ==
    ASSUME NEW p, Moves(p) \/ Leaves(p), Head(p).op \in {"told_left", "told_if_report", "timed_out", "auth_frame"}
    PROVE  \E s \in MaybeBss : /\ Head(p).bss = s /\ sta.sm = "NONE"
              /\ \/ /\ Head(p).op = "told_left" /\ Believed(s) /\ Tail(p) = << >>
                 \/ /\ Head(p).op = "told_left" /\ Believed(s) /\ Moves(p) /\ ~Leaves(p)
                    /\ \E b \in MaybeBss : /\ Tail(p) = <<Op("unjoin", s), Op("join", b), Op("auth", b)>>
                                           /\ sta.peer = s /\ s # None /\ b # None /\ upper.wait # None
                 \/ /\ Head(p).op = "told_if_report" /\ Believed(s) /\ (Believed(None) \/ sta.report)
                    /\ Tail(p) = << >>
                 \/ Head(p).op \in {"timed_out", "auth_frame"} /\ Believed(None) /\ Tail(p) = << >>
<1>1. CASE Leaves(p)
  <2>1. \A b, o : p = <<Op("leave", b), o>> => Head(p).op = "leave" BY Tuples, OpFields
  <2>2. CASE \E b \in MaybeBss :
          /\ p = <<Op("told_if_report", b)>> /\ sta.sm = "NONE" /\ Believed(b) /\ (Believed(None) \/ sta.report)
    BY <2>2, Tuples, OpFields
  <2>3. CASE \E b \in MaybeBss : p = <<Op("told_left", b)>> /\ sta.sm = "NONE" /\ Believed(b)
    BY <2>3, Tuples, OpFields
  <2>4. CASE \E b \in MaybeBss, o \in StaCalls : p = <<o>> /\ Parting(o, b) /\ sta.sm = "NONE" /\ Believed(None)
    BY <2>4, Tuples DEF Parting
  <2> QED BY <1>1, <2>1, <2>2, <2>3, <2>4 DEF Leaves
<1>2. CASE Moves(p) /\ ~Leaves(p)
  <2>1. PICK s, b \in MaybeBss :
          /\ p = <<Op("told_left", s), Op("unjoin", s), Op("join", b), Op("auth", b)>>
          /\ sta.sm = "NONE" /\ sta.peer = s /\ s # None /\ b # None /\ Believed(s) /\ upper.wait # None
    BY <1>2, Tuples, OpFields DEF Moves, Asks
  <2>2. Head(p).op = "told_left" /\ Head(p).bss = s /\ Tail(p) = <<Op("unjoin", s), Op("join", b), Op("auth", b)>>
    BY <2>1, Tuples, OpFields
  <2> QED BY <1>2, <2>1, <2>2
<1> QED BY <1>1, <1>2

(* A disconnect event about to end in silence has left (skw_event_disconnect). *)
LEMMA AtQuiet ==
    ASSUME NEW p, Leaves(p), Head(p).op = "quiet"
    PROVE  sta.sm = "NONE" /\ Believed(None) /\ Tail(p) = << >>
<1>1. \A b, o : p = <<Op("leave", b), o>> => Head(p).op = "leave" BY Tuples, OpFields
<1>2. \A b, o : p = <<Op(o, b)>> => Head(p).op = o BY Tuples, OpFields
<1>3. CASE \E b \in MaybeBss, o \in StaCalls : p = <<o>> /\ Parting(o, b) /\ sta.sm = "NONE" /\ Believed(None)
  BY <1>3, Tuples
<1> QED BY <1>1, <1>2, <1>3 DEF Leaves

(* A station just created satisfies the invariant. *)
LEMMA StaInitInv == StaInit => StaInv
<1> SUFFICES ASSUME StaInit PROVE StaInv OBVIOUS
<1>1. StaTypeOK
  <2>1. sta \in StaRecords BY DEF StaInit, StaRecords, MaybeBss
  <2>2. todo \in [{"user", "event"} -> Seq(StaCalls)] /\ evq \in Seq(StaFrames) BY DEF StaInit
  <2>3. fw \in FwRecords /\ upper \in UpperRecords BY DEF StaInit, FwRecords, UpperRecords, MaybeBss
  <2> QED BY <2>1, <2>2, <2>3 DEF StaInit, StaTypeOK
<1>2. Paired /\ OneCall BY DEF StaInit, Paired, OneCall, Quiet, Believed
<1> QED BY <1>1, <1>2 DEF StaInv

(* Who is busy. *)
LEMMA UserIdle ==
    ASSUME OneCall, wdev_lock # "user"
    PROVE  todo["user"] = << >>
BY DEF OneCall

(* With no call under way the lock is free and the station is quiet. *)
LEMMA BothIdle ==
    ASSUME OneCall, todo["user"] = << >>, todo["event"] = << >>
    PROVE  wdev_lock = None /\ Quiet
<1>1. ~Moves(<< >>) /\ ~Leaves(<< >>) BY Tuples DEF Moves, Leaves, Parting
<1> QED BY <1>1 DEF OneCall

(* A thread in the middle of a call is the only one, and the supplicant's holds the lock. *)
LEMMA Busy ==
    ASSUME OneCall, NEW t \in {"user", "event"}, todo[t] # << >>
    PROVE  /\ Moves(todo[t]) \/ Leaves(todo[t])
           /\ t = "user" => todo["event"] = << >> /\ wdev_lock = "user"
           /\ t = "event" => todo["user"] = << >> /\ wdev_lock # "user" /\ Leaves(todo["event"])
BY DEF OneCall

(* A call goes on, or ends. *)
LEMMA Continues ==
    ASSUME StaTypeOK, OneCall, NEW t \in {"user", "event"}, todo[t] # << >>, NEW p, Continue(t, p),
           t = "user" /\ p # << >> => (Moves(p) \/ Leaves(p))',
           t = "event" /\ p # << >> => (Leaves(p))',
           p = << >> => Quiet'
    PROVE  OneCall'
<1>1. /\ todo' = [todo EXCEPT ![t] = p]
      /\ wdev_lock' = IF p = << >> /\ wdev_lock = t THEN None ELSE wdev_lock
  BY DEF Continue
<1>2. CASE t = "user"
  <2>1. todo["event"] = << >> /\ wdev_lock = "user" BY <1>2, Busy
  <2>2. todo'["user"] = p /\ todo'["event"] = << >> BY <1>1, <1>2, <2>1 DEF StaTypeOK
  <2>3. CASE p = << >> BY <1>1, <1>2, <2>1, <2>2, <2>3 DEF OneCall
  <2>4. CASE p # << >> BY <1>1, <1>2, <2>1, <2>2, <2>4 DEF OneCall
  <2> QED BY <2>3, <2>4
<1>3. CASE t = "event"
  <2>1. todo["user"] = << >> /\ wdev_lock \in {"event", None} BY <1>3, Busy DEF StaTypeOK
  <2>2. todo'["event"] = p /\ todo'["user"] = << >> BY <1>1, <1>3, <2>1 DEF StaTypeOK
  <2>3. CASE p = << >> BY <1>1, <1>3, <2>1, <2>2, <2>3 DEF OneCall
  <2>4. CASE p # << >>
    <3>1. wdev_lock' # "user" BY <1>1, <2>1, <2>4 DEF None
    <3> QED BY <2>2, <2>4, <3>1, <1>3 DEF OneCall
  <2> QED BY <2>3, <2>4
<1> QED BY <1>2, <1>3

(* Types, of what the handlers do. *)
LEMMA ContinueTypes ==
    ASSUME StaTypeOK, NEW t \in {"user", "event"}, NEW p \in Seq(StaCalls), Continue(t, p)
    PROVE  todo' \in [{"user", "event"} -> Seq(StaCalls)] /\ wdev_lock' \in {"user", "event", None}
BY DEF StaTypeOK, Continue

(* The rest of a call is a call. *)
LEMMA TailTypes ==
    ASSUME StaTypeOK, NEW t \in {"user", "event"}, todo[t] # << >>
    PROVE  /\ Tail(todo[t]) \in Seq(StaCalls) /\ << >> \in Seq(StaCalls)
           /\ Head(todo[t]).bss \in MaybeBss
<1>1. todo[t] \in Seq(StaCalls) BY DEF StaTypeOK
<1>2. Head(todo[t]) \in StaCalls /\ Tail(todo[t]) \in Seq(StaCalls) BY <1>1
<1> QED BY <1>2 DEF StaCalls

(* A call that fails ends, and so does the request it served. *)
LEMMA FailTypes ==
    ASSUME StaTypeOK, NEW t \in {"user", "event"}, Fail(t)
    PROVE  /\ todo' \in [{"user", "event"} -> Seq(StaCalls)] /\ wdev_lock' \in {"user", "event", None}
           /\ upper' \in UpperRecords /\ upper'.conn = upper.conn
           /\ t = "user" => upper'.wait = None
<1>1. << >> \in Seq(StaCalls) OBVIOUS
<1>2. todo' \in [{"user", "event"} -> Seq(StaCalls)] /\ wdev_lock' \in {"user", "event", None}
  BY <1>1, ContinueTypes DEF Fail
<1>3. upper \in UpperRecords BY DEF StaTypeOK
<1>4. CASE t = "user" BY <1>2, <1>3, <1>4 DEF Fail, UpperRecords
<1>5. CASE t # "user" BY <1>2, <1>3, <1>5 DEF Fail
<1> QED BY <1>4, <1>5

(* skw_unjoin either forgets BSS, peer and transmit entry together or, refused, only stops the traffic. *)
LEMMA Unjoined ==
    ASSUME NEW s \in StaRecords, NEW b, NEW r \in skw_unjoin(s, b)
    PROVE  /\ r[1] \in StaRecords /\ r[2] \in BOOLEAN
           /\ r[1].sm = s.sm /\ r[1].report = s.report /\ r[1].cbss = s.cbss
           /\ s.peer # b => r[1] = s /\ ~r[2]
           /\ s.peer = b /\ ~r[2] => r[1].bss = None /\ r[1].peer = None /\ r[1].entry = None
           /\ r[2] => r[1].bss = s.bss /\ r[1].peer = s.peer /\ r[1].entry = None
<1>1. None \in MaybeBss BY DEF MaybeBss
<1>2. CASE s.peer # b
  <2>1. r = <<s, FALSE>> BY <1>2 DEF skw_unjoin
  <2> QED BY <1>2, <2>1
<1>3. CASE s.peer = b
  <2> DEFINE off == [s EXCEPT !.entry = None]
             gone == [[off EXCEPT !.bss = None] EXCEPT !.peer = None]
  <2>1. r \in {<<gone, FALSE>>, <<off, TRUE>>}
    BY <1>3 DEF skw_unjoin, skw_peer_ctx_transmit, skw_peer_ctx_bind
  <2>2. /\ off \in StaRecords /\ off.sm = s.sm /\ off.report = s.report /\ off.cbss = s.cbss
        /\ off.bss = s.bss /\ off.peer = s.peer /\ off.entry = None
    BY <1>1 DEF StaRecords
  <2>3. /\ gone \in StaRecords /\ gone.sm = s.sm /\ gone.report = s.report /\ gone.cbss = s.cbss
        /\ gone.bss = None /\ gone.peer = None /\ gone.entry = None
    BY <1>1 DEF StaRecords
  <2> HIDE DEF off, gone
  <2>4. CASE r = <<gone, FALSE>> BY <1>3, <2>3, <2>4
  <2>5. CASE r = <<off, TRUE>> BY <1>3, <2>2, <2>5
  <2> QED BY <2>1, <2>4, <2>5
<1> QED BY <1>2, <1>3

(* What the commands leave the firmware with. *)
LEMMA FwTypes ==
    ASSUME StaTypeOK
    PROVE  /\ \A s : skw_cmd_unjoin(s) \in FwRecords
           /\ skw_cmd_auth \in FwRecords /\ skw_cmd_assoc \in FwRecords
           /\ \A b \in MaybeBss : skw_cmd_join(b) \in FwRecords
<1>1. None \in MaybeBss /\ fw \in FwRecords BY DEF StaTypeOK, MaybeBss
<1>2. \A s : skw_cmd_unjoin(s) \in FwRecords BY <1>1 DEF skw_cmd_unjoin, FwRecords
<1>3. skw_cmd_auth \in FwRecords /\ skw_cmd_assoc \in FwRecords BY <1>1 DEF skw_cmd_auth, skw_cmd_assoc, FwRecords
<1>4. \A b \in MaybeBss : skw_cmd_join(b) \in FwRecords BY DEF skw_cmd_join, FwRecords
<1> QED BY <1>2, <1>3, <1>4

(* Nothing was misapplied before a step after which nothing is. *)
LEMMA Applied ==
    ASSUME ~Misapplied', crossed' = crossed, astray \subseteq astray'
    PROVE  ~Misapplied
BY DEF Misapplied

(* The type invariant after a step, from its parts. *)
LEMMA StaTypes ==
    ASSUME sta' \in StaRecords, todo' \in [{"user", "event"} -> Seq(StaCalls)], wdev_lock' \in {"user", "event", None},
           evq' \in Seq(StaFrames), fw' \in FwRecords, upper' \in UpperRecords, crossed' \in BOOLEAN, astray' \subseteq Astrays
    PROVE  StaTypeOK'
BY DEF StaTypeOK

(* skw_sta_leave ends the attempt whatever the firmware answers. *)
LEMMA LeaveStep ==
    ASSUME StaInv, NEW t \in {"user", "event"}, skw_sta_leave(t)
    PROVE  StaInv'
<1> USE DEF StaInv, Believed
<1> DEFINE b == Head(todo[t]).bss
           s0 == [sta EXCEPT !.carrier = FALSE, !.timer = FALSE, !.sm = "NONE", !.confirm = FALSE]
<1>1. At(t, "leave") /\ todo[t] # << >> /\ Head(todo[t]).op = "leave" /\ UNCHANGED <<evq, staGhosts>>
  BY DEF skw_sta_leave, At
<1>2. PICK r \in skw_unjoin(s0, b) :
        /\ sta' = r[1] /\ fw' = skw_cmd_unjoin(r[1]) /\ Continue(t, Tail(todo[t])) /\ UNCHANGED upper
  BY DEF skw_sta_leave, Unjoins
<1>3. /\ s0 \in StaRecords /\ s0.sm = "NONE" /\ s0.report = sta.report /\ s0.peer = sta.peer /\ s0.bss = sta.bss
      /\ s0.entry = sta.entry /\ s0.cbss = sta.cbss
  BY DEF StaTypeOK, StaRecords
<1> HIDE DEF s0
<1>4. /\ r[1] \in StaRecords /\ r[1].sm = s0.sm /\ r[1].report = s0.report /\ r[1].cbss = s0.cbss
      /\ s0.peer # b => r[1] = s0
      /\ s0.peer = b /\ s0.bss = b => r[1].bss = r[1].peer /\ r[1].peer \in {None, b} /\ r[1].entry = None
  BY <1>2, <1>3, Unjoined
<1>8. PICK p : p = Tail(todo[t]) OBVIOUS
<1>5. UNCHANGED <<evq, crossed, astray, upper>> BY <1>1, <1>2 DEF staGhosts
<1>6. StaTypeOK'
  <2>1. todo' \in [{"user", "event"} -> Seq(StaCalls)] /\ wdev_lock' \in {"user", "event", None}
    BY <1>1, <1>2, TailTypes, ContinueTypes
  <2>2. fw' \in FwRecords BY <1>2, FwTypes
  <2>3. /\ evq' \in Seq(StaFrames) /\ upper' \in UpperRecords /\ crossed' \in BOOLEAN /\ astray' \subseteq Astrays
    BY <1>5 DEF StaTypeOK
  <2> QED BY <1>2, <1>4, <2>1, <2>2, <2>3, StaTypes
<1>7. ASSUME ~Misapplied'
      PROVE  Paired' /\ OneCall'
  <2>1. Paired /\ OneCall BY <1>5, <1>7, Applied
  <2>2. Paired' BY <1>2, <1>3, <1>4, <1>5, <2>1 DEF Paired
  <2>3. /\ sta'.sm = "NONE" /\ sta'.report = sta.report /\ upper'.conn = upper.conn
    BY <1>2, <1>3, <1>4, <1>5
  <2>4. Moves(todo[t]) \/ Leaves(todo[t]) BY <1>1, <2>1, Busy
  <2>5. PICK c \in MaybeBss : /\ b = c
              /\ \/ p = <<Op("told_if_report", c)>> /\ Believed(c) /\ (Believed(None) \/ sta.report)
                 \/ p = <<Op("told_left", c)>> /\ Believed(c)
                 \/ \E o \in StaCalls : p = <<o>> /\ Parting(o, c) /\ Believed(None)
    BY <1>1, <1>8, <2>4, AtLeave
  <2>9. \A x : Believed(x) => (Believed(x))' BY <1>5
  <2> HIDE DEF Believed
  <2>6. (Leaves(p))'
    <3>1. CASE p = <<Op("told_if_report", c)>> /\ Believed(c) /\ (Believed(None) \/ sta.report)
      BY <3>1, <2>3, <2>9 DEF Leaves
    <3>2. CASE p = <<Op("told_left", c)>> /\ Believed(c) BY <3>2, <2>3, <2>9 DEF Leaves
    <3>3. CASE \E o \in StaCalls : p = <<o>> /\ Parting(o, c) /\ Believed(None)
      <4>1. PICK o \in StaCalls : p = <<o>> /\ Parting(o, c) /\ Believed(None) BY <3>3
      <4>2. (Parting(o, c))' BY <4>1 DEF Parting
      <4> QED BY <4>1, <4>2, <2>3, <2>9 DEF Leaves
    <3> QED BY <2>5, <3>1, <3>2, <3>3
  <2>8. p # << >> BY <1>8, <2>5, Tuples
  <2>7. OneCall' BY <1>1, <1>2, <1>8, <2>1, <2>6, <2>8, Continues
  <2> QED BY <2>2, <2>7
<1> QED BY <1>6, <1>7

(* The skw_unjoin of skw_auth: a refusal ends the request with the old peer still bound. *)
LEMMA UnjoinStep ==
    ASSUME StaInv, NEW t \in {"user", "event"}, StepUnjoin(t)
    PROVE  StaInv'
<1> USE DEF StaInv, Believed
<1> DEFINE b == Head(todo[t]).bss
<1>1. todo[t] # << >> /\ Head(todo[t]).op = "unjoin" /\ UNCHANGED <<evq, crossed, astray>>
  BY DEF StepUnjoin, At, staGhosts
<1>2. PICK r \in skw_unjoin(sta, b) :
        /\ sta' = r[1] /\ fw' = skw_cmd_unjoin(r[1])
        /\ IF r[2] THEN Fail(t) ELSE Continue(t, Tail(todo[t])) /\ UNCHANGED upper
  BY DEF StepUnjoin, Unjoins
<1>3. sta \in StaRecords BY DEF StaTypeOK
<1>4. /\ r[1] \in StaRecords /\ r[2] \in BOOLEAN
      /\ r[1].sm = sta.sm /\ r[1].report = sta.report /\ r[1].cbss = sta.cbss
      /\ sta.peer # b => r[1] = sta /\ ~r[2]
      /\ sta.peer = b /\ ~r[2] => r[1].bss = None /\ r[1].peer = None /\ r[1].entry = None
      /\ r[2] => r[1].bss = sta.bss /\ r[1].peer = sta.peer /\ r[1].entry = None
  BY <1>2, <1>3, Unjoined
<1>5. PICK p : p = Tail(todo[t]) OBVIOUS
<1>6. StaTypeOK'
  <2>1. fw' \in FwRecords BY <1>2, FwTypes
  <2>2. /\ evq' \in Seq(StaFrames) /\ crossed' \in BOOLEAN /\ astray' \subseteq Astrays /\ upper \in UpperRecords
    BY <1>1 DEF StaTypeOK
  <2>3. CASE r[2] BY <1>2, <1>4, <2>1, <2>2, <2>3, FailTypes, StaTypes
  <2>4. CASE ~r[2]
    <3>1. todo' \in [{"user", "event"} -> Seq(StaCalls)] /\ wdev_lock' \in {"user", "event", None}
      BY <1>1, <1>2, <2>4, TailTypes, ContinueTypes
    <3> QED BY <1>2, <1>4, <2>1, <2>2, <2>4, <3>1, StaTypes
  <2> QED BY <2>3, <2>4
<1>7. ASSUME ~Misapplied'
      PROVE  Paired' /\ OneCall'
  <2>1. Paired /\ OneCall BY <1>1, <1>7, Applied
  <2>2. Moves(todo[t]) \/ Leaves(todo[t]) BY <1>1, <2>1, Busy
  <2>3. PICK s \in MaybeBss, c \in MaybeBss, ask \in Asks :
              /\ b = s /\ Tail(todo[t]) = <<Op("join", c), Op(ask, c)>>
              /\ sta.sm = "NONE" /\ sta.peer = s /\ s # None /\ c # None /\ Believed(None) /\ upper.wait # None
              /\ ask = "assoc" => sta.report
    BY <1>1, <2>2, AtUnjoin
  <2>7. /\ sta'.cbss = sta.cbss /\ upper'.conn = upper.conn /\ (Believed(None))'
        /\ sta'.bss = sta'.peer /\ sta'.entry \in {None, sta'.peer}
    <3>1. upper'.conn = upper.conn BY <1>2, <1>4, FailTypes
    <3> QED BY <1>1, <1>2, <1>4, <2>1, <2>3, <3>1 DEF Paired
  <2>4. Paired' BY <2>7 DEF Paired
  <2>5. CASE r[2]
    <3>1. Continue(t, << >>) BY <1>2, <2>5 DEF Fail
    <3>2. sta'.sm = "NONE" BY <1>2, <1>4, <2>3
    <3>3. Quiet' BY <2>7, <3>2 DEF Quiet
    <3>4. OneCall' BY <1>1, <2>1, <3>1, <3>3, Continues
    <3> QED BY <2>4, <3>4
  <2>6. CASE ~r[2]
    <3>1. Continue(t, p) /\ UNCHANGED upper BY <1>2, <1>5, <2>6
    <3>2. sta'.sm = "NONE" /\ sta'.peer = None /\ sta'.report = sta.report BY <1>2, <1>4, <2>3, <2>6
    <3>3. p = <<Op("join", c), Op(ask, c)>> /\ p # << >> BY <1>5, <2>3, Tuples
    <3>4. (Moves(p))' BY <2>3, <2>7, <3>1, <3>2, <3>3 DEF Moves
    <3>6. t = "user"
      <4>1. Head(todo[t]).op # "unjoin" \/ ~Leaves(todo[t]) BY Tuples, OpFields DEF Leaves, Parting
      <4> QED BY <1>1, <2>1, <4>1, Busy
    <3>5. OneCall' BY <1>1, <2>1, <3>1, <3>3, <3>4, <3>6, Continues
    <3> QED BY <2>4, <3>5
  <2> QED BY <2>5, <2>6, <1>4
<1> QED BY <1>6, <1>7

(* Only the supplicant's calls ask for anything. *)
LEMMA UserAsks ==
    ASSUME OneCall, NEW t \in {"user", "event"}, todo[t] # << >>,
           Head(todo[t]).op \in {"unjoin", "join", "auth", "assoc"}
    PROVE  t = "user"
<1>1. ~Leaves(todo[t]) BY Tuples, OpFields DEF Leaves, Parting
<1> QED BY <1>1, Busy

(* skw_join binds the peer to the BSS, or fails with neither. *)
LEMMA JoinStep ==
    ASSUME StaInv, NEW t \in {"user", "event"}, skw_join(t)
    PROVE  StaInv'
<1> USE DEF StaInv, Believed
<1> DEFINE b == Head(todo[t]).bss
<1>1. todo[t] # << >> /\ Head(todo[t]).op = "join" /\ UNCHANGED <<evq, crossed, astray>>
  BY DEF skw_join, At, staGhosts
<1>2. b \in MaybeBss BY <1>1, TailTypes
<1>3. PICK p : p = Tail(todo[t]) OBVIOUS
<1>4. /\ evq' \in Seq(StaFrames) /\ crossed' \in BOOLEAN /\ astray' \subseteq Astrays /\ upper \in UpperRecords
      /\ sta \in StaRecords /\ fw \in FwRecords
  BY <1>1 DEF StaTypeOK
<1>5. ASSUME ~Misapplied'
      PROVE  /\ Paired /\ OneCall /\ t = "user"
             /\ sta.sm = "NONE" /\ sta.peer = None /\ Believed(None) /\ upper.wait # None /\ b # None
             /\ \E ask \in Asks : Tail(todo[t]) = <<Op(ask, b)>> /\ (ask = "assoc" => sta.report)
  <2>1. Paired /\ OneCall BY <1>1, <1>5, Applied
  <2>2. Moves(todo[t]) \/ Leaves(todo[t]) BY <1>1, <2>1, Busy
  <2>3. t = "user" BY <1>1, <2>1, UserAsks
  <2> QED BY <1>1, <2>1, <2>2, <2>3, AtJoin
<1>6. CASE /\ sta' = skw_peer_ctx_bind([sta EXCEPT !.bss = b], b) /\ fw' = skw_cmd_join(b)
           /\ Continue(t, Tail(todo[t])) /\ UNCHANGED upper
  <2>1. sta' \in StaRecords /\ sta'.bss = b /\ sta'.peer = b /\ sta'.entry = sta.entry /\ sta'.sm = sta.sm
        /\ sta'.cbss = sta.cbss /\ sta'.report = sta.report
    <3> DEFINE s1 == [sta EXCEPT !.bss = b]
    <3>1. /\ s1 \in StaRecords /\ s1.bss = b /\ s1.entry = sta.entry /\ s1.sm = sta.sm
          /\ s1.cbss = sta.cbss /\ s1.report = sta.report
      BY <1>2, <1>4 DEF StaRecords
    <3>2. sta' = [s1 EXCEPT !.peer = b] BY <1>6 DEF skw_peer_ctx_bind
    <3> HIDE DEF s1
    <3> QED BY <1>2, <3>1, <3>2 DEF StaRecords
  <2>2. todo' \in [{"user", "event"} -> Seq(StaCalls)] /\ wdev_lock' \in {"user", "event", None}
    BY <1>1, <1>6, TailTypes, ContinueTypes
  <2>3. StaTypeOK' BY <1>2, <1>4, <1>6, <2>1, <2>2, FwTypes, StaTypes
  <2>4. ASSUME ~Misapplied' PROVE Paired' /\ OneCall'
    <3>1. Paired' BY <1>1, <1>5, <1>6, <2>1, <2>4 DEF Paired
    <3>5. PICK ask \in Asks : Tail(todo[t]) = <<Op(ask, b)>> /\ (ask = "assoc" => sta.report) BY <1>5, <2>4
    <3>2. p = <<Op(ask, b)>> /\ p # << >> BY <1>3, <3>5, Tuples
    <3>3. (Moves(p))'
      <4>1. PICK c \in MaybeBss : c = b BY <1>2
      <4>2. (Believed(None))' BY <1>1, <1>5, <1>6, <2>4
      <4> QED BY <1>5, <1>6, <2>1, <2>4, <3>2, <3>5, <4>1, <4>2 DEF Moves
    <3>4. OneCall' BY <1>1, <1>3, <1>5, <1>6, <2>4, <3>2, <3>3, Continues
    <3> QED BY <3>1, <3>4
  <2> QED BY <2>3, <2>4
<1>7. CASE Fail(t) /\ UNCHANGED <<sta, fw>>
  <2>1. StaTypeOK' BY <1>4, <1>7, FailTypes, StaTypes
  <2>2. ASSUME ~Misapplied' PROVE Paired' /\ OneCall'
    <3>0. upper'.conn = upper.conn BY <1>7, FailTypes
    <3>1. Paired' BY <1>1, <1>5, <1>7, <2>2, <3>0 DEF Paired
    <3>2. Quiet' BY <1>1, <1>5, <1>7, <2>2, <3>0 DEF Quiet
    <3>3. Continue(t, << >>) BY <1>7 DEF Fail
    <3>4. OneCall' BY <1>1, <1>5, <2>2, <3>2, <3>3, Continues
    <3> QED BY <3>1, <3>4
  <2> QED BY <2>1, <2>2
<1> QED BY <1>6, <1>7 DEF skw_join

(* skw_cmd_auth and skw_cmd_assoc: asked, the attempt is pending; refused, the join is undone. *)
LEMMA AsksStep ==
    ASSUME StaInv, NEW t \in {"user", "event"}, StepAsks(t)
    PROVE  StaInv'
<1> USE DEF StaInv, Believed
<1> DEFINE b == Head(todo[t]).bss
           auth == At(t, "auth")
           asks == IF auth
                    THEN [sta EXCEPT !.timer = TRUE, !.age = 0, !.retry = 0, !.report = TRUE,
                            !.sm = IF sta.confirm /\ upper.authed = b THEN "AUTHED" ELSE "AUTHING"]
                    ELSE [sta EXCEPT !.timer = TRUE, !.retry = 0, !.cbss = b, !.sm = "ASSOCING"]
           undone == [sta EXCEPT !.timer = FALSE, !.sm = "NONE", !.cbss = IF auth THEN @ ELSE None]
<1>1. todo[t] # << >> /\ Head(todo[t]).op \in {"auth", "assoc"} /\ UNCHANGED <<evq, crossed, astray>>
  BY DEF StepAsks, At, staGhosts
<1>2. b \in MaybeBss BY <1>1, TailTypes
<1>4. /\ evq' \in Seq(StaFrames) /\ crossed' \in BOOLEAN /\ astray' \subseteq Astrays /\ upper \in UpperRecords
      /\ sta \in StaRecords /\ fw \in FwRecords
  BY <1>1 DEF StaTypeOK
<1>5. ASSUME ~Misapplied'
      PROVE  /\ Paired /\ OneCall /\ t = "user"
             /\ Tail(todo[t]) = << >> /\ b # None
             /\ sta.peer = b /\ Believed(None) /\ upper.wait # None
             /\ (auth \/ sta.report)
  <2>1. Paired /\ OneCall BY <1>1, <1>5, Applied
  <2>2. Moves(todo[t]) \/ Leaves(todo[t]) BY <1>1, <2>1, Busy
  <2>3. t = "user" BY <1>1, <2>1, UserAsks
  <2>4. auth \/ Head(todo[t]).op = "assoc" BY <1>1 DEF At
  <2> QED BY <1>1, <2>1, <2>2, <2>3, <2>4, AtAsks
<1>6. CASE /\ fw' = IF auth THEN skw_cmd_auth ELSE skw_cmd_assoc
           /\ sta' = asks /\ Continue(t, Tail(todo[t])) /\ UNCHANGED upper
  <2>1. /\ asks \in StaRecords /\ asks.bss = sta.bss /\ asks.peer = sta.peer /\ asks.entry = sta.entry
        /\ asks.sm \in {"AUTHING", "AUTHED", "ASSOCING"} /\ (auth \/ sta.report => asks.report)
    <3>1. CASE auth
      <4> DEFINE m == IF sta.confirm /\ upper.authed = b THEN "AUTHED" ELSE "AUTHING"
      <4>1. m \in {"AUTHING", "AUTHED"} OBVIOUS
      <4>2. asks = [sta EXCEPT !.timer = TRUE, !.age = 0, !.retry = 0, !.report = TRUE, !.sm = m] BY <3>1
      <4> HIDE DEF m, asks
      <4> DEFINE s1 == [sta EXCEPT !.timer = TRUE, !.age = 0, !.retry = 0, !.report = TRUE]
      <4>3. s1 \in StaRecords /\ s1.bss = sta.bss /\ s1.peer = sta.peer /\ s1.entry = sta.entry /\ s1.report
        <5>1. 0 \in 0 .. 2 /\ 0 \in Nat /\ TRUE \in BOOLEAN OBVIOUS
        <5>2. s1 \in StaRecords BY <1>4, <5>1 DEF StaRecords
        <5>3. s1.bss = sta.bss /\ s1.peer = sta.peer /\ s1.entry = sta.entry BY <1>4 DEF StaRecords
        <5>4. s1.report = TRUE BY <1>4 DEF StaRecords
        <5> QED BY <5>2, <5>3, <5>4
      <4>4. asks = [s1 EXCEPT !.sm = m] BY <1>4, <4>2
      <4> HIDE DEF s1
      <4> QED BY <3>1, <4>1, <4>3, <4>4 DEF StaRecords
    <3>2. CASE ~auth
      <4>1. asks = [sta EXCEPT !.timer = TRUE, !.retry = 0, !.cbss = b, !.sm = "ASSOCING"] BY <3>2
      <4> HIDE DEF asks
      <4> QED BY <1>2, <1>4, <3>2, <4>1 DEF StaRecords
    <3> QED BY <3>1, <3>2
  <2> HIDE DEF asks
  <2>2. todo' \in [{"user", "event"} -> Seq(StaCalls)] /\ wdev_lock' \in {"user", "event", None}
    BY <1>1, <1>6, TailTypes, ContinueTypes
  <2>3. fw' \in FwRecords BY <1>6, FwTypes
  <2>4. StaTypeOK' BY <1>4, <1>6, <2>1, <2>2, <2>3, StaTypes
  <2>5. ASSUME ~Misapplied' PROVE Paired' /\ OneCall'
    <3>0. (Believed(None))' BY <1>1, <1>5, <1>6, <2>5
    <3>1. Paired' BY <1>5, <1>6, <2>1, <2>5, <3>0 DEF Paired
    <3>2. Quiet'
      <4>1. sta'.peer # None /\ sta'.report /\ sta'.sm # "ASSOCED" BY <1>5, <1>6, <2>1, <2>5
      <4>2. upper'.wait # None BY <1>5, <1>6, <2>5
      <4> QED BY <3>0, <4>1, <4>2 DEF Quiet
    <3>3. OneCall' BY <1>1, <1>5, <1>6, <2>5, <3>2, Continues
    <3> QED BY <3>1, <3>3
  <2> QED BY <2>4, <2>5
<1>7. CASE Fail(t) /\ \E r \in skw_unjoin(undone, b) : sta' = r[1] /\ fw' = skw_cmd_unjoin(r[1])
  <2>1. PICK r \in skw_unjoin(undone, b) : sta' = r[1] /\ fw' = skw_cmd_unjoin(r[1]) BY <1>7
  <2>2. /\ undone \in StaRecords /\ undone.sm = "NONE" /\ undone.peer = sta.peer /\ undone.bss = sta.bss
    <3> DEFINE c == IF auth THEN sta.cbss ELSE None
    <3>1. c \in MaybeBss BY <1>4 DEF StaRecords, MaybeBss
    <3>2. undone = [sta EXCEPT !.timer = FALSE, !.sm = "NONE", !.cbss = c] BY <1>4 DEF StaRecords
    <3> HIDE DEF c, undone
    <3> QED BY <1>4, <3>1, <3>2 DEF StaRecords
  <2> HIDE DEF undone
  <2>3. /\ r[1] \in StaRecords /\ r[1].sm = "NONE"
        /\ undone.peer = b /\ undone.bss = b => r[1].bss = r[1].peer /\ r[1].entry = None
    BY <2>1, <2>2, Unjoined
  <2>4. StaTypeOK'
    <3>1. fw' \in FwRecords BY <2>1, FwTypes
    <3> QED BY <1>4, <1>7, <2>1, <2>3, <3>1, FailTypes, StaTypes
  <2>5. ASSUME ~Misapplied' PROVE Paired' /\ OneCall'
    <3>0. (Believed(None))'
      <4>1. upper'.conn = upper.conn BY <1>7, FailTypes
      <4> QED BY <1>1, <1>5, <2>5, <4>1
    <3>1. Paired' BY <1>5, <2>1, <2>2, <2>3, <2>5, <3>0 DEF Paired
    <3>2. Quiet' BY <2>1, <2>3, <3>0 DEF Quiet
    <3>3. Continue(t, << >>) BY <1>7 DEF Fail
    <3>4. OneCall' BY <1>1, <1>5, <2>5, <3>2, <3>3, Continues
    <3> QED BY <3>1, <3>4
  <2> QED BY <2>4, <2>5
<1> QED BY <1>6, <1>7 DEF StepAsks

(* What is told to cfg80211 clears the connection that was left. *)
LEMMA StaTellsStep ==
    ASSUME StaInv, NEW t \in {"user", "event"}, StepTells(t)
    PROVE  StaInv'
<1> USE DEF StaInv, Believed
<1> DEFINE b == Head(todo[t]).bss
           step == Head(todo[t]).op
<1>1. /\ todo[t] # << >> /\ step \in {"told_left", "told_if_report", "timed_out", "auth_frame"}
      /\ Continue(t, Tail(todo[t])) /\ UNCHANGED <<evq, fw, crossed, astray>>
      /\ \/ UNCHANGED sta
         \/ sta' = [sta EXCEPT !.confirm = @ \/ Head(todo[t]).confirm]
  BY DEF StepTells, At, staGhosts
<1>2. /\ step = "told_left" => upper' = [skw_tx_mlme_mgmt(upper, b) EXCEPT !.wait = IF t = "user" THEN upper.wait ELSE @]
      /\ step = "told_if_report" => upper' = IF sta.report THEN skw_tx_mlme_mgmt(upper, b) ELSE upper
      /\ step = "timed_out" => upper' = [upper EXCEPT !.wait = None]
      /\ step = "auth_frame" => upper' = [upper EXCEPT !.wait = None, !.authed = None]
  BY DEF StepTells, At
<1>3. PICK p : p = Tail(todo[t]) OBVIOUS
<1>4. /\ evq' \in Seq(StaFrames) /\ crossed' \in BOOLEAN /\ astray' \subseteq Astrays /\ upper \in UpperRecords
      /\ sta \in StaRecords /\ fw' \in FwRecords
  BY <1>1 DEF StaTypeOK
<1>10. /\ sta' \in StaRecords /\ sta'.sm = sta.sm /\ sta'.bss = sta.bss /\ sta'.peer = sta.peer
       /\ sta'.entry = sta.entry /\ sta'.cbss = sta.cbss /\ sta'.carrier = sta.carrier /\ sta'.report = sta.report
  <2>1. CASE UNCHANGED sta BY <1>4, <2>1
  <2>2. CASE sta' = [sta EXCEPT !.confirm = @ \/ Head(todo[t]).confirm]
    <3> DEFINE c == sta.confirm \/ Head(todo[t]).confirm
    <3>1. c \in BOOLEAN OBVIOUS
    <3>2. sta' = [sta EXCEPT !.confirm = c] BY <1>4, <2>2 DEF StaRecords
    <3> HIDE DEF c
    <3> QED BY <1>4, <3>1, <3>2 DEF StaRecords
  <2> QED BY <1>1, <2>1, <2>2
<1>5. None \in MaybeBss BY DEF MaybeBss
<1> DEFINE told == skw_tx_mlme_mgmt(upper, b)
<1>6. /\ told \in UpperRecords /\ told.conn = (IF upper.conn = b THEN None ELSE upper.conn)
  BY <1>4, <1>5 DEF skw_tx_mlme_mgmt, UpperRecords
<1>7. /\ upper' \in UpperRecords
      /\ step = "told_left" => upper'.conn = told.conn /\ (t = "user" => upper'.wait = upper.wait)
      /\ step = "told_if_report" => upper'.conn = (IF sta.report THEN told.conn ELSE upper.conn)
      /\ step \in {"timed_out", "auth_frame"} => upper'.conn = upper.conn
  <2> HIDE DEF told
  <2>1. CASE step = "told_left"
    <3> DEFINE w == IF t = "user" THEN upper.wait ELSE told.wait
    <3>1. w \in {None, "auth", "assoc"} BY <1>4, <1>6 DEF UpperRecords
    <3>2. upper' = [told EXCEPT !.wait = w] BY <1>2, <1>6, <2>1 DEF told, UpperRecords
    <3>3. t = "user" => w = upper.wait OBVIOUS
    <3> HIDE DEF w
    <3> QED BY <1>6, <2>1, <3>1, <3>2, <3>3 DEF UpperRecords
  <2>2. CASE step = "told_if_report" BY <1>2, <1>4, <1>6, <2>2 DEF told
  <2>3. CASE step = "timed_out"
    <3>1. upper' = [upper EXCEPT !.wait = None] BY <1>2, <2>3
    <3> QED BY <1>4, <2>3, <3>1 DEF UpperRecords
  <2>4. CASE step = "auth_frame"
    <3>1. upper' = [upper EXCEPT !.wait = None, !.authed = None] BY <1>2, <2>4
    <3> QED BY <1>4, <1>5, <2>4, <3>1 DEF UpperRecords
  <2> QED BY <1>1, <2>1, <2>2, <2>3, <2>4
<1> HIDE DEF told
<1>8. StaTypeOK'
  <2>1. todo' \in [{"user", "event"} -> Seq(StaCalls)] /\ wdev_lock' \in {"user", "event", None}
    BY <1>1, TailTypes, ContinueTypes
  <2> QED BY <1>4, <1>7, <1>10, <2>1, StaTypes
<1>9. ASSUME ~Misapplied' PROVE Paired' /\ OneCall'
  <2>1. Paired /\ OneCall BY <1>1, <1>9, Applied
  <2>3. Moves(todo[t]) \/ Leaves(todo[t]) BY <1>1, <2>1, Busy
  <2>4. /\ sta.sm = "NONE"
        /\ \/ step = "told_left" /\ Believed(b) /\ Tail(todo[t]) = << >>
           \/ /\ step = "told_left" /\ Believed(b) /\ ~Leaves(todo[t])
              /\ \E c \in MaybeBss : /\ Tail(todo[t]) = <<Op("unjoin", b), Op("join", c), Op("auth", c)>>
                                     /\ sta.peer = b /\ b # None /\ c # None /\ upper.wait # None
           \/ /\ step = "told_if_report" /\ Believed(b) /\ (Believed(None) \/ sta.report)
              /\ Tail(todo[t]) = << >>
           \/ step \in {"timed_out", "auth_frame"} /\ Believed(None) /\ Tail(todo[t]) = << >>
    BY <1>1, <2>3, AtTells
  <2>5. (Believed(None))'
    <3> HIDE DEF step, b
    <3> QED BY <1>1, <1>6, <1>7, <2>4
  <2>2. Paired' BY <1>10, <2>1, <2>5 DEF Paired
  <2>6. sta'.sm = "NONE" BY <1>10, <2>4
  <2>7. Quiet' BY <2>5, <2>6 DEF Quiet
  <2>8. CASE Tail(todo[t]) = << >> BY <1>1, <2>1, <2>2, <2>7, <2>8, Continues
  <2>9. ASSUME NEW c \in MaybeBss, step = "told_left", ~Leaves(todo[t]),
               Tail(todo[t]) = <<Op("unjoin", b), Op("join", c), Op("auth", c)>>,
               sta.peer = b, b # None, c # None, upper.wait # None
        PROVE  OneCall'
    <3>1. t = "user" BY <1>1, <2>1, <2>9, Busy
    <3>2. p = <<Op("unjoin", b), Op("join", c), Op("auth", c)>> /\ p # << >> BY <1>3, <2>9, Tuples
    <3>3. PICK s \in MaybeBss : s = b BY <1>1, TailTypes
    <3>4. upper'.wait # None /\ sta'.peer = s BY <1>7, <1>10, <2>9, <3>1, <3>3
    <3>5. (Moves(p))'
      <4>1. "auth" \in Asks /\ "auth" # "assoc" BY DEF Asks
      <4> QED BY <2>5, <2>6, <2>9, <3>2, <3>3, <3>4, <4>1 DEF Moves
    <3> QED BY <1>1, <1>3, <2>1, <3>1, <3>2, <3>5, Continues
  <2> QED BY <2>2, <2>4, <2>8, <2>9
<1> QED BY <1>8, <1>9

(* The concatenation in skw_auth. *)
LEMMA OneThenTwo ==
    ASSUME NEW S, NEW x \in S, NEW y \in S, NEW z \in S
    PROVE  <<z>> \o <<x, y>> = <<z, x, y>>
<1> DEFINE l == <<z>> \o <<x, y>>
           r == <<z, x, y>>
<1>1. l \in Seq(S) /\ Len(l) = 3 /\ l[1] = z /\ l[2] = x /\ l[3] = y OBVIOUS
<1>2. r \in Seq(S) /\ Len(r) = 3 /\ r[1] = z /\ r[2] = x /\ r[3] = y OBVIOUS
<1> HIDE DEF l, r
<1>3. \A i \in 1 .. 3 : i = 1 \/ i = 2 \/ i = 3 OBVIOUS
<1>4. \A i \in 1 .. 3 : l[i] = r[i] BY <1>1, <1>2, <1>3
<1>5. l = r BY <1>1, <1>2, <1>4
<1> QED BY <1>5 DEF l, r

(* The ghost only grows, by one of its kinds. *)
LEMMA StraysGrow ==
    ASSUME StaTypeOK, NEW what \in Astrays, NEW cond
    PROVE  /\ astray \subseteq Strays(what, cond) /\ Strays(what, cond) \subseteq Astrays
           /\ cond => what \in Strays(what, cond)
BY DEF Strays, StaTypeOK

(* A request of the supplicant begins between calls, unless it crosses a disconnect. *)
LEMMA RequestTypes ==
    ASSUME StaTypeOK, NEW w \in {None, "auth", "assoc"}, NEW p \in Seq(StaCalls), Request(w, p)
    PROVE  /\ todo' \in [{"user", "event"} -> Seq(StaCalls)] /\ wdev_lock' \in {"user", "event", None}
           /\ upper' \in UpperRecords /\ upper'.wait = w /\ upper'.conn = upper.conn
           /\ crossed' \in BOOLEAN
<1>1. /\ todo' = [todo EXCEPT !["user"] = p] /\ wdev_lock' = (IF p = << >> THEN None ELSE "user")
      /\ upper' = [upper EXCEPT !.wait = w] /\ crossed' = (crossed \/ todo["event"] # << >>)
  BY DEF Request
<1>2. upper \in UpperRecords BY DEF StaTypeOK
<1>3. upper' \in UpperRecords /\ upper'.wait = w /\ upper'.conn = upper.conn BY <1>1, <1>2 DEF UpperRecords
<1>4. crossed' \in BOOLEAN BY <1>1
<1>5. wdev_lock' \in {"user", "event", None} BY <1>1
<1>6. todo' \in [{"user", "event"} -> Seq(StaCalls)] BY <1>1 DEF StaTypeOK
<1> QED BY <1>3, <1>4, <1>5, <1>6

(* A request that crosses nothing finds the station quiet. *)
LEMMA RequestFinds ==
    ASSUME StaInv, NEW w, NEW p, Request(w, p), ~Misapplied', astray \subseteq astray'
    PROVE  Paired /\ OneCall /\ Quiet /\ todo["user"] = << >> /\ todo["event"] = << >>
<1>1. ~Misapplied /\ todo["event"] = << >> /\ todo["user"] = << >> BY DEF Request, Misapplied
<1>2. Paired /\ OneCall BY <1>1 DEF StaInv
<1> QED BY <1>1, <1>2, BothIdle

(* A request puts the supplicant's thread in the middle of a call, or is refused at once. *)
LEMMA Requested ==
    ASSUME StaTypeOK, NEW w, NEW p, Request(w, p), todo["event"] = << >>,
           p # << >> => (Moves(p) \/ Leaves(p))',
           p = << >> => Quiet'
    PROVE  OneCall'
<1>1. todo' = [todo EXCEPT !["user"] = p] /\ wdev_lock' = (IF p = << >> THEN None ELSE "user") BY DEF Request
<1>2. todo'["user"] = p /\ todo'["event"] = << >> BY <1>1 DEF StaTypeOK
<1>3. CASE p = << >> BY <1>1, <1>2, <1>3 DEF OneCall
<1>4. CASE p # << >> BY <1>1, <1>2, <1>4 DEF OneCall
<1> QED BY <1>3, <1>4

(* What the requests ask for is made of calls. *)
LEMMA CallTypes ==
    ASSUME NEW s \in MaybeBss, NEW b \in MaybeBss
    PROVE  /\ << >> \in Seq(StaCalls)
           /\ <<Op("told_left", s), Op("unjoin", s), Op("join", b), Op("auth", b)>> \in Seq(StaCalls)
           /\ <<Op("unjoin", s), Op("join", b), Op("auth", b)>> \in Seq(StaCalls)
           /\ <<Op("unjoin", s), Op("join", b), Op("assoc", b)>> \in Seq(StaCalls)
           /\ <<Op("join", b), Op("auth", b)>> \in Seq(StaCalls)
           /\ <<Op("auth", b)>> \in Seq(StaCalls) /\ <<Op("assoc", b)>> \in Seq(StaCalls)
           /\ \A last \in {"told_left", "told_if_report", "auth_frame", "timed_out", "quiet"} :
                <<Op("leave", b), Op(last, b)>> \in Seq(StaCalls)
           /\ \A o \in StaCalls : <<Op("leave", b), o>> \in Seq(StaCalls)
<1>1. \A o \in StaOps : Op(o, s) \in StaCalls /\ Op(o, b) \in StaCalls BY OpFields
<1>3. {"told_left", "told_if_report", "auth_frame", "timed_out", "quiet", "unjoin", "join", "auth", "assoc", "leave"}
            \subseteq StaOps
  BY DEF StaOps
<1> QED BY <1>1, <1>3

(* skw_auth, in each state of the station. *)
LEMMA AuthRequest ==
    ASSUME StaInv, NEW b \in Bss, NEW conf, skw_auth(b, conf)
    PROVE  StaInv'
<1> USE DEF StaInv, Believed
<1>1. upper.wait = None /\ UNCHANGED <<evq, fw>> BY DEF skw_auth
<1>2. b \in MaybeBss /\ b # None BY StaConstants DEF MaybeBss
<1>3. sta \in StaRecords /\ evq' \in Seq(StaFrames) /\ fw' \in FwRecords BY <1>1 DEF StaTypeOK
<1>4. PICK s \in MaybeBss : s = sta.bss BY <1>3 DEF StaRecords
<1> DEFINE s1 == [sta EXCEPT !.report = FALSE]
           s2 == [sta EXCEPT !.report = FALSE, !.sm = "NONE"]
<1>5. /\ s1 \in StaRecords /\ s1.bss = sta.bss /\ s1.peer = sta.peer /\ s1.entry = sta.entry /\ s1.sm = sta.sm
      /\ s2 \in StaRecords /\ s2.bss = sta.bss /\ s2.peer = sta.peer /\ s2.entry = sta.entry /\ s2.sm = "NONE"
      /\ s1.cbss = sta.cbss /\ s2.cbss = sta.cbss
  BY <1>3 DEF StaRecords
<1>6. ASSUME ~Misapplied', NEW w, NEW p, Request(w, p), astray \subseteq astray'
      PROVE  Paired /\ OneCall /\ Quiet /\ todo["event"] = << >>
  BY <1>6, RequestFinds
<1>7. CASE sta.sm \in {"AUTHING", "ASSOCING"} /\ Request(None, << >>) /\ sta' = s1 /\ UNCHANGED astray
  <2>1. StaTypeOK' BY <1>2, <1>3, <1>5, <1>7, CallTypes, RequestTypes, StaTypes DEF StaTypeOK
  <2>2. ASSUME ~Misapplied' PROVE FALSE
    <3>1. Quiet BY <1>6, <1>7, <2>2
    <3> QED BY <1>1, <1>7, <3>1 DEF Quiet
  <2> QED BY <2>1, <2>2
<1>8. CASE /\ sta.sm = "ASSOCED" /\ sta.bss # b /\ sta' = s2 /\ UNCHANGED astray
           /\ Request("auth", <<Op("told_left", sta.bss), Op("unjoin", sta.bss), Op("join", b), Op("auth", b)>>)
  <2>1. PICK p : p = <<Op("told_left", s), Op("unjoin", s), Op("join", b), Op("auth", b)>> OBVIOUS
  <2>2. p \in Seq(StaCalls) /\ p # << >> BY <1>2, <2>1, CallTypes, Tuples
  <2>3. Request("auth", p) BY <1>4, <1>8, <2>1
  <2>4. StaTypeOK' BY <1>3, <1>5, <1>8, <2>2, <2>3, RequestTypes, StaTypes DEF StaTypeOK
  <2>5. ASSUME ~Misapplied' PROVE Paired' /\ OneCall'
    <3>1. Paired /\ OneCall /\ Quiet /\ todo["event"] = << >> BY <1>6, <1>8, <2>3, <2>5
    <3>7. upper'.conn = upper.conn /\ upper'.wait = "auth" BY <2>2, <2>3, RequestTypes
    <3>2. Paired' BY <1>5, <1>8, <3>1, <3>7 DEF Paired
    <3>3. sta'.sm = "NONE" /\ sta'.peer = s /\ s # None BY <1>4, <1>5, <1>8, <3>1 DEF Paired, Quiet
    <3>4. (Believed(s))' /\ upper'.wait # None
      <4>2. Believed(s) BY <1>4, <3>1 DEF Paired, Quiet
      <4> QED BY <1>8, <3>7, <4>2 DEF None
    <3>5. (Moves(p))' BY <1>2, <2>1, <3>3, <3>4 DEF Moves
    <3>6. OneCall' BY <2>2, <2>3, <3>1, <3>5, Requested
    <3> QED BY <3>2, <3>6
  <2> QED BY <2>4, <2>5
<1>9. CASE /\ sta.sm = "NONE" /\ sta' = s1 /\ UNCHANGED astray
           /\ Request("auth", (IF sta.bss = None THEN << >> ELSE <<Op("unjoin", sta.bss)>>) \o <<Op("join", b), Op("auth", b)>>)
  <2>1. PICK p : p = IF s = None THEN <<Op("join", b), Op("auth", b)>> ELSE <<Op("unjoin", s), Op("join", b), Op("auth", b)>>
    OBVIOUS
  <2>2. p \in Seq(StaCalls) /\ p # << >>
    <3>1. CASE s = None BY <1>2, <2>1, <3>1, CallTypes, Tuples
    <3>2. CASE s # None BY <1>2, <2>1, <3>2, CallTypes, Tuples
    <3> QED BY <3>1, <3>2
  <2>3. Request("auth", p)
    <3>1. p = (IF sta.bss = None THEN << >> ELSE <<Op("unjoin", sta.bss)>>) \o <<Op("join", b), Op("auth", b)>>
      <4>1. \A x, y : << >> \o <<x, y>> = <<x, y>> OBVIOUS
      <4>2. <<Op("unjoin", s)>> \o <<Op("join", b), Op("auth", b)>> = <<Op("unjoin", s), Op("join", b), Op("auth", b)>>
        <5>1. Op("unjoin", s) \in StaCalls /\ Op("join", b) \in StaCalls /\ Op("auth", b) \in StaCalls
          BY <1>2, OpFields DEF StaOps
        <5> QED BY <5>1, OneThenTwo
      <4>3. CASE s = None BY <1>4, <2>1, <4>1, <4>3
      <4>4. CASE s # None BY <1>4, <2>1, <4>2, <4>4
      <4> QED BY <4>3, <4>4
    <3> QED BY <1>9, <3>1
  <2>4. StaTypeOK' BY <1>3, <1>5, <1>9, <2>2, <2>3, RequestTypes, StaTypes DEF StaTypeOK
  <2>5. ASSUME ~Misapplied' PROVE Paired' /\ OneCall'
    <3>1. Paired /\ OneCall /\ Quiet /\ todo["event"] = << >> BY <1>6, <1>9, <2>3, <2>5
    <3>7. upper'.conn = upper.conn /\ upper'.wait = "auth" BY <2>2, <2>3, RequestTypes
    <3>2. Paired' BY <1>5, <1>9, <3>1, <3>7 DEF Paired
    <3>3. sta'.sm = "NONE" /\ sta'.peer = s BY <1>4, <1>5, <1>9, <3>1 DEF Paired
    <3>4. (Believed(None))' /\ upper'.wait # None
      <4>2. Believed(None) BY <1>9, <3>1 DEF Quiet
      <4> QED BY <1>9, <3>7, <4>2 DEF None
    <3>5. (Moves(p))'
      <4>0. "auth" \in Asks /\ "auth" # "assoc" BY DEF Asks
      <4>1. CASE s = None BY <1>2, <2>1, <3>3, <3>4, <4>0, <4>1 DEF Moves
      <4>2. CASE s # None BY <1>2, <2>1, <3>3, <3>4, <4>0, <4>2 DEF Moves
      <4> QED BY <4>1, <4>2
    <3>6. OneCall' BY <2>2, <2>3, <3>1, <3>5, Requested
    <3> QED BY <3>2, <3>6
  <2> QED BY <2>4, <2>5
<1>10. CASE sta.sm = "AUTHED" /\ Request("auth", <<Op("auth", b)>>) /\ sta' = s1 /\ astray' = Strays("elsewhere", b # sta.bss)
  <2>1. PICK p : p = <<Op("auth", b)>> OBVIOUS
  <2>2. p \in Seq(StaCalls) /\ p # << >> BY <1>2, <2>1, CallTypes, Tuples
  <2>3. Request("auth", p) BY <1>10, <2>1
  <2>7. astray' \subseteq Astrays BY <1>10, StraysGrow DEF Astrays
  <2>4. StaTypeOK' BY <1>3, <1>5, <1>10, <2>2, <2>3, <2>7, RequestTypes, StaTypes
  <2>5. ASSUME ~Misapplied' PROVE Paired' /\ OneCall'
    <3>0. astray \subseteq astray' /\ (b # sta.bss => "elsewhere" \in astray')
      BY <1>10, StraysGrow DEF Astrays
    <3>1. Paired /\ OneCall /\ Quiet /\ todo["event"] = << >> BY <1>6, <2>3, <2>5, <3>0
    <3>7. upper'.conn = upper.conn /\ upper'.wait = "auth" BY <2>2, <2>3, RequestTypes
    <3>2. Paired' BY <1>5, <1>10, <3>0, <3>1, <3>7 DEF Paired
    <3>8. b = sta.bss BY <2>5, <3>0 DEF Misapplied
    <3>3. sta'.peer = b BY <1>5, <1>10, <3>1, <3>8 DEF Paired
    <3>4. (Believed(None))' /\ upper'.wait # None
      <4>2. Believed(None) BY <1>10, <3>1 DEF Quiet
      <4> QED BY <3>0, <3>7, <4>2 DEF None
    <3>5. (Moves(p))'
      <4>0. "auth" \in Asks /\ "auth" # "assoc" BY DEF Asks
      <4> QED BY <1>2, <2>1, <3>3, <3>4, <4>0 DEF Moves
    <3>6. OneCall' BY <2>2, <2>3, <3>1, <3>5, Requested
    <3> QED BY <3>2, <3>6
  <2> QED BY <2>4, <2>5
<1> HIDE DEF s1, s2
<1> QED BY <1>7, <1>8, <1>9, <1>10 DEF skw_auth, s1, s2

(* skw_assoc, in each state of the station. *)
LEMMA AssocRequest ==
    ASSUME StaInv, NEW b \in Bss, skw_assoc(b)
    PROVE  StaInv'
<1> USE DEF StaInv, Believed
<1>1. upper.wait = None /\ UNCHANGED <<evq, fw>> BY DEF skw_assoc
<1>2. b \in MaybeBss /\ b # None BY StaConstants DEF MaybeBss
<1>3. sta \in StaRecords /\ evq' \in Seq(StaFrames) /\ fw' \in FwRecords BY <1>1 DEF StaTypeOK
<1>4. PICK s \in MaybeBss : s = sta.bss BY <1>3 DEF StaRecords
<1>7. CASE sta.sm \in {"AUTHING", "ASSOCING", "NONE"} /\ Request(None, << >>) /\ UNCHANGED <<sta, astray>>
  <2>1. StaTypeOK' BY <1>2, <1>3, <1>7, CallTypes, RequestTypes, StaTypes DEF StaTypeOK
  <2>2. ASSUME ~Misapplied' PROVE Paired' /\ OneCall'
    <3>1. Paired /\ Quiet /\ todo["event"] = << >> BY <1>7, <2>2, RequestFinds
    <3>3. upper'.wait = None /\ upper'.conn = upper.conn BY <1>2, <1>7, CallTypes, RequestTypes
    <3>2. Paired' BY <1>7, <3>1, <3>3 DEF Paired
    <3>4. Quiet' BY <1>1, <1>7, <3>1, <3>3 DEF Quiet
    <3>5. OneCall' BY <1>7, <3>1, <3>4, Requested
    <3> QED BY <3>2, <3>5
  <2> QED BY <2>1, <2>2
<1>10. CASE sta.sm = "ASSOCED" /\ Request("assoc", << >>) /\ astray' = Strays("kept", TRUE) /\ UNCHANGED sta
  <2>1. astray \subseteq astray' /\ astray' \subseteq Astrays BY <1>10, StraysGrow DEF Astrays
  <2>2. << >> \in Seq(StaCalls) /\ upper'.wait = "assoc" /\ upper'.conn = upper.conn
    BY <1>2, <1>10, CallTypes, RequestTypes
  <2>3. StaTypeOK' BY <1>3, <1>10, <2>1, <2>2, RequestTypes, StaTypes
  <2>4. ASSUME ~Misapplied' PROVE Paired' /\ OneCall'
    <3>1. Paired /\ Quiet /\ todo["event"] = << >> BY <1>10, <2>1, <2>4, RequestFinds
    <3>2. Paired' BY <1>10, <2>1, <2>2, <3>1 DEF Paired
    <3>3. Quiet' BY <1>10, <2>1, <2>2, <3>1 DEF Quiet
    <3>4. OneCall' BY <1>10, <3>1, <3>3, Requested
    <3> QED BY <3>2, <3>4
  <2> QED BY <2>3, <2>4
<1>8. CASE /\ sta.sm = "ASSOCED" /\ sta.bss # b /\ sta' = [sta EXCEPT !.sm = "NONE"] /\ astray' = Strays("moved", TRUE)
           /\ Request("assoc", <<Op("unjoin", sta.bss), Op("join", b), Op("assoc", b)>>)
  <2>1. /\ sta' \in StaRecords /\ sta'.sm = "NONE" /\ sta'.bss = sta.bss /\ sta'.peer = sta.peer
        /\ sta'.entry = sta.entry /\ sta'.report = sta.report
    BY <1>3, <1>8 DEF StaRecords
  <2>2. PICK p : p = <<Op("unjoin", s), Op("join", b), Op("assoc", b)>> OBVIOUS
  <2>3. p \in Seq(StaCalls) /\ p # << >> BY <1>2, <2>2, CallTypes, Tuples
  <2>4. Request("assoc", p) BY <1>4, <1>8, <2>2
  <2>5. astray \subseteq astray' /\ astray' \subseteq Astrays /\ "moved" \in astray' BY <1>8, StraysGrow DEF Astrays
  <2>6. StaTypeOK' BY <1>3, <2>1, <2>3, <2>4, <2>5, RequestTypes, StaTypes
  <2>7. ASSUME ~Misapplied' PROVE Paired' /\ OneCall'
    <3>1. Paired /\ Quiet /\ todo["event"] = << >> BY <2>4, <2>5, <2>7, RequestFinds
    <3>2. Paired' BY <2>1, <2>5, <3>1 DEF Paired
    <3>3. sta'.peer = s /\ s # None /\ sta'.report BY <1>4, <1>8, <2>1, <3>1 DEF Paired, Quiet
    <3>4. (Believed(None))' /\ upper'.wait # None
      <4>1. upper'.wait = "assoc" BY <2>3, <2>4, RequestTypes
      <4> QED BY <2>5, <4>1 DEF None
    <3>5. (Moves(p))'
      <4>0. "assoc" \in Asks BY DEF Asks
      <4> QED BY <1>2, <2>1, <2>2, <3>3, <3>4, <4>0 DEF Moves
    <3>6. OneCall' BY <2>3, <2>4, <3>1, <3>5, Requested
    <3> QED BY <3>2, <3>6
  <2> QED BY <2>6, <2>7
<1>9. CASE sta.sm = "AUTHED" /\ Request("assoc", <<Op("assoc", b)>>) /\ astray' = Strays("elsewhere", b # sta.bss) /\ UNCHANGED sta
  <2>1. PICK p : p = <<Op("assoc", b)>> OBVIOUS
  <2>2. p \in Seq(StaCalls) /\ p # << >> BY <1>2, <2>1, CallTypes, Tuples
  <2>3. Request("assoc", p) BY <1>9, <2>1
  <2>7. astray' \subseteq Astrays BY <1>9, StraysGrow DEF Astrays
  <2>4. StaTypeOK' BY <1>3, <1>9, <2>2, <2>3, <2>7, RequestTypes, StaTypes
  <2>5. ASSUME ~Misapplied' PROVE Paired' /\ OneCall'
    <3>7. astray \subseteq astray' /\ (b # sta.bss => "elsewhere" \in astray')
      BY <1>9, StraysGrow DEF Astrays
    <3>0. astray \subseteq astray' /\ b = sta.bss BY <2>5, <3>7 DEF Misapplied
    <3>1. Paired /\ OneCall /\ Quiet /\ todo["event"] = << >> BY <2>3, <2>5, <3>0, RequestFinds
    <3>8. upper'.conn = upper.conn /\ upper'.wait = "assoc" BY <2>2, <2>3, RequestTypes
    <3>2. Paired' BY <1>9, <3>0, <3>1, <3>8 DEF Paired
    <3>3. sta'.peer = b /\ sta'.report BY <1>9, <3>0, <3>1 DEF Paired, Quiet
    <3>4. (Believed(None))' /\ upper'.wait # None
      <4>2. Believed(None) BY <1>9, <3>1 DEF Quiet
      <4> QED BY <3>0, <3>8, <4>2 DEF None
    <3>5. (Moves(p))'
      <4>0. "assoc" \in Asks BY DEF Asks
      <4> QED BY <1>2, <2>1, <3>3, <3>4, <4>0 DEF Moves
    <3>6. OneCall' BY <2>2, <2>3, <3>1, <3>5, Requested
    <3> QED BY <3>2, <3>6
  <2> QED BY <2>4, <2>5
<1> QED BY <1>7, <1>8, <1>9, <1>10 DEF skw_assoc

(* skw_cfg80211_deauth and skw_cfg80211_disassoc. *)
LEMMA LeaveRequest ==
    ASSUME StaInv, NEW b \in Bss, skw_cfg80211_deauth(b) \/ skw_cfg80211_disassoc(b)
    PROVE  StaInv'
<1> USE DEF StaInv, Believed
<1>1. PICK last \in {"told_if_report", "told_left"} :
         Request(None, <<Op("leave", b), Op(last, b)>>) /\ astray' = Strays("elsewhere", sta.bss \notin {None, b})
         /\ UNCHANGED <<sta, evq, fw>>
  BY DEF skw_cfg80211_deauth, skw_cfg80211_disassoc
<1>2. b \in MaybeBss /\ b # None BY StaConstants DEF MaybeBss
<1>3. sta' \in StaRecords /\ evq' \in Seq(StaFrames) /\ fw' \in FwRecords /\ astray' \subseteq Astrays
      /\ astray \subseteq astray' /\ (sta.bss \notin {None, b} => "elsewhere" \in astray')
  <2>1. "elsewhere" \in Astrays BY DEF Astrays
  <2> QED BY <1>1, <2>1, StraysGrow DEF StaTypeOK
<1>4. PICK p : p = <<Op("leave", b), Op(last, b)>> OBVIOUS
<1>5. p \in Seq(StaCalls) /\ p # << >> /\ Request(None, p) BY <1>1, <1>2, <1>4, CallTypes, Tuples
<1>6. StaTypeOK' BY <1>3, <1>5, RequestTypes, StaTypes
<1>7. ASSUME ~Misapplied' PROVE Paired' /\ OneCall'
  <2>0. astray \subseteq astray' /\ sta.bss \in {None, b} BY <1>3, <1>7 DEF Misapplied
  <2>1. Paired /\ OneCall /\ Quiet /\ todo["event"] = << >> BY <1>5, <1>7, <2>0, RequestFinds
  <2>3. upper'.conn = upper.conn BY <1>5, RequestTypes
  <2>2. Paired' BY <1>1, <2>0, <2>1, <2>3 DEF Paired
  <2>4. Believed(b) /\ (Believed(None) \/ sta.report) BY <2>0, <2>1 DEF Paired, Quiet
  <2>5. (Believed(b))' /\ ((Believed(None))' \/ sta'.report) BY <1>1, <2>0, <2>3, <2>4
  <2>6. (Leaves(p))'
    <3>1. CASE last = "told_if_report" BY <1>2, <1>4, <2>5, <3>1 DEF Leaves
    <3>2. CASE last = "told_left" BY <1>2, <1>4, <2>5, <3>2 DEF Leaves
    <3> QED BY <3>1, <3>2
  <2>7. OneCall' BY <1>5, <2>1, <2>6, Requested
  <2> QED BY <2>2, <2>7
<1> QED BY <1>6, <1>7

(* The work queue takes an event, or the station's work, when no call is under way. *)
LEMMA TakenTypes ==
    ASSUME StaTypeOK, NEW k, Taken(k)
    PROVE  /\ Head(evq) \in StaFrames /\ Head(evq).bss \in MaybeBss /\ Head(evq).ok \in BOOLEAN /\ Head(evq).confirm \in BOOLEAN
           /\ evq' \in Seq(StaFrames) /\ todo["event"] = << >>
<1>1. evq \in Seq(StaFrames) /\ evq # << >> /\ evq' = Tail(evq) BY DEF StaTypeOK, Taken
<1>2. Head(evq) \in StaFrames /\ evq' \in Seq(StaFrames) BY <1>1
<1> QED BY <1>2 DEF StaFrames, Taken

(* An event that waits for the lock finds the station quiet. *)
LEMMA EventFinds ==
    ASSUME StaInv, ~Misapplied, todo["event"] = << >>, wdev_lock = None
    PROVE  Paired /\ OneCall /\ Quiet /\ todo["user"] = << >>
<1>1. Paired /\ OneCall BY DEF StaInv
<1>2. todo["user"] = << >> BY <1>1, UserIdle DEF None
<1> QED BY <1>1, <1>2, BothIdle

(* What the event thread is left with. *)
LEMMA EventTypes ==
    ASSUME StaTypeOK, NEW p \in Seq(StaCalls), EventRuns(p)
    PROVE  todo' \in [{"user", "event"} -> Seq(StaCalls)] /\ wdev_lock' \in {"user", "event", None}
<1>1. todo' = [todo EXCEPT !["event"] = p] /\ wdev_lock' = (IF p = << >> THEN None ELSE "event") BY DEF EventRuns
<1>2. wdev_lock' \in {"user", "event", None} BY <1>1
<1> QED BY <1>1, <1>2 DEF StaTypeOK

(* An event is done, or its thread is in the middle of leaving. *)
LEMMA EventRan ==
    ASSUME StaTypeOK, NEW p, EventRuns(p), todo["user"] = << >>,
           p # << >> => (Leaves(p))',
           p = << >> => Quiet'
    PROVE  OneCall'
<1>1. todo' = [todo EXCEPT !["event"] = p] /\ wdev_lock' = (IF p = << >> THEN None ELSE "event") BY DEF EventRuns
<1>2. todo'["event"] = p /\ todo'["user"] = << >> BY <1>1 DEF StaTypeOK
<1>3. CASE p = << >> BY <1>1, <1>2, <1>3 DEF OneCall
<1>4. CASE p # << >> BY <1>1, <1>2, <1>4 DEF OneCall
<1> QED BY <1>3, <1>4

(* A deauthentication from the access point (skw_sta_rx_deauth) leaves only its own BSS. *)
LEMMA DeauthEvent ==
    ASSUME StaInv, skw_sta_rx_deauth
    PROVE  StaInv'
<1> USE DEF StaInv, Believed
<1>1. PICK b \in MaybeBss : b = Head(evq).bss BY TakenTypes DEF skw_sta_rx_deauth
<1>2. PICK p : p = IF sta.peer = b THEN <<Op("leave", b), Op("told_left", b)>> ELSE << >> OBVIOUS
<1>3. EventRuns(p) /\ wdev_lock = None /\ UNCHANGED <<sta, fw, upper, crossed, astray>>
  BY <1>1, <1>2 DEF skw_sta_rx_deauth, staGhosts
<1>4. evq' \in Seq(StaFrames) /\ todo["event"] = << >> BY TakenTypes DEF skw_sta_rx_deauth
<1>5. p \in Seq(StaCalls) /\ (sta.peer = b <=> p # << >>)
  <2>1. CASE sta.peer = b BY <1>2, <2>1, CallTypes, Tuples
  <2>2. CASE sta.peer # b BY <1>2, <2>2, CallTypes
  <2> QED BY <2>1, <2>2
<1>6. StaTypeOK'
  <2>1. sta' \in StaRecords /\ fw' \in FwRecords /\ upper' \in UpperRecords /\ crossed' \in BOOLEAN /\ astray' \subseteq Astrays
    BY <1>3 DEF StaTypeOK
  <2> QED BY <1>3, <1>4, <1>5, <2>1, EventTypes, StaTypes
<1>7. ASSUME ~Misapplied' PROVE Paired' /\ OneCall'
  <2>0. ~Misapplied BY <1>3, <1>7, Applied
  <2>1. Paired /\ OneCall /\ Quiet /\ todo["user"] = << >> BY <1>3, <1>4, <2>0, EventFinds
  <2>2. Paired' BY <1>3, <2>1 DEF Paired
  <2>3. p = << >> => Quiet' BY <1>3, <2>1 DEF Quiet
  <2>4. p # << >> => (Leaves(p))'
    <3> SUFFICES ASSUME p # << >> PROVE (Leaves(p))' OBVIOUS
    <3>1. p = <<Op("leave", b), Op("told_left", b)>> /\ sta.peer = b BY <1>2, <1>5
    <3>2. Believed(b) BY <2>1, <3>1 DEF Quiet
    <3>3. (Believed(b))' BY <1>3, <3>2
    <3> QED BY <3>1, <3>3 DEF Leaves
  <2>5. OneCall' BY <1>3, <2>1, <2>3, <2>4, EventRan
  <2> QED BY <2>2, <2>5
<1> QED BY <1>6, <1>7

(* An answer to the authentication, taken up or refused (skw_sta_rx_auth). *)
LEMMA AuthEvent ==
    ASSUME StaInv, skw_sta_rx_auth
    PROVE  StaInv'
<1> USE DEF StaInv, Believed
<1>1. PICK f \in StaFrames : f = Head(evq) BY TakenTypes DEF skw_sta_rx_auth
<1>2. PICK b \in MaybeBss : b = f.bss BY <1>1 DEF StaFrames
<1>3. wdev_lock = None /\ UNCHANGED <<fw, crossed>> BY DEF skw_sta_rx_auth
<1>4. evq' \in Seq(StaFrames) /\ todo["event"] = << >> BY TakenTypes DEF skw_sta_rx_auth
<1>5. /\ sta \in StaRecords /\ upper \in UpperRecords /\ fw' \in FwRecords /\ crossed' \in BOOLEAN /\ astray \subseteq Astrays
  BY <1>3 DEF StaTypeOK
<1>6. CASE sta.bss # b
  <2>1. EventRuns(<< >>) /\ UNCHANGED <<sta, upper, astray>> BY <1>1, <1>2, <1>6 DEF skw_sta_rx_auth
  <2>2. StaTypeOK' BY <1>2, <1>4, <1>5, <2>1, CallTypes, EventTypes, StaTypes
  <2>3. ASSUME ~Misapplied' PROVE Paired' /\ OneCall'
    <3>0. ~Misapplied BY <1>3, <2>1, <2>3, Applied
    <3>1. Paired /\ OneCall /\ Quiet /\ todo["user"] = << >> BY <1>3, <1>4, <3>0, EventFinds
    <3>2. Paired' BY <2>1, <3>1 DEF Paired
    <3>3. Quiet' BY <2>1, <3>1 DEF Quiet
    <3>4. OneCall' BY <2>1, <3>1, <3>3, EventRan
    <3> QED BY <3>2, <3>4
  <2> QED BY <2>2, <2>3
<1>7. CASE sta.bss = b
  <2> DEFINE r == f.ok /\ sta.report
             c == (f.ok /\ f.confirm) \/ sta.confirm
             s1 == [sta EXCEPT !.sm = "AUTHED", !.age = 0, !.retry = 0, !.report = r, !.confirm = c]
  <2>1. /\ astray \subseteq astray' /\ astray' \subseteq Astrays
        /\ ~Misapplied' => ~Misapplied /\ sta.sm \in {"AUTHING", "AUTHED"}
    <3>1. astray' = Strays("late", sta.sm \notin {"AUTHING", "AUTHED"}) BY <1>1, <1>2, <1>7 DEF skw_sta_rx_auth
    <3>2. "late" \in Astrays BY DEF Astrays
    <3>3. /\ astray \subseteq astray' /\ astray' \subseteq Astrays
          /\ sta.sm \notin {"AUTHING", "AUTHED"} => "late" \in astray'
      BY <3>1, <3>2, StraysGrow
    <3> QED BY <1>3, <3>3 DEF Misapplied
  <2>2. sta' = s1
    <3>1. sta' = [sta EXCEPT !.sm = "AUTHED", !.age = 0, !.retry = 0, !.report = f.ok /\ @,
                        !.confirm = (f.ok /\ f.confirm) \/ @]
      BY <1>1, <1>2, <1>7 DEF skw_sta_rx_auth
    <3> QED BY <1>5, <3>1 DEF StaRecords
  <2>3. r \in BOOLEAN /\ c \in BOOLEAN /\ (f.ok => (r <=> sta.report)) OBVIOUS
  <2> HIDE DEF r, c
  <2>4. s1 \in StaRecords
    <3>1. 0 \in 0 .. 2 /\ 0 \in Nat OBVIOUS
    <3> QED BY <1>5, <2>3, <3>1 DEF StaRecords
  <2>5. s1.sm = "AUTHED" /\ s1.bss = sta.bss /\ s1.peer = sta.peer /\ s1.entry = sta.entry /\ s1.report = r
        /\ s1.cbss = sta.cbss
    BY <1>5 DEF StaRecords
  <2> HIDE DEF s1
  <2>6. CASE f.ok
    <3>1. upper' = [upper EXCEPT !.wait = None, !.authed = f.bss] /\ EventRuns(<< >>)
      BY <1>1, <1>2, <1>7, <2>6 DEF skw_sta_rx_auth
    <3>2. upper' \in UpperRecords /\ upper'.conn = upper.conn
      <4>1. upper' = [upper EXCEPT !.wait = None, !.authed = b] BY <1>2, <3>1
      <4> QED BY <1>2, <1>5, <4>1 DEF UpperRecords
    <3>3. astray' \subseteq Astrays BY <2>1
    <3>4. StaTypeOK' BY <1>2, <1>4, <1>5, <2>2, <2>4, <3>1, <3>2, <3>3, CallTypes, EventTypes, StaTypes
    <3>5. ASSUME ~Misapplied' PROVE Paired' /\ OneCall'
      <4>1. ~Misapplied /\ sta.sm \in {"AUTHING", "AUTHED"} BY <2>1, <3>5
      <4>2. Paired /\ OneCall /\ Quiet /\ todo["user"] = << >> BY <1>3, <1>4, <3>5, <4>1, EventFinds
      <4>3. Paired' BY <2>1, <2>2, <2>5, <3>2, <4>2 DEF Paired
      <4>4. sta'.peer # None /\ sta'.report /\ sta'.sm = "AUTHED" BY <2>2, <2>3, <2>5, <2>6, <4>1, <4>2 DEF Quiet
      <4>5. (Believed(None))' BY <2>1, <3>2, <4>1, <4>2 DEF Quiet
      <4>6. Quiet' BY <4>4, <4>5 DEF Quiet
      <4>7. OneCall' BY <3>1, <4>2, <4>6, EventRan
      <4> QED BY <4>3, <4>7
    <3> QED BY <3>4, <3>5
  <2>7. CASE ~f.ok
    <3>6. PICK o : o = [Op("auth_frame", b) EXCEPT !.confirm = f.confirm] OBVIOUS
    <3>7. o \in StaCalls /\ Parting(o, b) BY <1>1, <1>2, <3>6 DEF Op, StaCalls, StaOps, StaFrames, Parting
    <3>0. PICK p : p = <<Op("leave", b), o>> OBVIOUS
    <3>1. UNCHANGED upper /\ EventRuns(p) BY <1>1, <1>2, <1>7, <2>7, <3>0, <3>6 DEF skw_sta_rx_auth
    <3>2. p \in Seq(StaCalls) /\ p # << >> BY <3>0, <3>7, CallTypes, Tuples
    <3>3. astray' \subseteq Astrays BY <2>1
    <3>4. StaTypeOK' BY <1>4, <1>5, <2>2, <2>4, <3>1, <3>2, <3>3, EventTypes, StaTypes
    <3>5. ASSUME ~Misapplied' PROVE Paired' /\ OneCall'
      <4>1. ~Misapplied /\ sta.sm \in {"AUTHING", "AUTHED"} BY <2>1, <3>5
      <4>2. Paired /\ OneCall /\ Quiet /\ todo["user"] = << >> BY <1>3, <1>4, <3>5, <4>1, EventFinds
      <4>3. Paired' BY <2>1, <2>2, <2>5, <3>1, <4>2 DEF Paired
      <4>5. (Believed(None))' BY <2>1, <3>1, <4>1, <4>2 DEF Quiet
      <4>8. (Parting(o, b))' BY <3>7 DEF Parting
      <4>6. (Leaves(p))' BY <3>0, <3>7, <4>5, <4>8 DEF Leaves
      <4>7. OneCall' BY <3>1, <3>2, <4>2, <4>6, EventRan
      <4> QED BY <4>3, <4>7
    <3> QED BY <3>4, <3>5
  <2> QED BY <2>6, <2>7
<1> QED BY <1>6, <1>7

(* An answer to the association, taken up or refused (skw_sta_rx_assoc). *)
LEMMA AssocEvent ==
    ASSUME StaInv, skw_sta_rx_assoc
    PROVE  StaInv'
<1> USE DEF StaInv, Believed
<1>1. PICK f \in StaFrames : f = Head(evq) BY TakenTypes DEF skw_sta_rx_assoc
<1>2. PICK b \in MaybeBss : b = f.bss BY <1>1 DEF StaFrames
<1>3. /\ wdev_lock = None /\ UNCHANGED <<fw, crossed>> /\ EventRuns(<< >>)
      /\ astray' = Strays("late", sta.sm # "ASSOCING" /\ sta.peer = b)
  BY <1>1, <1>2 DEF skw_sta_rx_assoc
<1>4. evq' \in Seq(StaFrames) /\ todo["event"] = << >> BY TakenTypes DEF skw_sta_rx_assoc
<1>5. /\ sta \in StaRecords /\ upper \in UpperRecords /\ fw' \in FwRecords /\ crossed' \in BOOLEAN /\ astray' \subseteq Astrays
      /\ astray \subseteq astray' /\ (sta.sm # "ASSOCING" /\ sta.peer = b => "late" \in astray')
  <2>1. "late" \in Astrays BY DEF Astrays
  <2> QED BY <1>3, <2>1, StraysGrow DEF StaTypeOK
<1>6. todo' \in [{"user", "event"} -> Seq(StaCalls)] /\ wdev_lock' \in {"user", "event", None}
  BY <1>2, <1>3, CallTypes, EventTypes
<1>7. ASSUME ~Misapplied'
      PROVE  Paired /\ OneCall /\ Quiet /\ todo["user"] = << >> /\ (sta.sm = "ASSOCING" \/ sta.peer # b)
  <2>1. ~Misapplied /\ (sta.sm = "ASSOCING" \/ sta.peer # b) BY <1>3, <1>5, <1>7 DEF Misapplied
  <2> QED BY <1>3, <1>4, <2>1, EventFinds
<1>8. CASE sta.bss = None \/ sta.peer # b
  <2>1. UNCHANGED <<sta, upper>> BY <1>1, <1>2, <1>8 DEF skw_sta_rx_assoc
  <2>2. StaTypeOK' BY <1>4, <1>5, <1>6, <2>1, StaTypes
  <2>3. ASSUME ~Misapplied' PROVE Paired' /\ OneCall'
    <3>1. Paired' BY <1>5, <1>7, <2>1, <2>3 DEF Paired
    <3>2. Quiet' BY <1>5, <1>7, <2>1, <2>3 DEF Quiet
    <3>3. OneCall' BY <1>3, <1>7, <2>3, <3>2, EventRan
    <3> QED BY <3>1, <3>3
  <2> QED BY <2>2, <2>3
<1>9. CASE ~(sta.bss = None \/ sta.peer # b)
  <2>1. upper' = (IF sta.cbss = None THEN upper
                  ELSE [wait |-> None, authed |-> None, conn |-> IF f.ok THEN f.bss ELSE None])
    BY <1>1, <1>2, <1>9 DEF skw_sta_rx_assoc
  <2>2. upper' \in UpperRecords /\ upper'.conn \in {upper.conn, IF f.ok THEN b ELSE None}
    <3>1. CASE sta.cbss = None BY <1>5, <2>1, <3>1
    <3>2. CASE sta.cbss # None
      <4> DEFINE c == IF f.ok THEN b ELSE None
      <4>1. c \in MaybeBss /\ None \in MaybeBss BY DEF MaybeBss
      <4>2. upper' = [wait |-> None, authed |-> None, conn |-> c] BY <1>2, <2>1, <3>2
      <4> HIDE DEF c
      <4>3. upper' \in UpperRecords /\ upper'.conn = c BY <4>1, <4>2 DEF UpperRecords
      <4> QED BY <4>3 DEF c
    <3> QED BY <3>1, <3>2
  <2>3. CASE f.ok
    <3> DEFINE s1 == [sta EXCEPT !.entry = sta.peer]
    <3>1. sta' = [s1 EXCEPT !.sm = "ASSOCED", !.carrier = TRUE, !.cbss = None]
      BY <1>1, <1>2, <1>9, <2>3 DEF skw_sta_rx_assoc, skw_peer_ctx_transmit
    <3>2. s1 \in StaRecords /\ s1.bss = sta.bss /\ s1.peer = sta.peer /\ s1.entry = sta.peer /\ s1.report = sta.report
      BY <1>5 DEF StaRecords
    <3> HIDE DEF s1
    <3>3. None \in MaybeBss BY DEF MaybeBss
    <3>4. /\ sta' \in StaRecords /\ sta'.bss = sta.bss /\ sta'.peer = sta.peer /\ sta'.entry = sta.peer
          /\ sta'.sm = "ASSOCED" /\ sta'.carrier = TRUE /\ sta'.report = sta.report /\ sta'.cbss = None
      BY <3>1, <3>2, <3>3 DEF StaRecords
    <3>5. StaTypeOK' BY <1>4, <1>5, <1>6, <2>2, <3>4, StaTypes
    <3>6. ASSUME ~Misapplied' PROVE Paired' /\ OneCall'
      <4>1. Paired' BY <1>7, <3>4, <3>6 DEF Paired
      <4>2. sta.sm = "ASSOCING" /\ sta.peer = b BY <1>7, <1>9, <3>6
      <4>3. sta.report /\ sta.peer # None /\ Believed(None) BY <1>7, <3>6, <4>2 DEF Quiet
      <4>4. (Believed(b))' BY <1>5, <2>2, <4>3
      <4>5. Quiet' BY <3>4, <4>2, <4>3, <4>4 DEF Quiet
      <4>6. OneCall' BY <1>3, <1>7, <3>6, <4>5, EventRan
      <4> QED BY <4>1, <4>6
    <3> QED BY <3>5, <3>6
  <2>4. CASE ~f.ok
    <3>1. sta' = [sta EXCEPT !.sm = "NONE", !.report = FALSE, !.cbss = None]
      BY <1>1, <1>2, <1>9, <2>4 DEF skw_sta_rx_assoc
    <3>2. None \in MaybeBss BY DEF MaybeBss
    <3>3. sta' \in StaRecords /\ sta'.bss = sta.bss /\ sta'.peer = sta.peer /\ sta'.entry = sta.entry /\ sta'.sm = "NONE"
          /\ sta'.cbss = None
      BY <1>5, <3>1, <3>2 DEF StaRecords
    <3>4. StaTypeOK' BY <1>4, <1>5, <1>6, <2>2, <3>3, StaTypes
    <3>5. ASSUME ~Misapplied' PROVE Paired' /\ OneCall'
      <4>1. Paired' BY <1>7, <3>3, <3>5 DEF Paired
      <4>2. sta.sm = "ASSOCING" BY <1>7, <1>9, <3>5
      <4>3. (Believed(None))' BY <1>5, <1>7, <2>2, <2>4, <3>5, <4>2 DEF Quiet
      <4>4. Quiet' BY <3>3, <4>3 DEF Quiet
      <4>5. OneCall' BY <1>3, <1>7, <3>5, <4>4, EventRan
      <4> QED BY <4>1, <4>5
    <3> QED BY <3>4, <3>5
  <2> QED BY <2>3, <2>4
<1> QED BY <1>8, <1>9

(* The disconnect event, which takes no lock (skw_event_disconnect). *)
LEMMA DisconnectEvent ==
    ASSUME StaInv, skw_event_disconnect
    PROVE  StaInv'
<1> USE DEF StaInv, Believed
<1>1. PICK b \in MaybeBss : b = Head(evq).bss BY TakenTypes DEF skw_event_disconnect
<1>2. PICK p : p = <<Op("leave", b), IF sta.cbss = None THEN Op("told_left", b) ELSE Op("quiet", b)>> OBVIOUS
<1>3. /\ todo' = [todo EXCEPT !["event"] = p] /\ astray' = Strays("elsewhere", sta.bss \notin {None, b}) \cup Strays("silent", sta.cbss # None)
      /\ crossed' = (crossed \/ todo["user"] # << >>) /\ UNCHANGED <<sta, wdev_lock, fw, upper>>
  BY <1>1, <1>2 DEF skw_event_disconnect
<1>4. evq' \in Seq(StaFrames) /\ todo["event"] = << >> BY TakenTypes DEF skw_event_disconnect
<1>8. /\ astray \subseteq astray' /\ astray' \subseteq Astrays
      /\ sta.bss \notin {None, b} => "elsewhere" \in astray'
  <2>1. "elsewhere" \in Astrays /\ "silent" \in Astrays BY DEF Astrays
  <2> QED BY <1>3, <2>1, StraysGrow
<1>5. p \in Seq(StaCalls)
  <2>1. CASE sta.cbss = None BY <1>2, <2>1, CallTypes
  <2>2. CASE sta.cbss # None BY <1>2, <2>2, CallTypes
  <2> QED BY <2>1, <2>2
<1>6. StaTypeOK'
  <2>1. sta' \in StaRecords /\ fw' \in FwRecords /\ upper' \in UpperRecords /\ wdev_lock' \in {"user", "event", None}
    BY <1>3 DEF StaTypeOK
  <2>2. crossed' \in BOOLEAN /\ astray' \subseteq Astrays BY <1>3, <1>8
  <2>3. todo' \in [{"user", "event"} -> Seq(StaCalls)] BY <1>3, <1>5 DEF StaTypeOK
  <2> QED BY <1>4, <2>1, <2>2, <2>3, StaTypes
<1>7. ASSUME ~Misapplied' PROVE Paired' /\ OneCall'
  <2>1. ~Misapplied /\ todo["user"] = << >> /\ sta.bss \in {None, b} BY <1>3, <1>7, <1>8 DEF Misapplied
  <2>2. Paired /\ OneCall BY <2>1
  <2>3. wdev_lock = None /\ Quiet BY <1>4, <2>1, <2>2, BothIdle
  <2>4. Paired' BY <1>3, <1>8, <2>2 DEF Paired
  <2>7. (Leaves(p))'
    <3>1. CASE sta.cbss = None
      <4>1. Believed(b) BY <2>1, <2>2, <2>3 DEF Paired, Quiet
      <4>2. (Believed(b))' BY <1>3, <1>8, <4>1
      <4> QED BY <1>2, <3>1, <4>2 DEF Leaves
    <3>2. CASE sta.cbss # None
      <4>1. (Believed(None))' BY <1>3, <1>8, <2>2, <3>2 DEF Paired
      <4>2. Op("quiet", b) \in StaCalls /\ (Parting(Op("quiet", b), b))'
        BY OpFields DEF Parting, StaOps
      <4> QED BY <1>2, <3>2, <4>1, <4>2 DEF Leaves
    <3> QED BY <3>1, <3>2
  <2>8. todo'["event"] = p /\ todo'["user"] = << >> /\ wdev_lock' # "user" BY <1>3, <2>1, <2>3 DEF StaTypeOK, None
  <2>9. OneCall' BY <2>7, <2>8 DEF OneCall
  <2> QED BY <2>4, <2>9
<1> QED BY <1>6, <1>7

(* A disconnect that says nothing has cut an association short. *)
LEMMA QuietStep ==
    ASSUME StaInv, StepQuiet
    PROVE  StaInv'
<1> USE DEF StaInv, Believed
<1>1. /\ todo["event"] # << >> /\ Head(todo["event"]).op = "quiet" /\ sta' = [sta EXCEPT !.cbss = None]
      /\ Continue("event", Tail(todo["event"])) /\ UNCHANGED <<evq, fw, upper, crossed, astray>>
  BY DEF StepQuiet, At, staGhosts
<1>2. StaTypeOK'
  <2>1. evq' \in Seq(StaFrames) /\ fw' \in FwRecords /\ upper' \in UpperRecords /\ crossed' \in BOOLEAN /\ astray' \subseteq Astrays
    BY <1>1 DEF StaTypeOK
  <2>2. sta' \in StaRecords BY <1>1 DEF StaTypeOK, StaRecords, MaybeBss
  <2> QED BY <1>1, <2>1, <2>2, TailTypes, ContinueTypes, StaTypes
<1>3. ASSUME ~Misapplied' PROVE Paired' /\ OneCall'
  <2>1. Paired /\ OneCall BY <1>1, <1>3, Applied
  <2>2. PICK p : p = todo["event"] OBVIOUS
  <2>3. Leaves(p) /\ Head(p).op = "quiet" BY <1>1, <2>1, <2>2, Busy
  <2>4. sta.sm = "NONE" /\ Believed(None) /\ Tail(p) = << >> BY <2>3, AtQuiet
  <2>5. /\ sta'.cbss = None /\ sta'.sm = "NONE" /\ sta'.bss = sta.bss /\ sta'.peer = sta.peer /\ sta'.entry = sta.entry
        /\ (Believed(None))'
    BY <1>1, <2>4 DEF StaTypeOK, StaRecords
  <2>6. Paired' BY <2>1, <2>5 DEF Paired
  <2>7. Quiet' BY <2>5 DEF Quiet
  <2>8. OneCall' BY <1>1, <2>1, <2>2, <2>4, <2>7, Continues
  <2> QED BY <2>6, <2>8
<1> QED BY <1>2, <1>3

(* A frame that was sent again is dropped (skw_sta_rx_mgmt). *)
LEMMA DroppedEvent ==
    ASSUME StaInv, RetryDropped
    PROVE  StaInv'
<1>1. UNCHANGED <<sta, todo, wdev_lock, fw, upper, crossed, astray>> BY DEF RetryDropped, staGhosts
<1>2. evq' \in Seq(StaFrames) BY TakenTypes DEF RetryDropped, StaInv
<1> QED BY <1>1, <1>2
        DEF StaInv, StaTypeOK, Misapplied, Paired, OneCall, Quiet, Moves, Leaves, Parting, Believed

(* The timer only queues the work (skw_sta_timer). *)
LEMMA TimerStep ==
    ASSUME StaInv, skw_sta_timer
    PROVE  StaInv'
<1> USE DEF StaInv, Believed
<1> DEFINE a == IF sta.age < 2 THEN sta.age + 1 ELSE 2
<1>1. sta \in StaRecords BY DEF StaTypeOK
<1>2. /\ sta' = [sta EXCEPT !.timer = FALSE, !.work = TRUE, !.age = a]
      /\ UNCHANGED <<todo, wdev_lock, evq, fw, upper, crossed, astray>>
  BY <1>1 DEF skw_sta_timer, staGhosts, StaRecords
<1>3. a \in 0 .. 2
  <2>1. sta.age \in 0 .. 2 BY <1>1 DEF StaRecords
  <2> QED BY <2>1
<1> HIDE DEF a
<1>4. /\ sta' \in StaRecords /\ sta'.sm = sta.sm /\ sta'.bss = sta.bss /\ sta'.peer = sta.peer /\ sta'.entry = sta.entry
      /\ sta'.carrier = sta.carrier /\ sta'.report = sta.report /\ sta'.cbss = sta.cbss
  BY <1>1, <1>2, <1>3 DEF StaRecords
<1>5. StaTypeOK' BY <1>2, <1>4 DEF StaTypeOK
<1>6. ASSUME ~Misapplied' PROVE Paired' /\ OneCall'
  <2>1. Paired /\ OneCall BY <1>2, <1>6, Applied
  <2>2. Paired' BY <1>2, <1>4, <2>1 DEF Paired
  <2>3. Quiet => Quiet' BY <1>2, <1>4 DEF Quiet
  <2>4. Moves(todo["user"]) => (Moves(todo["user"]))' BY <1>2, <1>4 DEF Moves
  <2>5. \A t \in {"user", "event"} : Leaves(todo[t]) => (Leaves(todo[t]))' BY <1>2, <1>4 DEF Leaves, Parting
  <2>6. OneCall' BY <1>2, <2>1, <2>3, <2>4, <2>5 DEF OneCall
  <2> QED BY <2>2, <2>6
<1> QED BY <1>5, <1>6

(* The work gives the attempt up, or asks again (skw_sta_work). *)
LEMMA WorkStep ==
    ASSUME StaInv, skw_sta_work
    PROVE  StaInv'
<1> USE DEF StaInv, Believed
<1> DEFINE s == [sta EXCEPT !.work = FALSE]
           Same(x) == /\ x \in StaRecords /\ x.sm = sta.sm /\ x.bss = sta.bss /\ x.peer = sta.peer /\ x.entry = sta.entry
                      /\ x.carrier = sta.carrier /\ x.cbss = sta.cbss
           up == [s EXCEPT !.report = FALSE]
           again == [s EXCEPT !.retry = @ + 1]
           out == [s EXCEPT !.report = FALSE, !.retry = @ + 1]
<1>1. sta \in StaRecords BY DEF StaTypeOK
<1>2. /\ todo["event"] = << >> /\ wdev_lock = None /\ UNCHANGED <<evq, upper, crossed, astray>>
  BY DEF skw_sta_work, staGhosts
<1>3. \/ sta.sm \notin Pending /\ sta' = s /\ EventRuns(<< >>) /\ UNCHANGED fw
      \/ /\ sta.sm \in Pending /\ (GivesUp(up) \/ GivesUp(out)) /\ UNCHANGED fw
      \/ /\ sta.sm \in Pending /\ (RunsAgain(s) \/ RunsAgain(again))
         /\ fw' \in {fw, skw_cmd_auth, skw_cmd_assoc}
  BY DEF skw_sta_work, Pending
<1>4. Same(s) /\ s.report = sta.report /\ s.retry \in Nat BY <1>1 DEF StaRecords
<1> HIDE DEF s
<1>5. Same(up) /\ Same(again) /\ again.report = sta.report /\ Same(out)
  <2>1. s.retry + 1 \in Nat BY <1>4
  <2>2. Same(up) BY <1>4 DEF StaRecords
  <2>3. Same(again) /\ again.report = sta.report BY <1>4, <2>1 DEF StaRecords
  <2>4. Same(out) BY <1>4, <2>1 DEF StaRecords
  <2> QED BY <2>2, <2>3, <2>4
<1> HIDE DEF up, again, out
<1>6. evq' \in Seq(StaFrames) /\ upper' \in UpperRecords /\ crossed' \in BOOLEAN /\ astray' \subseteq Astrays /\ fw \in FwRecords
  BY <1>2 DEF StaTypeOK
<1>7. ASSUME NEW x, Same(x), GivesUp(x), fw' \in FwRecords, sta.sm \in Pending
      PROVE  StaInv'
  <2>1. PICK b \in MaybeBss : b = x.bss BY <1>7 DEF StaRecords
  <2>2. PICK p : p = <<Op("leave", b), Op("timed_out", b)>> OBVIOUS
  <2>3. sta' = x /\ EventRuns(p) BY <1>7, <2>1, <2>2 DEF GivesUp
  <2>4. p \in Seq(StaCalls) /\ p # << >> BY <2>2, CallTypes, Tuples
  <2>5. StaTypeOK' BY <1>6, <1>7, <2>3, <2>4, EventTypes, StaTypes
  <2>6. ASSUME ~Misapplied' PROVE Paired' /\ OneCall'
    <3>0. ~Misapplied BY <1>2, <2>6, Applied
    <3>1. Paired /\ OneCall /\ Quiet /\ todo["user"] = << >> BY <1>2, <3>0, EventFinds
    <3>2. Paired' BY <1>2, <1>7, <2>3, <3>1 DEF Paired
    <3>3. Op("timed_out", b) \in StaCalls /\ (Parting(Op("timed_out", b), b))' BY OpFields DEF Parting, StaOps
    <3>4. (Believed(None))' BY <1>2, <1>7, <3>1 DEF Quiet, Pending
    <3>5. (Leaves(p))' BY <2>2, <3>3, <3>4 DEF Leaves
    <3>6. OneCall' BY <2>3, <2>4, <3>1, <3>5, EventRan
    <3> QED BY <3>2, <3>6
  <2> QED BY <2>5, <2>6
<1>8. ASSUME NEW x, Same(x), x.report = sta.report, sta' = x, EventRuns(<< >>), fw' \in FwRecords
      PROVE  StaInv'
  <2>1. << >> \in Seq(StaCalls) OBVIOUS
  <2>2. StaTypeOK' BY <1>6, <1>8, <2>1, EventTypes, StaTypes
  <2>3. ASSUME ~Misapplied' PROVE Paired' /\ OneCall'
    <3>0. ~Misapplied BY <1>2, <2>3, Applied
    <3>1. Paired /\ OneCall /\ Quiet /\ todo["user"] = << >> BY <1>2, <3>0, EventFinds
    <3>2. Paired' BY <1>2, <1>8, <3>1 DEF Paired
    <3>3. Quiet' BY <1>2, <1>8, <3>1 DEF Quiet
    <3>4. OneCall' BY <1>8, <3>1, <3>3, EventRan
    <3> QED BY <3>2, <3>4
  <2> QED BY <2>2, <2>3
<1>9. ASSUME NEW x, Same(x), x.report = sta.report, RunsAgain(x), fw' \in FwRecords
      PROVE  StaInv'
  <2> DEFINE y == [x EXCEPT !.timer = TRUE]
  <2>1. sta' = y /\ EventRuns(<< >>) BY <1>9 DEF RunsAgain
  <2>2. Same(y) /\ y.report = sta.report BY <1>9 DEF StaRecords
  <2> HIDE DEF y
  <2> QED BY <1>8, <1>9, <2>1, <2>2
<1> HIDE DEF Same
<1>10. CASE sta.sm \notin Pending /\ sta' = s /\ EventRuns(<< >>) /\ UNCHANGED fw
  BY <1>4, <1>6, <1>8, <1>10
<1>11. CASE sta.sm \in Pending /\ (GivesUp(up) \/ GivesUp(out)) /\ UNCHANGED fw
  BY <1>5, <1>6, <1>7, <1>11
<1>12. CASE sta.sm \in Pending /\ (RunsAgain(s) \/ RunsAgain(again)) /\ fw' \in {fw, skw_cmd_auth, skw_cmd_assoc}
  <2>1. fw' \in FwRecords BY <1>6, <1>12, FwTypes
  <2> QED BY <1>4, <1>5, <1>9, <1>12, <2>1
<1> QED BY <1>3, <1>10, <1>11, <1>12

(* The firmware queues a frame. *)
LEMMA SendsStep ==
    ASSUME StaInv, FirmwareSends
    PROVE  StaInv'
<1>1. UNCHANGED <<sta, todo, wdev_lock, fw, upper, crossed, astray>> BY DEF FirmwareSends, staGhosts
<1>2. evq' \in Seq(StaFrames)
  <2>1. evq \in Seq(StaFrames) /\ fw.bss \in MaybeBss BY DEF StaInv, StaTypeOK, FwRecords
  <2>2. PICK f \in [kind : {"auth", "assoc", "deauth", "discon"}, bss : {fw.bss}, ok : BOOLEAN, confirm : BOOLEAN] :
           evq' = Append(evq, f)
    BY DEF FirmwareSends
  <2>3. f \in StaFrames BY <2>1, <2>2 DEF StaFrames
  <2> QED BY <2>1, <2>2, <2>3
<1> QED BY <1>1, <1>2
        DEF StaInv, StaTypeOK, Misapplied, Paired, OneCall, Quiet, Moves, Leaves, Parting, Believed

(* Every step keeps the invariant. *)
LEMMA StaNextInv == StaInv /\ [StaNext]_StaVars => StaInv'
<1> SUFFICES ASSUME StaInv, [StaNext]_StaVars PROVE StaInv' OBVIOUS
<1>1. ASSUME NEW b \in Bss, NEW conf \in BOOLEAN, skw_auth(b, conf) PROVE StaInv' BY <1>1, AuthRequest
<1>2. ASSUME NEW b \in Bss, skw_assoc(b) PROVE StaInv' BY <1>2, AssocRequest
<1>3. ASSUME NEW b \in Bss, skw_cfg80211_deauth(b) \/ skw_cfg80211_disassoc(b) PROVE StaInv' BY <1>3, LeaveRequest
<1>4. ASSUME NEW t \in {"user", "event"}, StaStep(t) PROVE StaInv'
  BY <1>4, LeaveStep, UnjoinStep, JoinStep, AsksStep, StaTellsStep DEF StaStep
<1>5. CASE StepQuiet BY <1>5, QuietStep
<1>6. CASE StaEvent BY <1>6, DroppedEvent, DeauthEvent, AuthEvent, AssocEvent, DisconnectEvent, WorkStep DEF StaEvent
<1>7. CASE skw_sta_timer BY <1>7, TimerStep
<1>8. CASE FirmwareSends BY <1>8, SendsStep
<1>9. CASE UNCHANGED StaVars
  BY <1>9, SMTT(30)
  DEF StaVars, staGhosts, StaInv, StaTypeOK, Misapplied, Paired, OneCall, Quiet, Moves, Leaves, Parting, Believed
<1> QED BY <1>1, <1>2, <1>3, <1>4, <1>5, <1>6, <1>7, <1>8, <1>9 DEF StaNext

(* Between calls the invariant is the safety property. *)
LEMMA StaInvSafe == StaInv => StaSafe
<1> SUFFICES ASSUME StaInv, ~Misapplied, ~StaBusy PROVE StaSafe
  BY DEF StaSafe, StaBound, StaToldLeft
<1>1. Paired /\ OneCall /\ todo["user"] = << >> /\ todo["event"] = << >> BY DEF StaInv, StaBusy
<1>2. Quiet BY <1>1, BothIdle
<1> QED BY <1>1, <1>2 DEF StaSafe, StaBound, StaToldLeft, Paired, Quiet, Believed

(* The station's invariant holds in every reachable state, for every set of access points and any
   number of requests, frames and refused commands (skw_cfg80211.c, skw_mlme.c). *)
THEOREM StationInvariance == StaSpec => []StaInv
BY StaInitInv, StaNextInv, PTL DEF StaSpec

(* Between calls the BSS, its peer context and the transmit entry name one access point, and cfg80211 never believes in
   a connection the driver has left, a reassociation's move aside; unless a request and a disconnect event ran side by
   side or an answer met another attempt than its own (skw_auth, skw_assoc, skw_sta_leave, skw_event_disconnect). *)
THEOREM StationSafety == StaSpec => []StaSafe
BY StationInvariance, StaInvSafe, PTL

-----------------------------------------------------------------------------
(* SkwIface: the interfaces.                                               *)

AnyType == Types \cup {P2pDev}
(* What probe has set up after its first k parts. *)
Prefix(k) == {InitOrder[j] : j \in 1 .. k}
Operation == [at : {"idle", "open", "register", "shut", "cancel", "close", "reopen", "restore"}, inst : Insts,
              type : AnyType \cup {"none"}, next : {"none", "register", "unregistered", "free", "reopen"},
              locked : BOOLEAN]
Entry == [type : AnyType \cup {"none"}, enabled : BOOLEAN]
IfaceTypeOK ==
    /\ bitmap \subseteq Insts /\ vif \subseteq Insts /\ halfway \subseteq Insts
    /\ iface \in [Insts -> Entry]
    /\ fwdev \in [Insts -> AnyType \cup {Closed}] /\ opened_dev \in Int
    /\ op \in Operation
    /\ rx \in Insts \cup {-1} /\ queued \in [Insts -> Nat] /\ ifaceWorker \in [Insts -> {"idle", "lock", "run"}]
    /\ late \in BOOLEAN

(* While probe builds, what is set up is a prefix of its order; afterwards all of it is. *)
PartsBuilt ==
    /\ clean = TRUE
    /\ phase = "absent" => subsys = {}
    /\ phase = "core" => \E k \in 1 .. 15 : subsys = Prefix(k)
    /\ phase \notin {"absent", "core", "deaf"} => subsys = Prefix(16)

(* OffTable: the interface of the operation has a number and is not in the table. *)
Going(ats) == op.at \in ats
OffTable == Going({"open"}) \/ (Going({"shut", "cancel", "close"}) /\ op.next # "reopen")

(* What the steps of an operation have in common. *)
OpStages ==
    /\ op.at = "idle" => op = NoOp
    /\ Going({"open", "register"}) => op.next = "register"
    /\ Going({"shut", "cancel", "close"}) => op.next \in {"unregistered", "free", "reopen"}
    /\ Going({"reopen", "restore"}) => op.next = "reopen"
    /\ op.next \in {"register", "reopen"} => op.type \in AnyType
    /\ Going({"cancel", "close"}) => ~iface[op.inst].enabled

(* Probe adds one interface and then another, and takes the first back when the second fails. *)
IfacePhase ==
    /\ phase \in {"absent", "core", "deaf", "failed", "wlan", "p2p", "undo", "up", "removing"}
    /\ phase \in {"absent", "core", "deaf", "failed"} => op = NoOp /\ vif = {}
    /\ phase \in {"wlan", "p2p"} => op.next \in {"none", "register", "unregistered"}
    /\ phase = "wlan" => IF op = NoOp THEN vif = {} ELSE vif \ {op.inst} = {}
    /\ phase = "p2p" => \E a \in Insts : IF op = NoOp THEN vif = {a} ELSE vif \ {op.inst} = {a}
    /\ phase = "undo" => IF op = NoOp THEN \E a \in Insts : vif = {a} ELSE vif = {} /\ op.next = "free"

(* Bitmap, table and allocation, whatever operation is under way. *)
TablesAgree ==
    /\ \A i \in Insts : i \in bitmap <=> iface[i] # NoIface
    /\ \A i \in Insts : iface[i].type = "none" => iface[i] = NoIface
    /\ IF OffTable THEN op.inst \notin vif /\ bitmap = vif \cup {op.inst} ELSE bitmap = vif
    /\ op.at # "idle" => op.inst \in bitmap

(* The firmware has a device for exactly the interfaces there are, but for the one being opened and
   for those whose command was refused. *)
DevicesAgree ==
    /\ \A i \in Insts \ halfway : fwdev[i] # Closed <=> i \in bitmap /\ ~(Going({"open", "reopen", "restore"}) /\ i = op.inst)
    /\ Going({"reopen", "restore"}) => fwdev[op.inst] = Closed

(* Events are found, queued and handled only on an interface that is there and not behind its
   teardown. *)
EventsLive ==
    ~late => \A i \in Insts : ifaceWorker[i] # "idle" \/ queued[i] > 0 \/ rx = i =>
        /\ i \in bitmap /\ fwdev[i] # Closed
        /\ ~(Going({"open", "close", "reopen", "restore"}) /\ i = op.inst)

IfaceInv == IfaceTypeOK /\ PartsBuilt /\ OpStages /\ IfacePhase /\ TablesAgree /\ DevicesAgree /\ EventsLive /\ IfaceOpenCount

\* One part more.
LEMMA PrefixNext == /\ Prefix(0) = {}
                    /\ \A k \in Nat : Prefix(k + 1) = Prefix(k) \cup {InitOrder[k + 1]}
<1>1. Prefix(0) = {} BY DEF Prefix
<1>2. ASSUME NEW k \in Nat PROVE Prefix(k + 1) = Prefix(k) \cup {InitOrder[k + 1]}
  <2>1. 1 .. k + 1 = (1 .. k) \cup {k + 1} OBVIOUS
  <2> HIDE DEF InitOrder
  <2> QED BY <2>1 DEF Prefix
<1> QED BY <1>1, <1>2

\* The prefixes one by one.
LEMMA Prefixes ==
    /\ Prefix(0) = {}
    /\ Prefix(1) = {"wakeup"}
    /\ Prefix(2) = {"wakeup", "event_wq"}
    /\ Prefix(3) = {"wakeup", "event_wq", "dpd"}
    /\ Prefix(4) = {"wakeup", "event_wq", "dpd", "sgl_dat"}
    /\ Prefix(5) = {"wakeup", "event_wq", "dpd", "sgl_dat", "sgl_cmd"}
    /\ Prefix(6) = {"wakeup", "event_wq", "dpd", "sgl_dat", "sgl_cmd", "cmd_data"}
    /\ Prefix(7) = {"wakeup", "event_wq", "dpd", "sgl_dat", "sgl_cmd", "cmd_data", "rx_cmd_cb"}
    /\ Prefix(8) = {"wakeup", "event_wq", "dpd", "sgl_dat", "sgl_cmd", "cmd_data", "rx_cmd_cb", "rx_data_cb"}
    /\ Prefix(9) = {"wakeup", "event_wq", "dpd", "sgl_dat", "sgl_cmd", "cmd_data", "rx_cmd_cb", "rx_data_cb", "rx_thread"}
    /\ Prefix(10) = {"wakeup", "event_wq", "dpd", "sgl_dat", "sgl_cmd", "cmd_data", "rx_cmd_cb", "rx_data_cb", "rx_thread", "eof_blk"}
    /\ Prefix(11) = {"wakeup", "event_wq", "dpd", "sgl_dat", "sgl_cmd", "cmd_data", "rx_cmd_cb", "rx_data_cb", "rx_thread", "eof_blk", "xmit"}
    /\ Prefix(12) = {"wakeup", "event_wq", "dpd", "sgl_dat", "sgl_cmd", "cmd_data", "rx_cmd_cb", "rx_data_cb", "rx_thread", "eof_blk", "xmit", "tx_thread"}
    /\ Prefix(13) = {"wakeup", "event_wq", "dpd", "sgl_dat", "sgl_cmd", "cmd_data", "rx_cmd_cb", "rx_data_cb", "rx_thread", "eof_blk", "xmit", "tx_thread", "work"}
    /\ Prefix(14) = {"wakeup", "event_wq", "dpd", "sgl_dat", "sgl_cmd", "cmd_data", "rx_cmd_cb", "rx_data_cb", "rx_thread", "eof_blk", "xmit", "tx_thread", "work", "wifi"}
    /\ Prefix(15) = {"wakeup", "event_wq", "dpd", "sgl_dat", "sgl_cmd", "cmd_data", "rx_cmd_cb", "rx_data_cb", "rx_thread", "eof_blk", "xmit", "tx_thread", "work", "wifi", "synced"}
    /\ Prefix(16) = {"wakeup", "event_wq", "dpd", "sgl_dat", "sgl_cmd", "cmd_data", "rx_cmd_cb", "rx_data_cb", "rx_thread", "eof_blk", "xmit", "tx_thread", "work", "wifi", "synced", "wiphy"}
<1>0. Prefix(0) = {} BY PrefixNext
<1>1. Prefix(1) = {"wakeup"}
  <2>1. Prefix(0 + 1) = Prefix(0) \cup {InitOrder[0 + 1]} BY PrefixNext
  <2>2. InitOrder[0 + 1] = "wakeup" BY DEF InitOrder
  <2> QED BY <1>0, <2>1, <2>2
<1>2. Prefix(2) = {"wakeup", "event_wq"}
  <2>1. Prefix(1 + 1) = Prefix(1) \cup {InitOrder[1 + 1]} BY PrefixNext
  <2>2. InitOrder[1 + 1] = "event_wq" BY DEF InitOrder
  <2> QED BY <1>1, <2>1, <2>2
<1>3. Prefix(3) = {"wakeup", "event_wq", "dpd"}
  <2>1. Prefix(2 + 1) = Prefix(2) \cup {InitOrder[2 + 1]} BY PrefixNext
  <2>2. InitOrder[2 + 1] = "dpd" BY DEF InitOrder
  <2> QED BY <1>2, <2>1, <2>2
<1>4. Prefix(4) = {"wakeup", "event_wq", "dpd", "sgl_dat"}
  <2>1. Prefix(3 + 1) = Prefix(3) \cup {InitOrder[3 + 1]} BY PrefixNext
  <2>2. InitOrder[3 + 1] = "sgl_dat" BY DEF InitOrder
  <2> QED BY <1>3, <2>1, <2>2
<1>5. Prefix(5) = {"wakeup", "event_wq", "dpd", "sgl_dat", "sgl_cmd"}
  <2>1. Prefix(4 + 1) = Prefix(4) \cup {InitOrder[4 + 1]} BY PrefixNext
  <2>2. InitOrder[4 + 1] = "sgl_cmd" BY DEF InitOrder
  <2> QED BY <1>4, <2>1, <2>2
<1>6. Prefix(6) = {"wakeup", "event_wq", "dpd", "sgl_dat", "sgl_cmd", "cmd_data"}
  <2>1. Prefix(5 + 1) = Prefix(5) \cup {InitOrder[5 + 1]} BY PrefixNext
  <2>2. InitOrder[5 + 1] = "cmd_data" BY DEF InitOrder
  <2> QED BY <1>5, <2>1, <2>2
<1>7. Prefix(7) = {"wakeup", "event_wq", "dpd", "sgl_dat", "sgl_cmd", "cmd_data", "rx_cmd_cb"}
  <2>1. Prefix(6 + 1) = Prefix(6) \cup {InitOrder[6 + 1]} BY PrefixNext
  <2>2. InitOrder[6 + 1] = "rx_cmd_cb" BY DEF InitOrder
  <2> QED BY <1>6, <2>1, <2>2
<1>8. Prefix(8) = {"wakeup", "event_wq", "dpd", "sgl_dat", "sgl_cmd", "cmd_data", "rx_cmd_cb", "rx_data_cb"}
  <2>1. Prefix(7 + 1) = Prefix(7) \cup {InitOrder[7 + 1]} BY PrefixNext
  <2>2. InitOrder[7 + 1] = "rx_data_cb" BY DEF InitOrder
  <2> QED BY <1>7, <2>1, <2>2
<1>9. Prefix(9) = {"wakeup", "event_wq", "dpd", "sgl_dat", "sgl_cmd", "cmd_data", "rx_cmd_cb", "rx_data_cb", "rx_thread"}
  <2>1. Prefix(8 + 1) = Prefix(8) \cup {InitOrder[8 + 1]} BY PrefixNext
  <2>2. InitOrder[8 + 1] = "rx_thread" BY DEF InitOrder
  <2> QED BY <1>8, <2>1, <2>2
<1>10. Prefix(10) = {"wakeup", "event_wq", "dpd", "sgl_dat", "sgl_cmd", "cmd_data", "rx_cmd_cb", "rx_data_cb", "rx_thread", "eof_blk"}
  <2>1. Prefix(9 + 1) = Prefix(9) \cup {InitOrder[9 + 1]} BY PrefixNext
  <2>2. InitOrder[9 + 1] = "eof_blk" BY DEF InitOrder
  <2> QED BY <1>9, <2>1, <2>2
<1>11. Prefix(11) = {"wakeup", "event_wq", "dpd", "sgl_dat", "sgl_cmd", "cmd_data", "rx_cmd_cb", "rx_data_cb", "rx_thread", "eof_blk", "xmit"}
  <2>1. Prefix(10 + 1) = Prefix(10) \cup {InitOrder[10 + 1]} BY PrefixNext
  <2>2. InitOrder[10 + 1] = "xmit" BY DEF InitOrder
  <2> QED BY <1>10, <2>1, <2>2
<1>12. Prefix(12) = {"wakeup", "event_wq", "dpd", "sgl_dat", "sgl_cmd", "cmd_data", "rx_cmd_cb", "rx_data_cb", "rx_thread", "eof_blk", "xmit", "tx_thread"}
  <2>1. Prefix(11 + 1) = Prefix(11) \cup {InitOrder[11 + 1]} BY PrefixNext
  <2>2. InitOrder[11 + 1] = "tx_thread" BY DEF InitOrder
  <2> QED BY <1>11, <2>1, <2>2
<1>13. Prefix(13) = {"wakeup", "event_wq", "dpd", "sgl_dat", "sgl_cmd", "cmd_data", "rx_cmd_cb", "rx_data_cb", "rx_thread", "eof_blk", "xmit", "tx_thread", "work"}
  <2>1. Prefix(12 + 1) = Prefix(12) \cup {InitOrder[12 + 1]} BY PrefixNext
  <2>2. InitOrder[12 + 1] = "work" BY DEF InitOrder
  <2> QED BY <1>12, <2>1, <2>2
<1>14. Prefix(14) = {"wakeup", "event_wq", "dpd", "sgl_dat", "sgl_cmd", "cmd_data", "rx_cmd_cb", "rx_data_cb", "rx_thread", "eof_blk", "xmit", "tx_thread", "work", "wifi"}
  <2>1. Prefix(13 + 1) = Prefix(13) \cup {InitOrder[13 + 1]} BY PrefixNext
  <2>2. InitOrder[13 + 1] = "wifi" BY DEF InitOrder
  <2> QED BY <1>13, <2>1, <2>2
<1>15. Prefix(15) = {"wakeup", "event_wq", "dpd", "sgl_dat", "sgl_cmd", "cmd_data", "rx_cmd_cb", "rx_data_cb", "rx_thread", "eof_blk", "xmit", "tx_thread", "work", "wifi", "synced"}
  <2>1. Prefix(14 + 1) = Prefix(14) \cup {InitOrder[14 + 1]} BY PrefixNext
  <2>2. InitOrder[14 + 1] = "synced" BY DEF InitOrder
  <2> QED BY <1>14, <2>1, <2>2
<1>16. Prefix(16) = {"wakeup", "event_wq", "dpd", "sgl_dat", "sgl_cmd", "cmd_data", "rx_cmd_cb", "rx_data_cb", "rx_thread", "eof_blk", "xmit", "tx_thread", "work", "wifi", "synced", "wiphy"}
  <2>1. Prefix(15 + 1) = Prefix(15) \cup {InitOrder[15 + 1]} BY PrefixNext
  <2>2. InitOrder[15 + 1] = "wiphy" BY DEF InitOrder
  <2> QED BY <1>15, <2>1, <2>2
<1> QED BY <1>0, <1>1, <1>2, <1>3, <1>4, <1>5, <1>6, <1>7, <1>8, <1>9, <1>10, <1>11, <1>12, <1>13, <1>14, <1>15, <1>16

\* No part is set up twice, so the number of parts says how far probe is.
LEMMA PrefixSize == \A k \in 0 .. 16 : Cardinality(Prefix(k)) = k
<1>0. IsFiniteSet(Prefix(0)) /\ Cardinality(Prefix(0)) = 0 BY FS_EmptySet, Prefixes
<1>1. IsFiniteSet(Prefix(1)) /\ Cardinality(Prefix(1)) = 1
  <2>1. Prefix(1) = Prefix(0) \cup {"wakeup"} /\ "wakeup" \notin Prefix(0) BY Prefixes
  <2> QED BY <1>0, <2>1, FS_AddElement
<1>2. IsFiniteSet(Prefix(2)) /\ Cardinality(Prefix(2)) = 2
  <2>1. Prefix(2) = Prefix(1) \cup {"event_wq"} /\ "event_wq" \notin Prefix(1) BY Prefixes
  <2> QED BY <1>1, <2>1, FS_AddElement
<1>3. IsFiniteSet(Prefix(3)) /\ Cardinality(Prefix(3)) = 3
  <2>1. Prefix(3) = Prefix(2) \cup {"dpd"} /\ "dpd" \notin Prefix(2) BY Prefixes
  <2> QED BY <1>2, <2>1, FS_AddElement
<1>4. IsFiniteSet(Prefix(4)) /\ Cardinality(Prefix(4)) = 4
  <2>1. Prefix(4) = Prefix(3) \cup {"sgl_dat"} /\ "sgl_dat" \notin Prefix(3) BY Prefixes
  <2> QED BY <1>3, <2>1, FS_AddElement
<1>5. IsFiniteSet(Prefix(5)) /\ Cardinality(Prefix(5)) = 5
  <2>1. Prefix(5) = Prefix(4) \cup {"sgl_cmd"} /\ "sgl_cmd" \notin Prefix(4) BY Prefixes
  <2> QED BY <1>4, <2>1, FS_AddElement
<1>6. IsFiniteSet(Prefix(6)) /\ Cardinality(Prefix(6)) = 6
  <2>1. Prefix(6) = Prefix(5) \cup {"cmd_data"} /\ "cmd_data" \notin Prefix(5) BY Prefixes
  <2> QED BY <1>5, <2>1, FS_AddElement
<1>7. IsFiniteSet(Prefix(7)) /\ Cardinality(Prefix(7)) = 7
  <2>1. Prefix(7) = Prefix(6) \cup {"rx_cmd_cb"} /\ "rx_cmd_cb" \notin Prefix(6) BY Prefixes
  <2> QED BY <1>6, <2>1, FS_AddElement
<1>8. IsFiniteSet(Prefix(8)) /\ Cardinality(Prefix(8)) = 8
  <2>1. Prefix(8) = Prefix(7) \cup {"rx_data_cb"} /\ "rx_data_cb" \notin Prefix(7) BY Prefixes
  <2> QED BY <1>7, <2>1, FS_AddElement
<1>9. IsFiniteSet(Prefix(9)) /\ Cardinality(Prefix(9)) = 9
  <2>1. Prefix(9) = Prefix(8) \cup {"rx_thread"} /\ "rx_thread" \notin Prefix(8) BY Prefixes
  <2> QED BY <1>8, <2>1, FS_AddElement
<1>10. IsFiniteSet(Prefix(10)) /\ Cardinality(Prefix(10)) = 10
  <2>1. Prefix(10) = Prefix(9) \cup {"eof_blk"} /\ "eof_blk" \notin Prefix(9) BY Prefixes
  <2> QED BY <1>9, <2>1, FS_AddElement
<1>11. IsFiniteSet(Prefix(11)) /\ Cardinality(Prefix(11)) = 11
  <2>1. Prefix(11) = Prefix(10) \cup {"xmit"} /\ "xmit" \notin Prefix(10) BY Prefixes
  <2> QED BY <1>10, <2>1, FS_AddElement
<1>12. IsFiniteSet(Prefix(12)) /\ Cardinality(Prefix(12)) = 12
  <2>1. Prefix(12) = Prefix(11) \cup {"tx_thread"} /\ "tx_thread" \notin Prefix(11) BY Prefixes
  <2> QED BY <1>11, <2>1, FS_AddElement
<1>13. IsFiniteSet(Prefix(13)) /\ Cardinality(Prefix(13)) = 13
  <2>1. Prefix(13) = Prefix(12) \cup {"work"} /\ "work" \notin Prefix(12) BY Prefixes
  <2> QED BY <1>12, <2>1, FS_AddElement
<1>14. IsFiniteSet(Prefix(14)) /\ Cardinality(Prefix(14)) = 14
  <2>1. Prefix(14) = Prefix(13) \cup {"wifi"} /\ "wifi" \notin Prefix(13) BY Prefixes
  <2> QED BY <1>13, <2>1, FS_AddElement
<1>15. IsFiniteSet(Prefix(15)) /\ Cardinality(Prefix(15)) = 15
  <2>1. Prefix(15) = Prefix(14) \cup {"synced"} /\ "synced" \notin Prefix(14) BY Prefixes
  <2> QED BY <1>14, <2>1, FS_AddElement
<1>16. IsFiniteSet(Prefix(16)) /\ Cardinality(Prefix(16)) = 16
  <2>1. Prefix(16) = Prefix(15) \cup {"wiphy"} /\ "wiphy" \notin Prefix(15) BY Prefixes
  <2> QED BY <1>15, <2>1, FS_AddElement
<1> QED BY <1>0, <1>1, <1>2, <1>3, <1>4, <1>5, <1>6, <1>7, <1>8, <1>9, <1>10, <1>11, <1>12, <1>13, <1>14, <1>15, <1>16

(* What a failure of the k-th part takes back. *)
Undone(k) == IF k <= 12 THEN CoreUndo(InitOrder[k]) \cup skw_buffer_init_frees(InitOrder[k]) \cup skw_tx_init_frees(InitOrder[k])
             ELSE ProbeUndo

\* It is what is set up by then, no more and no less.
LEMMA UndoneRight ==
    ASSUME NEW k \in 1 .. 16, InitOrder[k] \in MayFail \ {"rx_thread"}
    PROVE  Undone(k) \subseteq Prefix(k - 1) /\ Prefix(k - 1) \ Undone(k) \subseteq LeftBehind(InitOrder[k])
<1> USE DEF Undone, CoreUndo, skw_buffer_init_frees, skw_tx_init_frees, ProbeUndo, skw_core_deinit, skw_buffer_deinit,
        skw_rx_deinit, skw_tx_deinit, LeftBehind
<1>1. CASE k = 1
  <2>1. InitOrder[k] = "wakeup" /\ k - 1 = 0 BY <1>1 DEF InitOrder
  <2> QED BY <2>1 DEF MayFail
<1>2. CASE k = 2
  <2>1. InitOrder[k] = "event_wq" /\ k - 1 = 1 BY <1>2 DEF InitOrder
  <2> QED BY <1>2, <2>1, Prefixes
<1>3. CASE k = 3
  <2>1. InitOrder[k] = "dpd" /\ k - 1 = 2 BY <1>3 DEF InitOrder
  <2> QED BY <1>3, <2>1, Prefixes
<1>4. CASE k = 4
  <2>1. InitOrder[k] = "sgl_dat" /\ k - 1 = 3 BY <1>4 DEF InitOrder
  <2> QED BY <1>4, <2>1, Prefixes
<1>5. CASE k = 5
  <2>1. InitOrder[k] = "sgl_cmd" /\ k - 1 = 4 BY <1>5 DEF InitOrder
  <2> QED BY <1>5, <2>1, Prefixes
<1>6. CASE k = 6
  <2>1. InitOrder[k] = "cmd_data" /\ k - 1 = 5 BY <1>6 DEF InitOrder
  <2> QED BY <1>6, <2>1, Prefixes
<1>7. CASE k = 7
  <2>1. InitOrder[k] = "rx_cmd_cb" /\ k - 1 = 6 BY <1>7 DEF InitOrder
  <2> QED BY <1>7, <2>1, Prefixes
<1>8. CASE k = 8
  <2>1. InitOrder[k] = "rx_data_cb" /\ k - 1 = 7 BY <1>8 DEF InitOrder
  <2> QED BY <1>8, <2>1, Prefixes
<1>9. CASE k = 9
  <2>1. InitOrder[k] = "rx_thread" /\ k - 1 = 8 BY <1>9 DEF InitOrder
  <2> QED BY <2>1 DEF MayFail
<1>10. CASE k = 10
  <2>1. InitOrder[k] = "eof_blk" /\ k - 1 = 9 BY <1>10 DEF InitOrder
  <2> QED BY <1>10, <2>1, Prefixes
<1>11. CASE k = 11
  <2>1. InitOrder[k] = "xmit" /\ k - 1 = 10 BY <1>11 DEF InitOrder
  <2> QED BY <1>11, <2>1, Prefixes
<1>12. CASE k = 12
  <2>1. InitOrder[k] = "tx_thread" /\ k - 1 = 11 BY <1>12 DEF InitOrder
  <2> QED BY <1>12, <2>1, Prefixes
<1>13. CASE k = 13
  <2>1. InitOrder[k] = "work" /\ k - 1 = 12 BY <1>13 DEF InitOrder
  <2> QED BY <2>1 DEF MayFail
<1>14. CASE k = 14
  <2>1. InitOrder[k] = "wifi" /\ k - 1 = 13 BY <1>14 DEF InitOrder
  <2> QED BY <2>1 DEF MayFail
<1>15. CASE k = 15
  <2>1. InitOrder[k] = "synced" /\ k - 1 = 14 BY <1>15 DEF InitOrder
  <2> QED BY <1>15, <2>1, Prefixes
<1>16. CASE k = 16
  <2>1. InitOrder[k] = "wiphy" /\ k - 1 = 15 BY <1>16 DEF InitOrder
  <2> QED BY <1>16, <2>1, Prefixes
<1> QED BY <1>1, <1>2, <1>3, <1>4, <1>5, <1>6, <1>7, <1>8, <1>9, <1>10, <1>11, <1>12, <1>13, <1>14, <1>15, <1>16

\* A set of naturals that is not empty has a least element.
LEMMA MinIn == ASSUME NEW S \in SUBSET Nat, S # {} PROVE Min(S) \in S
<1> DEFINE R == {ss \in Nat \X Nat : ss[1] < ss[2]}
<1>1. IsWellFoundedOn(R, Nat) BY NatLessThanWellFounded, Zenon DEF OpToRel
<1>2. PICK x \in S : \A y \in S : ~(<<y, x>> \in R)
  <2> HIDE DEF R
  <2> QED BY <1>1, WFMin
<1>3. \A y \in S : x <= y
  <2> TAKE y \in S
  <2>1. <<y, x>> \in R <=> y < x OBVIOUS
  <2> QED BY <1>2, <2>1
<1> QED BY <1>3 DEF Min

\* Nothing is there before the probe.
LEMMA IfaceInitInv == IfaceInit => IfaceInv
<1> SUFFICES ASSUME IfaceInit PROVE IfaceInv OBVIOUS
<1> USE IfaceConstants DEF IfaceInit
<1>1. IfaceTypeOK
  <2>1. 0 \in Insts BY DEF Insts
  <2>2. op \in Operation BY <2>1 DEF NoOp, Operation
  <2>3. iface \in [Insts -> Entry] BY DEF NoIface, Entry
  <2>4. fwdev \in [Insts -> AnyType \cup {Closed}] OBVIOUS
  <2>5. queued \in [Insts -> Nat] /\ ifaceWorker \in [Insts -> {"idle", "lock", "run"}] OBVIOUS
  <2>6. opened_dev \in Int OBVIOUS
  <2>8. rx \in Insts \cup {-1} /\ late \in BOOLEAN BY Zenon
  <2>7. bitmap \subseteq Insts /\ vif \subseteq Insts /\ halfway \subseteq Insts OBVIOUS
  <2> QED BY <2>2, <2>3, <2>4, <2>5, <2>6, <2>7, <2>8 DEF IfaceTypeOK
<1>2. PartsBuilt /\ OpStages /\ IfacePhase BY DEF PartsBuilt, OpStages, IfacePhase, NoOp, Going
<1>3. TablesAgree BY DEF TablesAgree, OffTable, Going, NoOp, NoIface
<1>4. DevicesAgree /\ EventsLive BY DEF DevicesAgree, EventsLive, Going, NoOp, Insts
<1>5. Open = {} BY DEF Open, Insts
<1>6. IfaceOpenCount BY <1>5, FS_EmptySet DEF IfaceOpenCount
<1> QED BY <1>1, <1>2, <1>3, <1>4, <1>6 DEF IfaceInv

\* The open devices can be counted.
LEMMA OpenFinite == IsFiniteSet(Open) /\ Cardinality(Open) \in Nat
<1>1. IsFiniteSet(Insts) BY FS_Interval, IfaceConstants DEF Insts
<1>2. Open \in SUBSET Insts BY DEF Open
<1>3. IsFiniteSet(Open) BY <1>1, <1>2, FS_Subset
<1> QED BY <1>3, FS_CardinalityType

\* The invariant is what was asked for.
LEMMA IfaceInvSafe == IfaceInv => IfaceSafe
<1> SUFFICES ASSUME IfaceInv PROVE IfaceSafe OBVIOUS
<1> USE DEF IfaceInv
<1>1. IfaceTablesInStep
  <2>1. op = NoOp => ~OffTable BY DEF NoOp, OffTable, Going
  <2> QED BY <2>1 DEF IfaceTablesInStep, TablesAgree, IfaceTypeOK
<1>2. IfaceEventsOfLive BY DEF IfaceEventsOfLive, EventsLive, TablesAgree
<1>3. IfaceUnwound
  <2>1. op = NoOp => ~OffTable BY DEF NoOp, OffTable, Going
  <2> QED BY <2>1 DEF IfaceUnwound, PartsBuilt, IfacePhase, TablesAgree
<1> QED BY <1>1, <1>2, <1>3 DEF IfaceSafe

\* Probe and removal touch neither the interfaces nor their events.
LEMMA IfaceRestKept ==
    ASSUME IfaceInv, UNCHANGED ifaceRest
    PROVE  /\ IfaceTypeOK' /\ OpStages' /\ TablesAgree' /\ DevicesAgree' /\ EventsLive' /\ IfaceOpenCount'
<1> USE DEF IfaceInv, ifaceRest, ifaceTables, ifaceEvents
<1>1. IfaceTypeOK' BY DEF IfaceTypeOK
<1>2. OpStages' BY DEF OpStages, Going
<1>3. TablesAgree' BY DEF TablesAgree, OffTable, Going
<1>4. DevicesAgree' BY DEF DevicesAgree, Going
<1>5. EventsLive' BY DEF EventsLive, Going
<1>6. IfaceOpenCount' BY DEF IfaceOpenCount, Open
<1> QED BY <1>1, <1>2, <1>3, <1>4, <1>5, <1>6

\* A part is set up, or its failure takes back the ones before it.
LEMMA ProbeStepInv == ASSUME IfaceInv, ProbeStep PROVE IfaceInv'
<1> USE DEF IfaceInv
<1>0. UNCHANGED ifaceRest BY DEF ProbeStep
<1>1. PICK k \in 0 .. 15 : subsys = Prefix(k) /\ (phase = "absent" => k = 0)
  <2>1. CASE phase = "absent" BY <2>1, Prefixes DEF PartsBuilt
  <2>2. CASE phase = "core" BY <2>2 DEF PartsBuilt
  <2> QED BY <2>1, <2>2 DEF ProbeStep
<1>2. Cardinality(subsys) + 1 = k + 1 BY <1>1, PrefixSize
<1>3. Len(InitOrder) = 16 BY DEF InitOrder
<1>4. Prefix(k + 1) = subsys \cup {InitOrder[k + 1]} BY <1>1, PrefixNext
<1>5. op = NoOp /\ vif = {} BY DEF ProbeStep, IfacePhase
<1>6. op' = NoOp /\ vif' = {} BY <1>0, <1>5 DEF ifaceRest, ifaceTables
<1>7. CASE /\ subsys' = subsys \cup {InitOrder[k + 1]}
           /\ phase' = (IF k + 1 = 16 THEN "wlan" ELSE "core")
           /\ UNCHANGED <<clean, ifaceFuel>>
  <2>1. subsys' = Prefix(k + 1) BY <1>4, <1>7
  <2>2. PartsBuilt'
    <3>1. CASE k + 1 = 16 BY <2>1, <1>7, <3>1 DEF PartsBuilt
    <3>2. CASE k + 1 # 16
      <4>1. k + 1 \in 1 .. 15 BY <3>2
      <4> QED BY <2>1, <1>7, <3>2, <4>1 DEF PartsBuilt
    <3> QED BY <3>1, <3>2
  <2>3. IfacePhase' BY <1>6, <1>7 DEF IfacePhase, NoOp
  <2> QED BY <1>0, <2>2, <2>3, IfaceRestKept
<1>8. CASE phase' = "deaf" /\ UNCHANGED <<subsys, clean>>
  <2>1. PartsBuilt' BY <1>8 DEF PartsBuilt
  <2>2. IfacePhase' BY <1>6, <1>8 DEF IfacePhase
  <2> QED BY <1>0, <2>1, <2>2, IfaceRestKept
<1>9. CASE /\ InitOrder[k + 1] \in MayFail \ {"rx_thread"}
           /\ Undoes(Undone(k + 1), InitOrder[k + 1])
           /\ subsys' = {} /\ phase' = "absent"
  <2>1. Undone(k + 1) \subseteq Prefix(k) /\ Prefix(k) \ Undone(k + 1) \subseteq LeftBehind(InitOrder[k + 1])
    <3>1. k + 1 \in 1 .. 16 /\ (k + 1) - 1 = k OBVIOUS
    <3> QED BY <1>9, <3>1, UndoneRight
  <2>2. PartsBuilt' BY <1>1, <1>9, <2>1 DEF PartsBuilt, Undoes
  <2>3. IfacePhase' BY <1>6, <1>9 DEF IfacePhase
  <2> QED BY <1>0, <2>2, <2>3, IfaceRestKept
<1> QED
  <2> DEFINE j == Cardinality(subsys) + 1
  <2>1. \/ /\ subsys' = subsys \cup {InitOrder[j]}
           /\ phase' = (IF j = Len(InitOrder) THEN "wlan" ELSE "core")
           /\ UNCHANGED <<clean, ifaceFuel>>
        \/ phase' = "deaf" /\ UNCHANGED <<subsys, clean>>
        \/ /\ InitOrder[j] \in MayFail \ {"rx_thread"}
           /\ Undoes(Undone(j), InitOrder[j])
           /\ subsys' = {} /\ phase' = "absent"
    BY DEF ProbeStep, Undone
  <2>2. j = k + 1 BY <1>2
  <2> HIDE DEF j
  <2> QED BY <2>1, <2>2, <1>3, <1>7, <1>8, <1>9

\* Remove takes everything down.
LEMMA UnwindStep == ASSUME IfaceInv, Unwind PROVE IfaceInv'
<1> USE DEF IfaceInv
<1>0. UNCHANGED ifaceRest BY DEF Unwind
<1>1. subsys = Prefix(16) BY DEF Unwind, PartsBuilt
<1>2. ProbeUndo \cup {"wiphy"} \subseteq subsys /\ subsys \ (ProbeUndo \cup {"wiphy"}) \subseteq LeftBehind("none")
  BY <1>1, Prefixes DEF ProbeUndo, LeftBehind, skw_core_deinit, skw_buffer_deinit, skw_rx_deinit, skw_tx_deinit
<1>3. PartsBuilt' BY <1>2 DEF Unwind, Undoes, PartsBuilt
<1>4. op = NoOp /\ vif = {} BY DEF Unwind, IfacePhase
<1>5. IfacePhase' BY <1>0, <1>4 DEF Unwind, IfacePhase, ifaceRest, ifaceTables
<1> QED BY <1>0, <1>3, <1>5, IfaceRestKept

\* Removal begins between operations.
LEMMA UnbindStep == ASSUME IfaceInv, Unbind PROVE IfaceInv'
<1> USE DEF IfaceInv
<1>0. UNCHANGED ifaceRest BY DEF Unbind
<1>3. PartsBuilt' BY DEF Unbind, PartsBuilt
<1>5. IfacePhase' BY <1>0 DEF Unbind, IfacePhase, ifaceRest, ifaceTables
<1> QED BY <1>0, <1>3, <1>5, IfaceRestKept

\* A number is given out only while it is free.
LEMMA AllocFree == ASSUME bitmap \subseteq Insts, NEW type PROVE skw_alloc_inst(type) \subseteq Insts \ bitmap
<1>1. LastInst \in Insts BY IfaceConstants DEF LastInst, Insts
<1>2. bitmap # Insts => Min(Insts \ bitmap) \in Insts \ bitmap
  <2>1. Insts \ bitmap \in SUBSET Nat BY DEF Insts
  <2> QED BY <2>1, MinIn
<1> QED BY <1>1, <1>2 DEF skw_alloc_inst

\* An interface gets its number.
LEMMA BeginAddStep ==
    ASSUME IfaceInv, op = NoOp, phase \in {"wlan", "p2p", "up"}, NEW type \in AnyType, NEW locked \in BOOLEAN,
           BeginAdd(type, locked),
           UNCHANGED <<phase, subsys, clean, vif, fwdev, opened_dev, ifaceEvents, halfway, starved>>
    PROVE  IfaceInv'
<1> USE DEF IfaceInv, ifaceEvents
<1>1. PICK i \in Insts \ bitmap :
        /\ bitmap' = bitmap \cup {i}
        /\ iface' = [iface EXCEPT ![i] = [type |-> type, enabled |-> TRUE]]
        /\ op' = [at |-> "open", inst |-> i, type |-> type, next |-> "register", locked |-> locked]
  BY AllocFree DEF BeginAdd, IfaceTypeOK
<1>2. /\ op' \in Operation /\ op'.at = "open" /\ op'.inst = i /\ op'.type = type /\ op'.next = "register"
      /\ op' # NoOp
  BY <1>1 DEF Operation, NoOp
<1>3. /\ iface' \in [Insts -> Entry] /\ iface'[i].type = type /\ iface'[i] # NoIface
      /\ \A j \in Insts \ {i} : iface'[j] = iface[j]
  <2>1. type # "none" BY IfaceConstants DEF AnyType, P2pDev
  <2> QED BY <1>1, <2>1 DEF Entry, NoIface, IfaceTypeOK
<1>4. ~OffTable /\ bitmap = vif BY DEF OffTable, Going, NoOp, TablesAgree
<1>5. IfaceTypeOK' BY <1>1, <1>2, <1>3 DEF IfaceTypeOK
<1>6. PartsBuilt' BY DEF PartsBuilt
<1>7. OpStages' BY <1>2 DEF OpStages, Going
<1>8. IfacePhase' BY <1>1, <1>2, <1>4 DEF IfacePhase
<1>9. TablesAgree'
  <2>1. OffTable' BY <1>2 DEF OffTable, Going
  <2>2. \A j \in Insts : iface'[j].type = "none" => iface'[j] = NoIface
    BY <1>3, IfaceConstants DEF TablesAgree, AnyType, P2pDev
  <2> QED BY <1>1, <1>2, <1>3, <1>4, <2>1, <2>2 DEF TablesAgree
<1>10. DevicesAgree' BY <1>1, <1>2, <1>4 DEF DevicesAgree, Going, NoOp
<1>11. EventsLive' BY <1>1, <1>2, <1>4 DEF EventsLive, Going, NoOp
<1>12. IfaceOpenCount' BY DEF IfaceOpenCount, Open
<1> QED BY <1>5, <1>6, <1>7, <1>8, <1>9, <1>10, <1>11, <1>12

\* The end of an operation whose interface, if it still exists, is in the table.
LEMMA EndsPhase ==
    ASSUME IfaceInv, NEW ok \in BOOLEAN, Ends(ok), op # NoOp,
           \/ ok /\ op.at = "register" /\ vif' = vif
           \/ ~ok /\ OffTable /\ vif' = vif
           \/ op.next = "free" /\ OffTable /\ vif' = vif
           \/ op.next = "reopen" /\ vif' = vif
    PROVE  IfacePhase'
<1> USE DEF IfaceInv
<1>1. op' = NoOp BY DEF Ends
<1>2. CASE phase = "wlan"
  <2>1. op.next \in {"none", "register", "unregistered"} /\ vif \ {op.inst} = {} BY <1>2 DEF IfacePhase
  <2>2. CASE ok /\ op.at = "register"
    <3>1. op.inst \in vif /\ op.inst \in Insts
      BY <2>2 DEF TablesAgree, OffTable, Going, IfaceTypeOK, Operation
    <3>2. vif = {op.inst} BY <2>1, <3>1
    <3>3. phase' = "p2p" BY <1>2, <2>2 DEF Ends
    <3> QED BY <1>1, <2>1, <2>2, <3>1, <3>2, <3>3 DEF IfacePhase, NoOp
  <2>3. CASE ~ok /\ OffTable
    <3>1. vif = {} BY <2>1, <2>3 DEF TablesAgree
    <3>2. phase' = "failed" BY <1>2, <2>3 DEF Ends
    <3> QED BY <1>1, <2>1, <2>3, <3>1, <3>2 DEF IfacePhase, NoOp
  <2> QED BY <2>1, <2>2, <2>3
<1>3. CASE phase = "p2p"
  <2>1. op.next \in {"none", "register", "unregistered"} BY <1>3 DEF IfacePhase
  <2>2. PICK a \in Insts : vif \ {op.inst} = {a} BY <1>3 DEF IfacePhase
  <2>3. CASE ok /\ op.at = "register"
    <3>3. phase' = "up" BY <1>3, <2>3 DEF Ends
    <3> QED BY <3>3 DEF IfacePhase
  <2>4. CASE ~ok /\ OffTable
    <3>1. vif = {a} BY <2>2, <2>4 DEF TablesAgree
    <3>2. phase' = "undo" BY <1>3, <2>4 DEF Ends
    <3> QED BY <1>1, <2>1, <2>4, <3>1, <3>2 DEF IfacePhase
  <2> QED BY <2>1, <2>3, <2>4
<1>4. CASE phase = "undo"
  <2>1. vif = {} /\ op.next = "free" BY <1>4 DEF IfacePhase
  <2>2. phase' = "failed" BY <1>4 DEF Ends
  <2>3. vif' = {} BY <2>1
  <2> QED BY <1>1, <2>2, <2>3 DEF IfacePhase
<1>5. CASE phase \in {"up", "removing"}
  <2>1. phase' = phase BY <1>5 DEF Ends
  <2> QED BY <1>5, <2>1 DEF IfacePhase
<1> QED BY <1>2, <1>3, <1>4, <1>5 DEF IfacePhase

\* Ends leaves no operation behind.
LEMMA EndsOp ==
    ASSUME IfaceInv, NEW ok \in BOOLEAN, Ends(ok)
    PROVE  /\ op' = NoOp /\ op' \in Operation /\ OpStages' /\ ~OffTable'
           /\ op'.at = "idle"
           /\ subsys' = subsys /\ clean' = clean => PartsBuilt'
<1> USE DEF IfaceInv
<1>1. op' = NoOp BY DEF Ends
<1>2. 0 \in Insts BY IfaceConstants DEF Insts
<1>3. op' \in Operation BY <1>1, <1>2 DEF NoOp, Operation
<1>4. OpStages' /\ ~OffTable' /\ op'.at = "idle" BY <1>1 DEF OpStages, OffTable, Going, NoOp
<1>5. ASSUME subsys' = subsys, clean' = clean PROVE PartsBuilt'
  <2>1. phase' = phase \/ (phase \in {"wlan", "p2p", "undo"} /\ phase' \in {"p2p", "failed", "up", "undo"})
    BY DEF Ends
  <2> QED BY <1>5, <2>1 DEF PartsBuilt
<1> QED BY <1>1, <1>3, <1>4, <1>5

\* What happens to the counts when a device is opened.
LEMMA Opened ==
    ASSUME IfaceInv, NEW i \in Insts, NEW type \in AnyType, fwdev' = [fwdev EXCEPT ![i] = type],
           opened_dev' = opened_dev + 1, halfway' = halfway, starved' = starved,
           halfway = {} => fwdev[i] = Closed
    PROVE  IfaceOpenCount' /\ fwdev' \in [Insts -> AnyType \cup {Closed}] /\ opened_dev' \in Int
<1> USE DEF IfaceInv
<1>1. type # Closed BY IfaceConstants DEF AnyType, P2pDev, Closed
<1>2. Open' = Open \cup {i} BY <1>1 DEF Open, IfaceTypeOK
<1>3. Cardinality(Open') = IF i \in Open THEN Cardinality(Open) ELSE Cardinality(Open) + 1
  BY <1>2, OpenFinite, FS_AddElement
<1>4. halfway = {} => i \notin Open BY DEF Open
<1>5. IfaceOpenCount' BY <1>3, <1>4, OpenFinite DEF IfaceOpenCount, IfaceTypeOK
<1> QED BY <1>5 DEF IfaceTypeOK

\* Its device is opened, or it is given up.
LEMMA AddOpensStep == ASSUME IfaceInv, AddOpens PROVE IfaceInv'
<1> USE DEF IfaceInv
<1>1. /\ op.at = "open" /\ op.inst \in Insts /\ op.next = "register" /\ op.type \in AnyType /\ op # NoOp /\ OffTable
      /\ op.inst \notin vif /\ bitmap = vif \cup {op.inst}
  <2>1. op.at = "open" BY DEF AddOpens
  <2>2. OffTable BY <2>1 DEF OffTable, Going
  <2> QED BY <2>1, <2>2 DEF OpStages, Going, IfaceTypeOK, Operation, NoOp, TablesAgree
<1>2. UNCHANGED <<subsys, clean, ifaceEvents, starved>> BY DEF AddOpens
<1>3. CASE /\ fwdev' = [fwdev EXCEPT ![op.inst] = op.type]
           /\ opened_dev' = opened_dev + 1
           /\ vif' = vif \cup {op.inst}
           /\ op' = [op EXCEPT !.at = "register"]
           /\ UNCHANGED <<phase, bitmap, iface, halfway, ifaceFuel>>
  <2>1. /\ op' \in Operation /\ op'.at = "register" /\ op'.inst = op.inst /\ op'.next = "register"
        /\ op'.type = op.type /\ op' # NoOp
    BY <1>1, <1>3 DEF Operation, IfaceTypeOK, NoOp
  <2>2. fwdev' \in [Insts -> AnyType \cup {Closed}] /\ opened_dev' \in Int /\ IfaceOpenCount'
    <3>1. halfway = {} => fwdev[op.inst] = Closed BY <1>1 DEF DevicesAgree, Going
    <3> QED BY <1>1, <1>2, <1>3, <3>1, Opened
  <2>3. fwdev'[op.inst] # Closed /\ \A j \in Insts \ {op.inst} : fwdev'[j] = fwdev[j]
    BY <1>1, <1>3, IfaceConstants DEF AnyType, P2pDev, Closed, IfaceTypeOK
  <2>4. IfaceTypeOK' BY <1>1, <1>2, <1>3, <2>1, <2>2 DEF IfaceTypeOK, ifaceEvents
  <2>5. PartsBuilt' BY <1>2, <1>3 DEF PartsBuilt
  <2>6. OpStages' BY <1>1, <2>1 DEF OpStages, Going
  <2>7. IfacePhase' BY <1>1, <1>3, <2>1 DEF IfacePhase
  <2>8. TablesAgree'
    <3>1. ~OffTable' BY <2>1 DEF OffTable, Going
    <3> QED BY <1>1, <1>3, <2>1, <3>1 DEF TablesAgree
  <2>9. DevicesAgree' BY <1>1, <1>3, <2>1, <2>3 DEF DevicesAgree, Going
  <2>10. EventsLive' BY <1>1, <1>2, <1>3, <2>1, <2>3 DEF EventsLive, Going, ifaceEvents
  <2> QED BY <2>2, <2>4, <2>5, <2>6, <2>7, <2>8, <2>9, <2>10
<1>4. CASE /\ iface' = [iface EXCEPT ![op.inst] = NoIface]
           /\ bitmap' = bitmap \ {op.inst}
           /\ Ends(FALSE)
           /\ UNCHANGED <<vif, fwdev, opened_dev, halfway>>
  <2>1. op' = NoOp /\ op' \in Operation /\ OpStages' /\ ~OffTable' /\ op'.at = "idle" /\ PartsBuilt'
    BY <1>2, <1>4, EndsOp
  <2>2. IfacePhase' BY <1>1, <1>4, EndsPhase
  <2>3. iface' \in [Insts -> Entry] /\ iface'[op.inst] = NoIface /\ \A j \in Insts \ {op.inst} : iface'[j] = iface[j]
    BY <1>1, <1>4 DEF Entry, NoIface, IfaceTypeOK
  <2>4. IfaceTypeOK' BY <1>2, <1>4, <2>1, <2>3 DEF IfaceTypeOK, ifaceEvents
  <2>5. TablesAgree' BY <1>1, <1>4, <2>1, <2>3 DEF TablesAgree
  <2>6. DevicesAgree' BY <1>1, <1>4, <2>1 DEF DevicesAgree, Going
  <2>7. EventsLive' BY <1>1, <1>2, <1>4, <2>1 DEF EventsLive, Going, ifaceEvents
  <2>8. IfaceOpenCount' BY <1>2, <1>4 DEF IfaceOpenCount, Open
  <2> QED BY <2>1, <2>2, <2>4, <2>5, <2>6, <2>7, <2>8
<1> QED BY <1>3, <1>4 DEF AddOpens

\* The teardown begins: the interface leaves the table, unless it will be opened again.
LEMMA Shutting ==
    ASSUME IfaceInv, UNCHANGED <<phase, subsys, clean, bitmap, iface, fwdev, opened_dev, ifaceEvents, halfway, starved>>,
           NEW i \in vif, op' \in Operation, op'.at = "shut", op'.inst = i,
           \/ vif' = vif \ {i} /\ op'.next \in {"unregistered", "free"}
           \/ vif' = vif /\ op'.next = "reopen" /\ op'.type \in AnyType,
           op = NoOp \/ (op.at = "register" /\ op.inst = i), IfacePhase'
    PROVE  IfaceInv'
<1> USE DEF IfaceInv
<1>1. ~OffTable /\ bitmap = vif /\ i \in Insts BY DEF OffTable, Going, NoOp, TablesAgree, IfaceTypeOK
<1>2. IfaceTypeOK' BY DEF IfaceTypeOK, ifaceEvents
<1>3. PartsBuilt' BY DEF PartsBuilt
<1>4. OpStages' BY DEF OpStages, Going
<1>5. TablesAgree'
  <2>1. OffTable' <=> op'.next # "reopen" BY DEF OffTable, Going
  <2> QED BY <1>1, <2>1 DEF TablesAgree
<1>6. DevicesAgree' BY <1>1 DEF DevicesAgree, Going, NoOp
<1>7. EventsLive' BY <1>1 DEF EventsLive, Going, ifaceEvents, NoOp
<1>8. IfaceOpenCount' BY DEF IfaceOpenCount, Open
<1> QED BY <1>2, <1>3, <1>4, <1>5, <1>6, <1>7, <1>8

\* It is registered, or torn down again.
LEMMA AddRegistersStep == ASSUME IfaceInv, AddRegisters PROVE IfaceInv'
<1> USE DEF IfaceInv
<1>1. /\ op.at = "register" /\ op.inst \in Insts /\ op.next = "register" /\ op # NoOp /\ ~OffTable
      /\ bitmap = vif /\ op.inst \in vif
  <2>1. op.at = "register" BY DEF AddRegisters
  <2>2. ~OffTable BY <2>1 DEF OffTable, Going
  <2> QED BY <2>1, <2>2 DEF OpStages, Going, IfaceTypeOK, Operation, NoOp, TablesAgree
<1>2. UNCHANGED <<subsys, clean, bitmap, iface, fwdev, opened_dev, ifaceEvents, halfway, starved>> BY DEF AddRegisters
<1>3. CASE Ends(TRUE) /\ UNCHANGED <<vif, ifaceFuel>>
  <2>1. op' = NoOp /\ op' \in Operation /\ OpStages' /\ ~OffTable' /\ op'.at = "idle" /\ PartsBuilt'
    BY <1>2, <1>3, EndsOp
  <2>2. IfacePhase' BY <1>1, <1>3, EndsPhase
  <2>4. IfaceTypeOK' BY <1>2, <1>3, <2>1 DEF IfaceTypeOK, ifaceEvents
  <2>5. TablesAgree' BY <1>1, <1>2, <1>3, <2>1 DEF TablesAgree
  <2>6. DevicesAgree' BY <1>1, <1>2, <2>1 DEF DevicesAgree, Going
  <2>7. EventsLive' BY <1>1, <1>2, <2>1 DEF EventsLive, Going, ifaceEvents
  <2>8. IfaceOpenCount' BY <1>2 DEF IfaceOpenCount, Open
  <2> QED BY <2>1, <2>2, <2>4, <2>5, <2>6, <2>7, <2>8
<1>4. CASE /\ vif' = vif \ {op.inst}
           /\ op' = [op EXCEPT !.at = "shut", !.next = "unregistered"]
           /\ UNCHANGED phase
  <2>1. op' \in Operation /\ op'.at = "shut" /\ op'.inst = op.inst /\ op'.next = "unregistered" /\ op' # NoOp
    BY <1>1, <1>4 DEF Operation, IfaceTypeOK, NoOp
  <2>2. IfacePhase' BY <1>1, <1>4, <2>1 DEF IfacePhase
  <2> QED BY <1>1, <1>2, <1>4, <2>1, <2>2, Shutting
<1> QED BY <1>3, <1>4 DEF AddRegisters

\* An interface is to be deleted.
LEMMA BeginDelStep ==
    ASSUME IfaceInv, NEW i \in vif, NEW locked \in BOOLEAN, BeginDel(i, locked), op = NoOp,
           phase \in {"up", "removing", "undo"},
           UNCHANGED <<phase, subsys, clean, bitmap, iface, fwdev, opened_dev, ifaceEvents, halfway, starved>>
    PROVE  IfaceInv'
<1> USE DEF IfaceInv
<1>1. op' \in Operation /\ op'.at = "shut" /\ op'.inst = i /\ op'.next = "free" /\ op' # NoOp
  BY DEF Operation, IfaceTypeOK, BeginDel, NoOp
<1>2. vif' = vif \ {i} BY DEF BeginDel
<1>3. IfacePhase' BY <1>1, <1>2 DEF IfacePhase
<1> HIDE DEF IfaceInv
<1> QED BY <1>1, <1>2, <1>3, Shutting

\* An interface is to change its type.
LEMMA ChangeStep == ASSUME IfaceInv, NEW i \in Insts, NEW t \in Types, skw_change_intf(i, t) PROVE IfaceInv'
<1> USE DEF IfaceInv
<1>1. op' \in Operation /\ op'.at = "shut" /\ op'.inst = i /\ op'.next = "reopen" /\ op'.type = t
  BY DEF Operation, skw_change_intf, AnyType
<1>2. IfacePhase' BY DEF IfacePhase, skw_change_intf
<1>3. /\ UNCHANGED <<phase, subsys, clean, bitmap, iface, fwdev, opened_dev, ifaceEvents, halfway, starved>>
      /\ i \in vif /\ vif' = vif /\ op = NoOp /\ t \in AnyType
  BY DEF skw_change_intf, ifaceTables, AnyType
<1> HIDE DEF IfaceInv
<1> QED BY <1>1, <1>2, <1>3, Shutting

\* No more events are queued.
LEMMA ShutsStep == ASSUME IfaceInv, TeardownShuts PROVE IfaceInv'
<1> USE DEF IfaceInv
<1>1. /\ op.at = "shut" /\ op' = [op EXCEPT !.at = "cancel"] /\ iface' = [iface EXCEPT ![op.inst].enabled = FALSE]
      /\ UNCHANGED <<phase, subsys, clean, bitmap, vif, fwdev, opened_dev, ifaceEvents, halfway, starved>>
  BY DEF TeardownShuts
<1>2. /\ op' \in Operation /\ op'.at = "cancel" /\ op'.inst = op.inst /\ op'.next = op.next /\ op'.type = op.type
      /\ op # NoOp /\ op' # NoOp /\ op.inst \in Insts
  BY <1>1 DEF Operation, IfaceTypeOK, NoOp
<1>3. /\ iface' \in [Insts -> Entry] /\ ~iface'[op.inst].enabled
      /\ iface'[op.inst].type = iface[op.inst].type
      /\ \A j \in Insts \ {op.inst} : iface'[j] = iface[j]
  BY <1>1, <1>2 DEF Entry, IfaceTypeOK
<1>4. IfaceTypeOK' BY <1>1, <1>2, <1>3 DEF IfaceTypeOK, ifaceEvents
<1>5. PartsBuilt' BY <1>1 DEF PartsBuilt
<1>6. OpStages' BY <1>1, <1>2, <1>3 DEF OpStages, Going
<1>7. IfacePhase' BY <1>1, <1>2 DEF IfacePhase
<1>8. TablesAgree'
  <2>1. OffTable' <=> OffTable BY <1>1, <1>2 DEF OffTable, Going
  <2>2. op.inst \in bitmap /\ iface[op.inst].type # "none" BY <1>1, <1>2 DEF TablesAgree, NoIface
  <2>3. iface'[op.inst] # NoIface BY <1>3, <2>2 DEF NoIface
  <2> QED BY <1>1, <1>2, <1>3, <2>1, <2>2, <2>3 DEF TablesAgree
<1>9. DevicesAgree' BY <1>1, <1>2 DEF DevicesAgree, Going
<1>10. EventsLive' BY <1>1, <1>2 DEF EventsLive, Going, ifaceEvents
<1>11. IfaceOpenCount' BY <1>1 DEF IfaceOpenCount, Open
<1> QED BY <1>4, <1>5, <1>6, <1>7, <1>8, <1>9, <1>10, <1>11

\* None is under way any more.
LEMMA CancelsStep == ASSUME IfaceInv, TeardownCancels PROVE IfaceInv'
<1> USE DEF IfaceInv
<1>1. /\ op.at = "cancel" /\ op' = [op EXCEPT !.at = "close"] /\ ifaceWorker[op.inst] = "idle"
      /\ queued' = [queued EXCEPT ![op.inst] = 0] /\ late' = (late \/ rx = op.inst)
      /\ UNCHANGED <<phase, subsys, clean, bitmap, vif, iface, fwdev, opened_dev, rx, ifaceWorker, halfway, starved>>
  BY DEF TeardownCancels, ifaceTables
<1>2. /\ op' \in Operation /\ op'.at = "close" /\ op'.inst = op.inst /\ op'.next = op.next /\ op'.type = op.type
      /\ op # NoOp /\ op' # NoOp /\ op.inst \in Insts
  BY <1>1 DEF Operation, IfaceTypeOK, NoOp
<1>3. /\ queued' \in [Insts -> Nat] /\ queued'[op.inst] = 0
      /\ \A j \in Insts \ {op.inst} : queued'[j] = queued[j]
  BY <1>1, <1>2 DEF IfaceTypeOK
<1>4. IfaceTypeOK'
  <2>1. late' \in BOOLEAN BY <1>1
  <2> QED BY <1>1, <1>2, <1>3, <2>1 DEF IfaceTypeOK
<1>5. PartsBuilt' BY <1>1 DEF PartsBuilt
<1>6. OpStages' BY <1>1, <1>2 DEF OpStages, Going
<1>7. IfacePhase' BY <1>1, <1>2 DEF IfacePhase
<1>8. TablesAgree'
  <2>1. OffTable' <=> OffTable BY <1>1, <1>2 DEF OffTable, Going
  <2> QED BY <1>1, <1>2, <2>1 DEF TablesAgree
<1>9. DevicesAgree' BY <1>1, <1>2 DEF DevicesAgree, Going
<1>10. EventsLive'
  <2>1. ASSUME ~late', NEW i \in Insts, ifaceWorker[i] # "idle" \/ queued'[i] > 0 \/ rx = i
        PROVE  i \in bitmap /\ fwdev[i] # Closed /\ i # op.inst
    <3>1. ~late /\ rx # op.inst BY <2>1, <1>1
    <3>2. i # op.inst BY <2>1, <3>1, <1>1, <1>3
    <3> QED BY <2>1, <3>1, <3>2, <1>3 DEF EventsLive
  <2> QED BY <2>1, <1>1, <1>2 DEF EventsLive, Going
<1>11. IfaceOpenCount' BY <1>1 DEF IfaceOpenCount, Open
<1> QED BY <1>4, <1>5, <1>6, <1>7, <1>8, <1>9, <1>10, <1>11

\* An interface that was deleted, or failed to register, is freed and the operation ends.
LEMMA FreedStep ==
    ASSUME IfaceInv, op.at = "close", op.next # "reopen", Freed, Ends(op.next = "free"),
           UNCHANGED <<subsys, clean, vif, ifaceEvents>>,
           fwdev' \in [Insts -> AnyType \cup {Closed}], opened_dev' \in Int, halfway' \in SUBSET Insts,
           halfway \subseteq halfway', op.inst \in halfway' \/ fwdev'[op.inst] = Closed,
           \A j \in Insts \ {op.inst} : fwdev'[j] = fwdev[j], IfaceOpenCount'
    PROVE  IfaceInv'
<1> USE DEF IfaceInv
<1>1. /\ op.inst \in Insts /\ op.next \in {"unregistered", "free"} /\ op # NoOp /\ OffTable
      /\ op.inst \notin vif /\ bitmap = vif \cup {op.inst}
  <2>2. OffTable BY DEF OffTable, Going
  <2> QED BY <2>2 DEF OpStages, Going, IfaceTypeOK, Operation, NoOp, TablesAgree
<1> DEFINE ok == op.next = "free"
<1>2. ok \in BOOLEAN /\ Ends(ok) OBVIOUS
<1>3. op' = NoOp /\ op' \in Operation /\ OpStages' /\ ~OffTable' /\ op'.at = "idle" /\ PartsBuilt'
  <2> HIDE DEF ok
  <2> QED BY <1>2, EndsOp
<1>4. IfacePhase'
  <2>1. ok \/ ~ok OBVIOUS
  <2>2. ok => op.next = "free" OBVIOUS
  <2> HIDE DEF ok
  <2> QED BY <1>1, <1>2, <2>1, <2>2, EndsPhase
<1>5. /\ iface' \in [Insts -> Entry] /\ iface'[op.inst] = NoIface
      /\ \A j \in Insts \ {op.inst} : iface'[j] = iface[j]
  BY <1>1 DEF Entry, NoIface, IfaceTypeOK, Freed
<1>6. bitmap' = vif BY <1>1 DEF Freed
<1>7. IfaceTypeOK' BY <1>3, <1>5, <1>6 DEF IfaceTypeOK, ifaceEvents
<1>8. TablesAgree' BY <1>1, <1>3, <1>5, <1>6 DEF TablesAgree
<1>9. DevicesAgree'
  <2>1. ASSUME NEW j \in Insts \ halfway' PROVE fwdev'[j] # Closed <=> j \in bitmap'
    <3>1. CASE j = op.inst BY <3>1, <1>1, <1>6
    <3>2. CASE j # op.inst
      <4>1. j \in Insts \ halfway OBVIOUS
      <4>2. fwdev[j] # Closed <=> j \in bitmap BY <3>2, <4>1 DEF DevicesAgree
      <4> QED BY <3>2, <4>2, <1>1, <1>6
    <3> QED BY <3>1, <3>2
  <2> QED BY <2>1, <1>3 DEF DevicesAgree, Going
<1>10. EventsLive'
  <2>1. ASSUME ~late, NEW i \in Insts, ifaceWorker[i] # "idle" \/ queued[i] > 0 \/ rx = i
        PROVE  i \in bitmap' /\ fwdev'[i] # Closed
    <3>1. i \in bitmap /\ fwdev[i] # Closed /\ i # op.inst BY <2>1 DEF EventsLive, Going
    <3> QED BY <3>1, <1>1, <1>6
  <2> QED BY <2>1, <1>3 DEF EventsLive, Going, ifaceEvents
<1> QED BY <1>3, <1>4, <1>7, <1>8, <1>9, <1>10

\* CLOSE_DEV was answered.
LEMMA ClosedCounts ==
    ASSUME IfaceInv, op.inst \in Insts, fwdev[op.inst] # Closed, ClosedDev, halfway' = halfway
    PROVE  /\ IfaceOpenCount' /\ fwdev' \in [Insts -> AnyType \cup {Closed}] /\ opened_dev' \in Int
           /\ fwdev'[op.inst] = Closed /\ \A j \in Insts \ {op.inst} : fwdev'[j] = fwdev[j]
<1> USE DEF IfaceInv
<1>1. /\ fwdev' \in [Insts -> AnyType \cup {Closed}] /\ opened_dev' \in Int
      /\ fwdev'[op.inst] = Closed /\ \A j \in Insts \ {op.inst} : fwdev'[j] = fwdev[j]
  BY DEF ClosedDev, IfaceTypeOK
<1>2. Open' = Open \ {op.inst} /\ op.inst \in Open BY <1>1 DEF Open
<1>3. IsFiniteSet(Open') /\ Cardinality(Open') = Cardinality(Open) - 1 BY <1>2, OpenFinite, FS_RemoveElement
<1>4. opened_dev = 1 => Open' = {}
  <2>1. opened_dev = 1 => Cardinality(Open') = 0
    <3>1. Cardinality(Open') \in Nat BY <1>3, FS_CardinalityType
    <3> QED BY <1>3, <3>1, OpenFinite DEF IfaceOpenCount, IfaceTypeOK
  <2> QED BY <2>1, <1>3, FS_EmptySet
<1>5. ~starved' BY <1>2, <1>4 DEF ClosedDev, IfaceOpenCount
<1>6. IfaceOpenCount' BY <1>3, <1>5, OpenFinite DEF IfaceOpenCount, ClosedDev, IfaceTypeOK
<1> QED BY <1>1, <1>6

\* The device is closed, or the firmware refuses.
LEMMA ClosesStep == ASSUME IfaceInv, TeardownCloses PROVE IfaceInv'
<1> USE DEF IfaceInv
<1>1. op.at = "close" /\ op.inst \in Insts /\ op # NoOp /\ op.next \in {"unregistered", "free", "reopen"}
  BY DEF TeardownCloses, OpStages, Going, IfaceTypeOK, Operation, NoOp
<1>2. UNCHANGED <<subsys, clean, vif, ifaceEvents>> BY DEF TeardownCloses
<1>3. CASE fwdev[op.inst] # Closed /\ ClosedDev /\ halfway' = halfway /\ op.next = "reopen"
           /\ op' = [op EXCEPT !.at = "reopen"] /\ UNCHANGED <<phase, iface, bitmap>>
  <2>1. /\ IfaceOpenCount' /\ fwdev' \in [Insts -> AnyType \cup {Closed}] /\ opened_dev' \in Int
        /\ fwdev'[op.inst] = Closed /\ \A j \in Insts \ {op.inst} : fwdev'[j] = fwdev[j]
    BY <1>1, <1>3, ClosedCounts
  <2>2. /\ op' \in Operation /\ op'.at = "reopen" /\ op'.inst = op.inst /\ op'.next = "reopen" /\ op'.type = op.type
        /\ op' # NoOp
    BY <1>1, <1>3 DEF Operation, IfaceTypeOK, NoOp
  <2>3. IfaceTypeOK' BY <1>2, <1>3, <2>1, <2>2 DEF IfaceTypeOK, ifaceEvents
  <2>4. PartsBuilt' BY <1>2, <1>3 DEF PartsBuilt
  <2>5. OpStages' BY <1>1, <1>3, <2>2 DEF OpStages, Going
  <2>6. IfacePhase' BY <1>1, <1>2, <1>3, <2>2 DEF IfacePhase
  <2>7. TablesAgree'
    <3>1. ~OffTable' /\ ~OffTable BY <1>1, <1>3, <2>2 DEF OffTable, Going
    <3> QED BY <1>1, <1>2, <1>3, <2>2, <3>1 DEF TablesAgree
  <2>8. DevicesAgree' BY <1>1, <1>3, <2>1, <2>2 DEF DevicesAgree, Going
  <2>9. EventsLive' BY <1>1, <1>2, <1>3, <2>1, <2>2 DEF EventsLive, Going, ifaceEvents
  <2> QED BY <2>1, <2>3, <2>4, <2>5, <2>6, <2>7, <2>8, <2>9
<1>4. CASE fwdev[op.inst] # Closed /\ ClosedDev /\ halfway' = halfway /\ op.next # "reopen"
           /\ Freed /\ Ends(op.next = "free")
  <2>1. /\ IfaceOpenCount' /\ fwdev' \in [Insts -> AnyType \cup {Closed}] /\ opened_dev' \in Int
        /\ fwdev'[op.inst] = Closed /\ \A j \in Insts \ {op.inst} : fwdev'[j] = fwdev[j]
    BY <1>1, <1>4, ClosedCounts
  <2>2. halfway' \in SUBSET Insts BY <1>4 DEF IfaceTypeOK
  <2> HIDE DEF IfaceInv
  <2> QED BY <1>1, <1>2, <1>4, <2>1, <2>2, FreedStep
<1>5. CASE halfway' = halfway \cup {op.inst} /\ UNCHANGED <<fwdev, opened_dev, starved>>
           /\ op.next = "reopen" /\ Ends(FALSE) /\ UNCHANGED <<iface, bitmap>>
  <2>1. op' = NoOp /\ op' \in Operation /\ OpStages' /\ ~OffTable' /\ op'.at = "idle" /\ PartsBuilt'
    BY <1>2, <1>5, EndsOp
  <2>2. IfacePhase' BY <1>1, <1>2, <1>5, EndsPhase
  <2>3. IfaceTypeOK' BY <1>1, <1>2, <1>5, <2>1 DEF IfaceTypeOK, ifaceEvents
  <2>4. TablesAgree'
    <3>1. ~OffTable BY <1>1, <1>5 DEF OffTable, Going
    <3> QED BY <1>1, <1>2, <1>5, <2>1, <3>1 DEF TablesAgree
  <2>5. DevicesAgree' BY <1>1, <1>5, <2>1 DEF DevicesAgree, Going
  <2>6. EventsLive' BY <1>1, <1>2, <1>5, <2>1 DEF EventsLive, Going, ifaceEvents
  <2>7. IfaceOpenCount' BY <1>5 DEF IfaceOpenCount, Open
  <2> QED BY <2>1, <2>2, <2>3, <2>4, <2>5, <2>6, <2>7
<1>6. CASE halfway' = halfway \cup {op.inst} /\ UNCHANGED <<fwdev, opened_dev, starved>>
           /\ op.next # "reopen" /\ Freed /\ Ends(op.next = "free")
  <2>1. IfaceOpenCount' BY <1>6 DEF IfaceOpenCount, Open
  <2>2. /\ halfway' \in SUBSET Insts /\ halfway \subseteq halfway' /\ op.inst \in halfway'
        /\ fwdev' \in [Insts -> AnyType \cup {Closed}] /\ opened_dev' \in Int
        /\ \A j \in Insts \ {op.inst} : fwdev'[j] = fwdev[j]
    BY <1>1, <1>6 DEF IfaceTypeOK
  <2> HIDE DEF IfaceInv
  <2> QED BY <1>1, <1>2, <1>6, <2>1, <2>2, FreedStep
<1> QED BY <1>3, <1>4, <1>5, <1>6 DEF TeardownCloses

\* The device is opened with its new type, or with the old one.
LEMMA ReopensStep == ASSUME IfaceInv, ChangeReopens PROVE IfaceInv'
<1> USE DEF IfaceInv
<1>1. /\ op.at \in {"reopen", "restore"} /\ op.inst \in Insts /\ op # NoOp /\ op.next = "reopen"
      /\ fwdev[op.inst] = Closed /\ ~OffTable /\ bitmap = vif /\ op.inst \in vif /\ op.type \in AnyType
  <2>1. op.at \in {"reopen", "restore"} BY DEF ChangeReopens
  <2>2. ~OffTable BY <2>1 DEF OffTable, Going
  <2> QED BY <2>1, <2>2 DEF OpStages, Going, IfaceTypeOK, Operation, NoOp, TablesAgree, DevicesAgree
<1>2. UNCHANGED <<subsys, clean, bitmap, vif, ifaceEvents, starved>> BY DEF ChangeReopens
<1> DEFINE type == IF op.at = "reopen" THEN op.type ELSE iface[op.inst].type
<1>3. type \in AnyType /\ type # "none" /\ iface[op.inst].type # "none"
  <2>1. iface[op.inst].type # "none" /\ iface[op.inst].type \in AnyType
    BY <1>1 DEF TablesAgree, IfaceTypeOK, Entry
  <2> QED BY <1>1, <2>1, IfaceConstants DEF AnyType, P2pDev
<1>4. CASE /\ iface' = [iface EXCEPT ![op.inst] = [type |-> type, enabled |-> TRUE]]
           /\ fwdev' = [fwdev EXCEPT ![op.inst] = type] /\ opened_dev' = opened_dev + 1
           /\ Ends(op.at = "reopen") /\ halfway' = halfway
  <2> HIDE DEF type
  <2> DEFINE ok == op.at = "reopen"
  <2>0. ok \in BOOLEAN /\ Ends(ok) BY <1>4
  <2> HIDE DEF ok
  <2>1. op' = NoOp /\ op' \in Operation /\ OpStages' /\ ~OffTable' /\ op'.at = "idle" /\ PartsBuilt'
    BY <1>2, <2>0, EndsOp
  <2>2. IfacePhase' BY <1>1, <1>2, <2>0, EndsPhase
  <2>3. fwdev' \in [Insts -> AnyType \cup {Closed}] /\ opened_dev' \in Int /\ IfaceOpenCount'
    BY <1>1, <1>2, <1>3, <1>4, Opened
  <2>4. fwdev'[op.inst] # Closed /\ \A j \in Insts \ {op.inst} : fwdev'[j] = fwdev[j]
    BY <1>1, <1>3, <1>4, IfaceConstants DEF AnyType, P2pDev, Closed, IfaceTypeOK
  <2>5. /\ iface' \in [Insts -> Entry] /\ iface'[op.inst].type # "none" /\ iface'[op.inst] # NoIface
        /\ \A j \in Insts \ {op.inst} : iface'[j] = iface[j]
    BY <1>1, <1>3, <1>4 DEF Entry, NoIface, IfaceTypeOK
  <2>6. IfaceTypeOK' BY <1>2, <1>4, <2>1, <2>3, <2>5 DEF IfaceTypeOK, ifaceEvents
  <2>7. TablesAgree' BY <1>1, <1>2, <2>1, <2>5 DEF TablesAgree
  <2>8. DevicesAgree' BY <1>1, <1>2, <1>4, <2>1, <2>4 DEF DevicesAgree, Going
  <2>9. EventsLive' BY <1>1, <1>2, <2>1, <2>4 DEF EventsLive, Going, ifaceEvents
  <2> QED BY <2>1, <2>2, <2>3, <2>6, <2>7, <2>8, <2>9
<1>5. ASSUME iface' = [iface EXCEPT ![op.inst].enabled = TRUE]
      PROVE  /\ iface' \in [Insts -> Entry] /\ iface'[op.inst].type # "none" /\ iface'[op.inst] # NoIface
             /\ \A j \in Insts \ {op.inst} : iface'[j] = iface[j]
  BY <1>1, <1>3, <1>5 DEF Entry, NoIface, IfaceTypeOK
<1>6. CASE /\ iface' = [iface EXCEPT ![op.inst].enabled = TRUE]
           /\ UNCHANGED <<fwdev, opened_dev>> /\ op.at = "reopen"
           /\ op' = [op EXCEPT !.at = "restore"] /\ UNCHANGED <<phase, halfway>>
  <2>1. /\ op' \in Operation /\ op'.at = "restore" /\ op'.inst = op.inst /\ op'.next = "reopen" /\ op'.type = op.type
        /\ op' # NoOp
    BY <1>1, <1>6 DEF Operation, IfaceTypeOK, NoOp
  <2>2. IfaceTypeOK' BY <1>2, <1>5, <1>6, <2>1 DEF IfaceTypeOK, ifaceEvents
  <2>3. PartsBuilt' BY <1>2, <1>6 DEF PartsBuilt
  <2>4. OpStages' BY <1>1, <2>1 DEF OpStages, Going
  <2>5. IfacePhase' BY <1>1, <1>2, <1>6, <2>1 DEF IfacePhase
  <2>6. TablesAgree'
    <3>1. ~OffTable' BY <2>1 DEF OffTable, Going
    <3> QED BY <1>1, <1>2, <1>5, <1>6, <2>1, <3>1 DEF TablesAgree
  <2>7. DevicesAgree' BY <1>1, <1>2, <1>6, <2>1 DEF DevicesAgree, Going
  <2>8. EventsLive' BY <1>1, <1>2, <1>6, <2>1 DEF EventsLive, Going, ifaceEvents
  <2>9. IfaceOpenCount' BY <1>2, <1>6 DEF IfaceOpenCount, Open
  <2> QED BY <2>2, <2>3, <2>4, <2>5, <2>6, <2>7, <2>8, <2>9
<1>7. CASE /\ iface' = [iface EXCEPT ![op.inst].enabled = TRUE]
           /\ UNCHANGED <<fwdev, opened_dev>>
           /\ halfway' = halfway \cup {op.inst} /\ Ends(FALSE)
  <2>1. op' = NoOp /\ op' \in Operation /\ OpStages' /\ ~OffTable' /\ op'.at = "idle" /\ PartsBuilt'
    BY <1>2, <1>7, EndsOp
  <2>2. IfacePhase' BY <1>1, <1>2, <1>7, EndsPhase
  <2>3. IfaceTypeOK' BY <1>1, <1>2, <1>5, <1>7, <2>1 DEF IfaceTypeOK, ifaceEvents
  <2>4. TablesAgree' BY <1>1, <1>2, <1>5, <1>7, <2>1 DEF TablesAgree
  <2>5. DevicesAgree' BY <1>1, <1>2, <1>7, <2>1 DEF DevicesAgree, Going
  <2>6. EventsLive' BY <1>1, <1>2, <1>7, <2>1 DEF EventsLive, Going, ifaceEvents
  <2>7. IfaceOpenCount' BY <1>2, <1>7 DEF IfaceOpenCount, Open
  <2> QED BY <2>1, <2>2, <2>3, <2>4, <2>5, <2>6, <2>7
<1> QED BY <1>4, <1>6, <1>7 DEF ChangeReopens

\* The events touch nothing but their own variables.
LEMMA OpsKept ==
    ASSUME IfaceInv, UNCHANGED ifaceOps
    PROVE  PartsBuilt' /\ OpStages' /\ IfacePhase' /\ TablesAgree' /\ DevicesAgree' /\ IfaceOpenCount'
<1> USE DEF IfaceInv, ifaceOps, ifaceTables
<1>1. PartsBuilt' /\ IfacePhase' BY DEF PartsBuilt, IfacePhase
<1>2. OpStages' BY DEF OpStages, Going
<1>3. TablesAgree' BY DEF TablesAgree, OffTable, Going
<1>4. DevicesAgree' BY DEF DevicesAgree, Going
<1>5. IfaceOpenCount' BY DEF IfaceOpenCount, Open
<1> QED BY <1>1, <1>2, <1>3, <1>4, <1>5

\* An event is found, queued, taken and handled.
LEMMA EventsStep ==
    ASSUME IfaceInv, NEW i \in Insts, RxLooks(i) \/ WorkerTakes(i) \/ WorkerGoes(i) \/ RxQueues
    PROVE  IfaceInv'
<1> USE DEF IfaceInv
<1>0. UNCHANGED ifaceOps BY DEF RxLooks, WorkerTakes, WorkerGoes, RxQueues
<1>1. CASE RxLooks(i)
  <2>1. rx' = i /\ UNCHANGED <<queued, ifaceWorker, late>> BY <1>1 DEF RxLooks
  <2>2. i \in bitmap /\ fwdev[i] # Closed /\ ~(Going({"open", "close", "reopen", "restore"}) /\ i = op.inst)
    <3>1. i \in vif /\ iface[i].enabled /\ fwdev[i] # Closed BY <1>1 DEF RxLooks, Open
    <3> QED BY <3>1 DEF TablesAgree, DevicesAgree, OpStages, Going, OffTable
  <2>3. EventsLive' BY <1>0, <2>1, <2>2 DEF EventsLive, Going, ifaceOps, ifaceTables
  <2>4. IfaceTypeOK' BY <1>0, <2>1 DEF IfaceTypeOK, ifaceOps, ifaceTables
  <2> QED BY <1>0, <2>3, <2>4, OpsKept
<1>2. CASE RxQueues
  <2>1. /\ rx \in Insts /\ queued' = [queued EXCEPT ![rx] = @ + 1] /\ rx' = -1 /\ UNCHANGED <<ifaceWorker, late>>
    BY <1>2 DEF RxQueues, IfaceTypeOK
  <2>2. queued' \in [Insts -> Nat] /\ \A j \in Insts \ {rx} : queued'[j] = queued[j] BY <2>1 DEF IfaceTypeOK
  <2>3. \A j \in Insts : rx' # j BY <2>1 DEF Insts
  <2>4. EventsLive' BY <1>0, <2>1, <2>2, <2>3 DEF EventsLive, Going, ifaceOps, ifaceTables
  <2>5. IfaceTypeOK' BY <1>0, <2>1, <2>2 DEF IfaceTypeOK, ifaceOps, ifaceTables
  <2> QED BY <1>0, <2>4, <2>5, OpsKept
<1>3. CASE WorkerTakes(i)
  <2>1. /\ queued[i] > 0 /\ queued' = [queued EXCEPT ![i] = @ - 1] /\ UNCHANGED <<rx, late>>
        /\ \E w \in {"lock", "run"} : ifaceWorker' = [ifaceWorker EXCEPT ![i] = w]
    BY <1>3 DEF WorkerTakes
  <2>2. queued' \in [Insts -> Nat] /\ \A j \in Insts \ {i} : queued'[j] = queued[j] BY <2>1 DEF IfaceTypeOK
  <2>3. /\ ifaceWorker' \in [Insts -> {"idle", "lock", "run"}]
        /\ \A j \in Insts \ {i} : ifaceWorker'[j] = ifaceWorker[j]
    BY <2>1 DEF IfaceTypeOK
  <2>4. EventsLive' BY <1>0, <2>1, <2>2, <2>3 DEF EventsLive, Going, ifaceOps, ifaceTables
  <2>5. IfaceTypeOK' BY <1>0, <2>1, <2>2, <2>3 DEF IfaceTypeOK, ifaceOps, ifaceTables
  <2> QED BY <1>0, <2>4, <2>5, OpsKept
<1>4. CASE WorkerGoes(i)
  <2>1. /\ ifaceWorker[i] # "idle" /\ UNCHANGED <<rx, late, queued>>
        /\ ifaceWorker' = [ifaceWorker EXCEPT ![i] = IF @ = "lock" THEN "run" ELSE "idle"]
    BY <1>4 DEF WorkerGoes
  <2>3. /\ ifaceWorker' \in [Insts -> {"idle", "lock", "run"}]
        /\ \A j \in Insts \ {i} : ifaceWorker'[j] = ifaceWorker[j]
    BY <2>1 DEF IfaceTypeOK
  <2>4. EventsLive' BY <1>0, <2>1, <2>3 DEF EventsLive, Going, ifaceOps, ifaceTables
  <2>5. IfaceTypeOK' BY <1>0, <2>1, <2>3 DEF IfaceTypeOK, ifaceOps, ifaceTables
  <2> QED BY <1>0, <2>4, <2>5, OpsKept
<1> QED BY <1>1, <1>2, <1>3, <1>4

\* Every step keeps the invariant.
LEMMA IfaceStep == IfaceInv /\ [IfaceNext]_IfaceVars => IfaceInv'
<1> SUFFICES ASSUME IfaceInv, [IfaceNext]_IfaceVars PROVE IfaceInv' OBVIOUS
<1>1. CASE ProbeStep BY <1>1, ProbeStepInv
<1>2. CASE Unwind BY <1>2, UnwindStep
<1>3. CASE Unbind BY <1>3, UnbindStep
<1>4. CASE skw_add_default_iface
  <2>1. "station" \in AnyType /\ P2pDev \in AnyType BY IfaceConstants DEF AnyType
  <2>2. PICK type \in AnyType : BeginAdd(type, FALSE) BY <1>4, <2>1 DEF skw_add_default_iface
  <2>3. /\ op = NoOp /\ phase \in {"wlan", "p2p", "up"}
        /\ UNCHANGED <<phase, subsys, clean, vif, fwdev, opened_dev, ifaceEvents, halfway, starved>>
    BY <1>4 DEF skw_add_default_iface
  <2> QED BY <2>2, <2>3, BeginAddStep
<1>5. ASSUME NEW t \in Types, skw_add_virtual_intf(t) PROVE IfaceInv'
  <2>1. t \in AnyType BY DEF AnyType
  <2>2. /\ op = NoOp /\ phase \in {"wlan", "p2p", "up"} /\ BeginAdd(t, TRUE)
        /\ UNCHANGED <<phase, subsys, clean, vif, fwdev, opened_dev, ifaceEvents, halfway, starved>>
    BY <1>5 DEF skw_add_virtual_intf
  <2> QED BY <2>1, <2>2, BeginAddStep
<1>6. CASE AddOpens BY <1>6, AddOpensStep
<1>7. CASE AddRegisters BY <1>7, AddRegistersStep
<1>8. CASE skw_del_iface
  <2>1. vif \in SUBSET Nat BY DEF IfaceInv, IfaceTypeOK, Insts
  <2>2. Min(vif) \in vif BY <1>8, <2>1, MinIn DEF skw_del_iface
  <2>3. PICK i \in vif : BeginDel(i, FALSE) BY <1>8, <2>2 DEF skw_del_iface
  <2>4. /\ op = NoOp /\ phase \in {"up", "removing", "undo"}
        /\ UNCHANGED <<phase, subsys, clean, bitmap, iface, fwdev, opened_dev, ifaceEvents, halfway, starved>>
    BY <1>8 DEF skw_del_iface
  <2> QED BY <2>3, <2>4, BeginDelStep
<1>9. ASSUME NEW i \in Insts, skw_del_virtual_intf(i) PROVE IfaceInv'
  <2>1. /\ op = NoOp /\ phase \in {"up", "removing", "undo"} /\ i \in vif /\ BeginDel(i, TRUE)
        /\ UNCHANGED <<phase, subsys, clean, bitmap, iface, fwdev, opened_dev, ifaceEvents, halfway, starved>>
    BY <1>9 DEF skw_del_virtual_intf
  <2> QED BY <2>1, BeginDelStep
<1>10. ASSUME NEW i \in Insts, NEW t \in Types, skw_change_intf(i, t) PROVE IfaceInv' BY <1>10, ChangeStep
<1>11. ASSUME NEW i \in Insts, RxLooks(i) \/ WorkerTakes(i) \/ WorkerGoes(i) PROVE IfaceInv' BY <1>11, EventsStep
<1>12. CASE RxQueues
  <2>1. 0 \in Insts BY IfaceConstants DEF Insts
  <2> QED BY <1>12, <2>1, EventsStep
<1>13. CASE TeardownShuts BY <1>13, ShutsStep
<1>14. CASE TeardownCancels BY <1>14, CancelsStep
<1>15. CASE TeardownCloses BY <1>15, ClosesStep
<1>16. CASE ChangeReopens BY <1>16, ReopensStep
<1>17. CASE UNCHANGED IfaceVars
  <2>1. UNCHANGED ifaceRest /\ UNCHANGED <<phase, subsys, clean>>
    BY <1>17 DEF IfaceVars, ifaceRest, ifaceTables, ifaceEvents
  <2>2. PartsBuilt' BY <2>1 DEF IfaceInv, PartsBuilt
  <2>3. IfacePhase' BY <2>1 DEF IfaceInv, IfacePhase, ifaceRest, ifaceTables
  <2> QED BY <2>1, <2>2, <2>3, IfaceRestKept DEF IfaceInv
<1> QED BY <1>1, <1>2, <1>3, <1>4, <1>5, <1>6, <1>7, <1>8, <1>9, <1>10, <1>11, <1>12, <1>13, <1>14, <1>15, <1>16, <1>17
        DEF IfaceNext

(* IfaceInv holds throughout, for every number of interfaces, every combination of types and any
   number of calls, refused commands and events. *)
THEOREM InterfaceInvariance == IfaceSpec => []IfaceInv
<1> QED BY IfaceInitInv, IfaceStep, PTL DEF IfaceSpec

(* skw_core.c, skw_iface.c: the interface tables, the firmware's devices and the event workers agree,
   and whatever fails in probe or change is unwound, whatever the firmware refuses. *)
THEOREM InterfaceSafety == IfaceSpec => []IfaceSafe
<1> QED BY InterfaceInvariance, IfaceInvSafe, PTL
===============================================================================
