------------------------------ MODULE SkwRecovery ------------------------------
(***************************************************************************)
(* What the Wi-Fi driver does when the chip has crashed and is up again    *)
(* (skw_recovery.c): the peers the firmware forgot are put aside, every    *)
(* interface is opened again, a station's connection is reported as lost,  *)
(* an access point is started again with the parameters kept for it and    *)
(* its stations are reported as gone.  The chip may crash again, or refuse *)
(* a command, at any step of it; users go on connecting, starting and      *)
(* stopping access points, and the driver may be removed.                  *)
(* One peer per interface: the access point of a station, or a client.     *)
(***************************************************************************)
EXTENDS Integers, Sequences, FiniteSets

CONSTANTS
    IfTypes,        \* the interface type of each instance: "sta", "ap" or "dev"
    MaxRecCalls,    \* bound: calls of users
    MaxRecCrashes,  \* bound: crashes of the chip nobody asked for
    MaxRecRefused   \* bound: commands the firmware refuses

ASSUME RecTypes == IfTypes \in Seq({"sta", "ap", "dev"}) /\ IfTypes # <<>>

VARIABLES
    recFlags,   \* skw->flags: assert (FW_ASSERT), chip (FW_CHIP_RECOVERY)
    recFw,      \* the firmware: alive, asked (to crash), dev, ap, peer (sets of instances)
    recHost,    \* live: instances with a peer in peer_ctx; upper: connections user space believes in;
                \* ap: access points user space believes in; ifaces: skw->vif.iface
    rd,         \* skw->recovery_data: peer, map, param
    recLock,    \* the holder of rd->lock across steps
    recWork,    \* recovery_work: pc, i, ret
    recNf,      \* the notification of the platform driver that is under way
    recCall,    \* the instance whose START_AP a user waits for, 0 for none
    removal,    \* "no", "unbound", "locked" or "done"
    recGhost,   \* forgotten: freed untold; joined: connected during a recovery; excused: access
                \* points refused; told: reports of one lost peer
    recFuel

RecVars == <<recFlags, recFw, recHost, rd, recLock, recWork, recNf, recCall, removal, recGhost, recFuel>>

RecInsts == DOMAIN IfTypes
OfType(t) == {i \in RecInsts : IfTypes[i] = t}
RecIdle == [pc |-> "idle", i |-> 1, ret |-> 0]
Booted == [alive |-> TRUE, asked |-> FALSE, dev |-> {}, ap |-> {}, peer |-> {}]
Dead == [Booted EXCEPT !.alive = FALSE]

RecInit ==
    /\ recFlags = [assert |-> FALSE, chip |-> FALSE]
    /\ recFw = [Booted EXCEPT !.dev = RecInsts]
    /\ recHost = [live |-> {}, upper |-> {}, ap |-> {}, ifaces |-> RecInsts]
    /\ rd = [peer |-> [i \in RecInsts |-> "none"], map |-> {}, param |-> {}]
    /\ recLock = "free" /\ recWork = RecIdle /\ recNf = "none" /\ recCall = 0 /\ removal = "no"
    /\ recGhost = [forgotten |-> FALSE, joined |-> {}, excused |-> {}, told |-> [i \in RecInsts |-> 0]]
    /\ recFuel = [calls |-> MaxRecCalls, crashes |-> MaxRecCrashes, refused |-> MaxRecRefused]

(* What becomes of a command: it is refused without a trace while FW_ASSERT is set, it is lost if
   the chip is down (the timeout then asserts the chip), or the firmware answers. *)
Outcomes ==
    IF recFlags.assert THEN {"blocked"}
    ELSE IF ~recFw.alive THEN {"lost"}
    ELSE {"ok"} \union (IF recFuel.refused > 0 THEN {"refused"} ELSE {})
Pays(o) == recFuel' = IF o = "refused" THEN [recFuel EXCEPT !.refused = @ - 1] ELSE recFuel
Raises(o) == recFlags' = IF o = "lost" THEN [recFlags EXCEPT !.assert = TRUE] ELSE recFlags

(***************************************************************************)
(* The chip and the platform driver.                                       *)
(***************************************************************************)
Crash ==
    /\ recFw.alive /\ recNf = "none" /\ (recFw.asked \/ recFuel.crashes > 0)
    /\ recFw' = Dead /\ recNf' = IF removal = "no" THEN "assert" ELSE "none"
    /\ recFuel' = IF recFw.asked THEN recFuel ELSE [recFuel EXCEPT !.crashes = @ - 1]
    /\ UNCHANGED <<recFlags, recHost, rd, recLock, recWork, recCall, removal, recGhost>>

(* skw_bsp_notifier(SKW_BSP_NF_ASSERT): commands are blocked, and the work is cancelled, which waits
   for it to end if it runs. *)
skw_bsp_notifier_assert ==
    /\ recNf = "assert"
    /\ recFlags' = [recFlags EXCEPT !.assert = TRUE] /\ recNf' = "cancelling"
    /\ UNCHANGED <<recFw, recHost, rd, recLock, recWork, recCall, removal, recGhost, recFuel>>
Cancelled ==
    /\ recNf = "cancelling" /\ recWork.pc \in {"idle", "queued"}
    /\ recWork' = RecIdle /\ recNf' = "off"
    /\ UNCHANGED <<recFlags, recFw, recHost, rd, recLock, recCall, removal, recGhost, recFuel>>
(* The platform driver downloads the firmware again. *)
ChipBoots ==
    /\ recNf = "off" /\ recFw' = Booted /\ recNf' = "ready"
    /\ UNCHANGED <<recFlags, recHost, rd, recLock, recWork, recCall, removal, recGhost, recFuel>>
skw_bsp_notifier_ready ==
    /\ recNf = "ready" /\ recNf' = "none"
    /\ recWork' = [recWork EXCEPT !.pc = "queued"]
    /\ UNCHANGED <<recFlags, recFw, recHost, rd, recLock, recCall, removal, recGhost, recFuel>>

(***************************************************************************)
(* The work.                                                               *)
(***************************************************************************)
WorkStarts ==
    /\ recWork.pc = "queued" /\ recWork' = [recWork EXCEPT !.pc = "prepare", !.i = 1, !.ret = 0]
    /\ UNCHANGED <<recFlags, recFw, recHost, rd, recLock, recNf, recCall, removal, recGhost, recFuel>>

SetAside ==
    /\ rd' = [rd EXCEPT !.peer = [i \in RecInsts |-> IF i \in recHost.live THEN "held" ELSE "none"],
                        !.map = recHost.live]
    /\ recHost' = [recHost EXCEPT !.live = {}]
    /\ recGhost' = [recGhost EXCEPT !.joined = {}]

(* Fault: a second recovery puts the peers aside again, over those of the first. *)
skw_recovery_prepare_again ==
    /\ recWork.pc = "prepare" /\ recLock = "free" /\ SetAside
    /\ recFlags' = [recFlags EXCEPT !.chip = TRUE] /\ recWork' = [recWork EXCEPT !.pc = "restart"]
    /\ UNCHANGED <<recFw, recLock, recNf, recCall, removal, recFuel>>

(* skw_recovery_prepare: a recovery that did not succeed left its peers in rd. *)
skw_recovery_prepare ==
    /\ recWork.pc = "prepare" /\ recWork' = [recWork EXCEPT !.pc = "restart"]
    /\ \/ recFlags.chip /\ UNCHANGED <<rd, recHost, recFlags, recGhost>>
       \/ ~recFlags.chip /\ recLock = "free" /\ SetAside /\ recFlags' = [recFlags EXCEPT !.chip = TRUE]
    /\ UNCHANGED <<recFw, recLock, recNf, recCall, removal, recFuel>>

(* The chip is enabled, its flags are cleared, and versions and calibration data are exchanged;
   only the last result lives on. *)
Restart ==
    /\ recWork.pc = "restart"
    /\ \E o \in IF recFw.alive THEN {"ok"} \union (IF recFuel.refused > 0 THEN {"refused"} ELSE {}) ELSE {"lost"} :
        /\ recWork' = [recWork EXCEPT !.pc = "open", !.ret = IF o = "ok" THEN 0 ELSE 1]
        /\ recFlags' = [recFlags EXCEPT !.assert = o = "lost"] /\ Pays(o)
    /\ UNCHANGED <<recFw, recHost, rd, recLock, recNf, recCall, removal, recGhost>>

Opening == recWork.pc = "open" /\ recWork.i \in RecInsts /\ recWork.i \in recHost.ifaces
SkipsInterface ==
    /\ recWork.pc = "open" /\ recWork.i \in RecInsts \ recHost.ifaces
    /\ recWork' = [recWork EXCEPT !.i = @ + 1]
    /\ UNCHANGED <<recFlags, recFw, recHost, rd, recLock, recNf, recCall, removal, recGhost, recFuel>>
(* The loop ends after the last interface, or as soon as the chip is known to have crashed: then
   with the result of the interface before. *)
LoopEnds ==
    /\ recWork.pc = "open" /\ (recWork.i \notin RecInsts \/ (Opening /\ recFlags.assert))
    /\ recWork' = [recWork EXCEPT !.pc = "end"]
    /\ recGhost' = [recGhost EXCEPT !.forgotten = @ \/ (Opening /\ recWork.ret = 0)]
    /\ UNCHANGED <<recFlags, recFw, recHost, rd, recLock, recNf, recCall, removal, recFuel>>
(* skw_cmd_open_dev; an interface that cannot be opened asserts the chip (skw_hw_assert) and ends
   the recovery as failed. *)
OpensInterface ==
    /\ Opening /\ ~recFlags.assert
    /\ \E o \in Outcomes :
        /\ Pays(o)
        /\ \/ /\ o = "ok" /\ recFw' = [recFw EXCEPT !.dev = @ \union {recWork.i}]
              /\ recWork' = [recWork EXCEPT !.pc = "recover", !.ret = 0] /\ UNCHANGED recFlags
           \/ /\ o # "ok" /\ recFlags' = [recFlags EXCEPT !.assert = TRUE]
              /\ recFw' = [recFw EXCEPT !.asked = recFw.alive]
              /\ recWork' = [recWork EXCEPT !.pc = "end", !.ret = 1]
    /\ UNCHANGED <<recHost, rd, recLock, recNf, recCall, removal, recGhost>>

NextInterface == recWork' = [recWork EXCEPT !.pc = "open", !.i = @ + 1]
ToTell(i) == i \in rd.map /\ rd.peer[i] = "held"
Told(i) == recGhost' = [recGhost EXCEPT !.told[i] = @ + 1]

(* skw_recovery_sta: the firmware is told to leave, user space that the connection is lost,
   whatever the firmware says. *)
skw_recovery_sta(i) ==
    /\ \/ /\ ToTell(i)
          /\ \E o \in Outcomes :
              /\ Pays(o) /\ Raises(o) /\ recFw' = IF o = "ok" THEN [recFw EXCEPT !.peer = @ \ {i}] ELSE recFw
          /\ rd' = [rd EXCEPT !.peer[i] = "deauthed"]
          /\ recHost' = [recHost EXCEPT !.upper = @ \ {i}] /\ Told(i)
       \/ ~ToTell(i) /\ UNCHANGED <<recFw, recFlags, recFuel, rd, recHost, recGhost>>
    /\ NextInterface /\ UNCHANGED recLock

(* skw_recovery_sap up to skw_lmac_bind_iface, under rd->lock: the settings and START_AP are one
   command here.  Its result is ignored. *)
skw_recovery_sap(i) ==
    \E o \in Outcomes :
        /\ Pays(o) /\ Raises(o)
        /\ \/ /\ o = "ok" /\ i \in rd.param /\ recFw' = [recFw EXCEPT !.ap = @ \union {i}]
              /\ recWork' = [recWork EXCEPT !.pc = "flush"] /\ recLock' = "work" /\ UNCHANGED recGhost
           \/ /\ ~(o = "ok" /\ i \in rd.param) /\ NextInterface /\ UNCHANGED recLock
              /\ recGhost' = [recGhost EXCEPT !.forgotten = @ \/ ToTell(i),
                                              !.excused = IF o = "ok" THEN @ ELSE @ \union {i}]
              /\ UNCHANGED recFw
        /\ UNCHANGED <<rd, recHost>>

Recovers ==
    /\ recWork.pc = "recover" /\ recLock = "free"
    /\ \/ IfTypes[recWork.i] = "sta" /\ skw_recovery_sta(recWork.i)
       \/ IfTypes[recWork.i] = "ap" /\ skw_recovery_sap(recWork.i)
       \/ IfTypes[recWork.i] = "dev" /\ NextInterface /\ UNCHANGED <<recFw, recFlags, recFuel, rd, recHost, recGhost, recLock>>
    /\ UNCHANGED <<recNf, recCall, removal>>

(* skw_recovery_sap_flush_sta: the stations are reported as gone, unless the chip has crashed
   again, and the firmware is told to drop everybody. *)
skw_recovery_sap_flush_sta ==
    /\ recWork.pc = "flush"
    /\ LET i == recWork.i IN
        /\ \/ /\ ToTell(i) /\ ~recFlags.assert /\ Told(i)
              /\ rd' = [rd EXCEPT !.peer[i] = "deauthed"]
              /\ recHost' = [recHost EXCEPT !.upper = @ \ {i}]
           \/ ~ToTell(i) /\ UNCHANGED <<rd, recHost, recGhost>>
           \/ /\ ToTell(i) /\ recFlags.assert /\ recGhost' = [recGhost EXCEPT !.forgotten = TRUE]
              /\ UNCHANGED <<rd, recHost>>
        /\ \E o \in Outcomes : Pays(o) /\ Raises(o)
    /\ NextInterface /\ recLock' = "free" /\ UNCHANGED <<recFw, recNf, recCall, removal>>

(* The end: a recovery without an error frees the peers it put aside. *)
WorkEnds ==
    /\ recWork.pc = "end"
    /\ IF recWork.ret = 0
       THEN /\ rd' = [rd EXCEPT !.peer = [i \in RecInsts |-> "none"]]
            /\ recFlags' = [recFlags EXCEPT !.chip = FALSE]
       ELSE UNCHANGED <<rd, recFlags>>
    /\ recWork' = RecIdle
    /\ UNCHANGED <<recFw, recHost, recLock, recNf, recCall, removal, recGhost, recFuel>>

(***************************************************************************)
(* Users.                                                                  *)
(***************************************************************************)
UserCalls == recFuel.calls > 0 /\ removal = "no" /\ recCall = 0
Serves(i) == recFw.alive /\ ~recFlags.assert /\ i \in recFw.dev

(* A connection, or a client of an access point, is made. *)
Connects(i) ==
    /\ UserCalls /\ Serves(i) /\ i \notin recHost.upper
    /\ i \in OfType("sta") \/ (i \in recFw.ap /\ i \in recHost.ap)
    /\ recHost' = [recHost EXCEPT !.live = @ \union {i}, !.upper = @ \union {i}]
    /\ recFw' = [recFw EXCEPT !.peer = @ \union {i}]
    /\ recGhost' = [recGhost EXCEPT !.told[i] = 0, !.joined = IF recFlags.chip THEN @ \union {i} ELSE @]
    /\ recFuel' = [recFuel EXCEPT !.calls = @ - 1]
    /\ UNCHANGED <<recFlags, rd, recLock, recWork, recNf, recCall, removal>>

(* skw_start_ap keeps the parameters (skw_recovery_data_update), then sends START_AP ... *)
skw_recovery_data_update(i) ==
    /\ UserCalls /\ i \in OfType("ap") \ recHost.ap /\ recLock = "free"
    /\ rd' = [rd EXCEPT !.param = @ \union {i}] /\ recCall' = i
    /\ recFuel' = [recFuel EXCEPT !.calls = @ - 1]
    /\ UNCHANGED <<recFlags, recFw, recHost, recLock, recWork, recNf, removal, recGhost>>
(* ... and drops them again if that fails (skw_recovery_data_clear). *)
StartApAnswered ==
    /\ recCall # 0
    /\ \E o \in IF recFlags.assert \/ ~recFw.alive \/ recCall \in recFw.dev THEN Outcomes ELSE {"error"} :
        /\ Pays(o) /\ Raises(o)
        /\ \/ /\ o = "ok" /\ recFw' = [recFw EXCEPT !.ap = @ \union {recCall}]
              /\ recHost' = [recHost EXCEPT !.ap = @ \union {recCall}] /\ UNCHANGED rd
              /\ recGhost' = [recGhost EXCEPT !.excused = @ \ {recCall}]
           \/ /\ o # "ok" /\ recLock = "free" /\ rd' = [rd EXCEPT !.param = @ \ {recCall}, !.map = @ \ {recCall}]
              /\ UNCHANGED <<recFw, recHost, recGhost>>
    /\ recCall' = 0 /\ UNCHANGED <<recLock, recWork, recNf, removal>>

(* skw_stop_ap: the clients are dropped and the parameters too, then STOP_AP is sent; when it fails
   the access point stays, and no recovery will start it again. *)
RecStopAp(i) ==
    /\ UserCalls /\ i \in recHost.ap /\ recLock = "free"
    /\ \E o \in Outcomes :
        /\ recFuel' = [recFuel EXCEPT !.calls = @ - 1, !.refused = IF o = "refused" THEN @ - 1 ELSE @]
        /\ Raises(o)
        /\ rd' = [rd EXCEPT !.param = @ \ {i}, !.map = @ \ {i}]
        /\ recHost' = [recHost EXCEPT !.live = @ \ {i}, !.upper = @ \ {i}, !.ap = IF o = "ok" THEN @ \ {i} ELSE @]
        /\ recFw' = IF o = "ok" THEN [recFw EXCEPT !.ap = @ \ {i}, !.peer = @ \ {i}] ELSE recFw
        /\ recGhost' = [recGhost EXCEPT !.excused = @ \union {i}]
    /\ UNCHANGED <<recLock, recWork, recNf, recCall, removal>>

(* __skw_drv_remove: nobody listens to the platform driver any more, and the interfaces go. *)
__skw_drv_remove ==
    /\ removal = "no" /\ recCall = 0 /\ recNf \in {"none", "off"}
    /\ removal' = "unbound" /\ recNf' = "none"
    /\ recHost' = [live |-> {}, upper |-> {}, ap |-> {}, ifaces |-> {}]
    /\ UNCHANGED <<recFlags, recFw, rd, recLock, recWork, recCall, recGhost, recFuel>>
(* skw_recovery_deinit takes rd->lock and then waits for the work. *)
skw_recovery_deinit ==
    /\ removal = "unbound" /\ recLock = "free" /\ recLock' = "deinit" /\ removal' = "locked"
    /\ UNCHANGED <<recFlags, recFw, recHost, rd, recWork, recNf, recCall, recGhost, recFuel>>
DeinitEnds ==
    /\ removal = "locked" /\ recWork.pc \in {"idle", "queued"}
    /\ removal' = "done" /\ recLock' = "free" /\ recWork' = RecIdle
    /\ rd' = [peer |-> [i \in RecInsts |-> "none"], map |-> {}, param |-> {}]
    /\ UNCHANGED <<recFlags, recFw, recHost, recNf, recCall, recGhost, recFuel>>

RecoveryWork ==
    \/ WorkStarts \/ skw_recovery_prepare \/ Restart \/ SkipsInterface \/ LoopEnds \/ OpensInterface
    \/ Recovers \/ skw_recovery_sap_flush_sta \/ WorkEnds

RecNext ==
    \/ Crash \/ skw_bsp_notifier_assert \/ Cancelled \/ ChipBoots \/ skw_bsp_notifier_ready
    \/ RecoveryWork
    \/ \E i \in RecInsts : Connects(i) \/ skw_recovery_data_update(i) \/ RecStopAp(i)
    \/ StartApAnswered \/ __skw_drv_remove \/ skw_recovery_deinit \/ DeinitEnds

(* The work is on a workqueue and every command is answered or times out; the platform driver
   goes through its reboot. *)
ChipComesBack ==
    \/ Crash /\ recFw.asked
    \/ skw_bsp_notifier_assert \/ Cancelled \/ ChipBoots \/ skw_bsp_notifier_ready

RecFairness == WF_RecVars(RecoveryWork) /\ WF_RecVars(ChipComesBack)

RecSpec == RecInit /\ [][RecNext]_RecVars /\ RecFairness

RecSettled ==
    /\ removal = "no" /\ recNf = "none" /\ recWork.pc = "idle" /\ recCall = 0
    /\ recFw.alive /\ ~recFw.asked /\ ~recFlags.assert

(* Once the chip is up and recovered, however many crashes and failed recoveries it took, user
   space believes in no connection the firmware does not have: every peer that was put aside was
   reported.  Excluded: the recoveries that a crash ends between two interfaces or that cannot
   restart an access point, which free the remaining peers untold, and what connects on an
   interface already recovered while the next ones fail. *)
RecoveryTells ==
    RecSettled /\ ~recGhost.forgotten => \A i \in recHost.upper \ recGhost.joined : i \in recFw.peer

(* Nobody is told twice that the same peer is gone, though a recovery that failed is done again
   from the first interface. *)
RecoveryTellsOnce == \A i \in RecInsts : recGhost.told[i] <= 1

(* Once recovered, every access point user space believes in is on the air again, unless the
   firmware refused to start it or to stop it, which nobody notices. *)
RecoveryApBack ==
    RecSettled /\ ~recGhost.forgotten => recHost.ap \ recGhost.excused \subseteq recFw.ap

(* A recovery that was scheduled comes to an end, whatever crashes and is refused meanwhile, unless
   the driver is removed: skw_recovery_deinit waits for it with the lock it needs. *)
RecoveryEnds == []<>(recWork.pc = "idle" \/ removal = "locked")

(* After a crash user space is told of every peer that is gone, once, and access points are
   back. *)
RecoverySafe == RecoveryTells /\ RecoveryTellsOnce /\ RecoveryApBack
================================================================================
