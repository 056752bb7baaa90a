------------------------------ MODULE SkwIface ------------------------------
(***************************************************************************)
(* skwifi's interfaces and the life of the driver.  Probe builds the       *)
(* driver's parts and two interfaces; cfg80211 adds, changes and deletes   *)
(* interfaces; remove takes everything down.  Each interface is a number,  *)
(* a device in the firmware and an event worker; commands may be refused   *)
(* at any point, and events arrive all the while.                          *)
(***************************************************************************)
EXTENDS Integers, Sequences, FiniteSets, FiniteSetsExt

CONSTANTS
    NrIface,        \* SKW_NR_IFACE
    Combination,    \* the most interfaces of each type
    MaxIfaceCalls,  \* bound: cfg80211's calls
    MaxIfaceRefused,\* bound: commands and registrations that fail
    MaxIfaceEvents  \* bound: events

Insts == 0 .. NrIface - 1
LastInst == NrIface - 1      \* SKW_LAST_IFACE_ID
Types == DOMAIN Combination  \* "station", "ap", ...
P2pDev == "p2p_device"       \* the legacy P2P interface: counted by no combination
Closed == "closed"

ASSUME IfaceConstants == /\ NrIface \in Nat /\ NrIface > 1
                         /\ "station" \in Types /\ {P2pDev, Closed, "none"} \cap Types = {}

VARIABLES
    phase,      \* of the driver: "absent", "core", "wlan", "p2p", "undo", "failed", "up", "removing", "deaf"
    subsys,     \* the parts of the driver that are initialised
    clean,      \* the last unwinding undid what was initialised, no more and no less
    bitmap,     \* skw->vif.bitmap
    vif,        \* the numbers with an interface in skw->vif.iface
    iface,      \* the allocated interfaces: type, and whether the event worker is enabled
    fwdev,      \* the firmware's devices
    opened_dev,
    op,         \* the operation under RTNL; cfg80211's hold the wiphy's lock as well
    rx,         \* the interface skw_rx_cb has just found enabled, or -1
    queued,     \* events on each worker's queue
    ifaceWorker,\* "idle", "lock" (an event that takes the wiphy's lock), "run"
    late,       \* an event is about to be queued although its queue has been purged (ghost)
    halfway,    \* the numbers whose OPEN_DEV or CLOSE_DEV has been refused (ghost)
    starved,    \* the credits were reset while a device was open (ghost)
    ifaceFuel

ifaceEvents == <<rx, queued, ifaceWorker, late>>
ifaceTables == <<bitmap, vif, iface>>
IfaceVars == <<phase, subsys, clean, ifaceTables, fwdev, opened_dev, op, ifaceEvents, halfway, starved, ifaceFuel>>

NoOp == [at |-> "idle", inst |-> 0, type |-> "none", next |-> "none", locked |-> FALSE]
NoIface == [type |-> "none", enabled |-> FALSE]

IfaceInit ==
    /\ phase = "absent" /\ subsys = {} /\ clean = TRUE
    /\ bitmap = {} /\ vif = {} /\ iface = [i \in Insts |-> NoIface]
    /\ fwdev = [i \in Insts |-> Closed] /\ opened_dev = 0
    /\ op = NoOp
    /\ rx = -1 /\ queued = [i \in Insts |-> 0] /\ ifaceWorker = [i \in Insts |-> "idle"] /\ late = FALSE
    /\ halfway = {} /\ starved = FALSE
    /\ ifaceFuel = [calls |-> MaxIfaceCalls, refused |-> MaxIfaceRefused, events |-> MaxIfaceEvents]

IfaceRefused == ifaceFuel.refused > 0 /\ ifaceFuel' = [ifaceFuel EXCEPT !.refused = @ - 1]
Open == {i \in Insts : fwdev[i] # Closed}

----------------------------------------------------------------------------
(* Probe and its unwinding. *)

(* skw_core_init, then skw_drv_probe up to the interfaces; what cannot fail is left out, or with
   the part before it. *)
InitOrder == <<"wakeup", "event_wq", "dpd", "sgl_dat", "sgl_cmd", "cmd_data", "rx_cmd_cb", "rx_data_cb",
               "rx_thread", "eof_blk", "xmit", "tx_thread", "work", "wifi", "synced", "wiphy">>

skw_buffer_deinit == {"sgl_dat", "sgl_cmd", "cmd_data"}
skw_rx_deinit == {"rx_cmd_cb", "rx_data_cb", "rx_thread"}
skw_tx_deinit == {"eof_blk", "xmit", "tx_thread"}

skw_core_deinit == {"wakeup", "event_wq", "dpd"} \cup skw_buffer_deinit \cup skw_rx_deinit \cup skw_tx_deinit

(* What a failing skw_buffer_init or skw_tx_init takes back itself. *)
skw_buffer_init_frees(failed) ==
    CASE failed = "sgl_cmd" -> {"sgl_dat"}
      [] failed = "cmd_data" -> {"sgl_dat", "sgl_cmd"}
      [] OTHER -> {}

skw_tx_init_frees(failed) ==
    CASE failed = "xmit" -> {"eof_blk"}
      [] failed = "tx_thread" -> {"eof_blk", "xmit"}
      [] OTHER -> {}

(* The labels of skw_core_init: what it undoes besides. *)
CoreUndo(failed) ==
    CASE failed = "event_wq" -> {"wakeup"}
      [] failed = "dpd" -> {"wakeup", "event_wq"}
      [] failed \in skw_buffer_deinit -> {"wakeup", "event_wq", "dpd"}
      [] failed \in skw_rx_deinit -> {"wakeup", "event_wq", "dpd"} \cup skw_buffer_deinit
      [] OTHER -> {"wakeup", "event_wq", "dpd"} \cup skw_buffer_deinit \cup skw_rx_deinit

(* And those of skw_drv_probe, from core_deinit on. *)
ProbeUndo == skw_core_deinit \cup {"work", "wifi"}

MayFail == {InitOrder[k] : k \in DOMAIN InitOrder} \ {"wakeup", "work", "wifi"}

(* Nothing is to be undone for "synced".  When the callback of the data port is refused the one
   of the command port stays registered. *)
LeftBehind(failed) == {"synced"} \cup (IF failed = "rx_data_cb" THEN {"rx_cmd_cb"} ELSE {})

Undoes(done, failed) == clean' = (clean /\ done \subseteq subsys /\ subsys \ done \subseteq LeftBehind(failed))

ifaceRest == <<ifaceTables, fwdev, opened_dev, op, ifaceEvents, halfway, starved>>

(* skw_rx_init returns 0 even when its thread could not be created; the driver then goes on
   without a receiver, and stops there in this model ("deaf"). *)
ProbeStep ==
    /\ phase \in {"absent", "core"} /\ (phase = "absent" => ifaceFuel.calls > 0)
    /\ LET k == Cardinality(subsys) + 1
           part == InitOrder[k]
       IN /\ \/ /\ subsys' = subsys \cup {part}
                /\ phase' = IF k = Len(InitOrder) THEN "wlan" ELSE "core"
                /\ UNCHANGED <<clean, ifaceFuel>>
             \/ /\ IfaceRefused /\ part = "rx_thread"
                /\ phase' = "deaf"
                /\ UNCHANGED <<subsys, clean>>
             \/ /\ IfaceRefused /\ part \in MayFail \ {"rx_thread"}
                /\ Undoes(IF k <= 12 THEN CoreUndo(part) \cup skw_buffer_init_frees(part) \cup skw_tx_init_frees(part)
                                     ELSE ProbeUndo, part)
                /\ subsys' = {} /\ phase' = "absent"
    /\ UNCHANGED ifaceRest

(* The end of __skw_drv_remove, or of skw_drv_probe from unregister_wiphy on. *)
Unwind ==
    /\ op = NoOp
    /\ phase = "failed" \/ (phase = "removing" /\ vif = {})
    /\ Undoes(ProbeUndo \cup {"wiphy"}, "none")
    /\ subsys' = {} /\ phase' = "absent"
    /\ ifaceFuel' = [ifaceFuel EXCEPT !.calls = IF @ > 0 THEN @ - 1 ELSE 0]
    /\ UNCHANGED ifaceRest

Unbind ==
    /\ phase = "up" /\ op = NoOp
    /\ phase' = "removing"
    /\ UNCHANGED <<subsys, clean, ifaceRest, ifaceFuel>>

(* What follows an operation: probe goes on to its second interface or takes the first back. *)
Ends(ok) ==
    /\ op' = NoOp
    /\ phase' = CASE phase = "wlan" -> (IF ok THEN "p2p" ELSE "failed")
                  [] phase = "p2p" -> (IF ok THEN "up" ELSE "undo")
                  [] phase = "undo" -> "failed"
                  [] OTHER -> phase

----------------------------------------------------------------------------
(* Adding an interface. *)

(* skw_alloc_inst: a given number, or the lowest free one. *)
skw_alloc_inst(type) ==
    IF type = P2pDev THEN {LastInst} \ bitmap
    ELSE IF bitmap = Insts THEN {} ELSE {Min(Insts \ bitmap)}

(* skw_count_iftype and the check: of the interfaces there are, without the new one. *)
CombinationAllows(types) == \A t \in Types : Cardinality({i \in vif : types[i] = t}) <= Combination[t]

IfaceTypes == [i \in Insts |-> iface[i].type]

(* skw_add_iface up to its first command. *)
BeginAdd(type, locked) ==
    \E i \in skw_alloc_inst(type) :
        /\ bitmap' = bitmap \cup {i}
        /\ iface' = [iface EXCEPT ![i] = [type |-> type, enabled |-> TRUE]]
        /\ op' = [at |-> "open", inst |-> i, type |-> type, next |-> "register", locked |-> locked]

skw_add_virtual_intf(type) ==
    /\ phase = "up" /\ op = NoOp /\ ifaceFuel.calls > 0
    /\ ifaceFuel' = [ifaceFuel EXCEPT !.calls = @ - 1]
    /\ CombinationAllows(IfaceTypes)
    /\ BeginAdd(type, TRUE)
    /\ UNCHANGED <<phase, subsys, clean, vif, fwdev, opened_dev, ifaceEvents, halfway, starved>>

skw_add_default_iface ==
    /\ op = NoOp /\ phase \in {"wlan", "p2p"}
    /\ BeginAdd(IF phase = "wlan" THEN "station" ELSE P2pDev, FALSE)
    /\ UNCHANGED <<phase, subsys, clean, vif, fwdev, opened_dev, ifaceEvents, halfway, starved, ifaceFuel>>

(* skw_iface_setup's OPEN_DEV for a new interface. *)
AddOpens ==
    /\ op.at = "open"
    /\ \/ /\ fwdev' = [fwdev EXCEPT ![op.inst] = op.type]
          /\ opened_dev' = opened_dev + 1
          /\ vif' = vif \cup {op.inst}
          /\ op' = [op EXCEPT !.at = "register"]
          /\ UNCHANGED <<phase, bitmap, iface, halfway, ifaceFuel>>
       \/ /\ IfaceRefused
          /\ iface' = [iface EXCEPT ![op.inst] = NoIface]
          /\ bitmap' = bitmap \ {op.inst}
          /\ Ends(FALSE)
          /\ UNCHANGED <<vif, fwdev, opened_dev, halfway>>
    /\ UNCHANGED <<subsys, clean, ifaceEvents, starved>>

(* Registration with the network stack; on an error the interface is torn down again. *)
AddRegisters ==
    /\ op.at = "register"
    /\ \/ Ends(TRUE) /\ UNCHANGED <<vif, ifaceFuel>>
       \/ /\ IfaceRefused
          /\ vif' = vif \ {op.inst}
          /\ op' = [op EXCEPT !.at = "shut", !.next = "unregistered"]
          /\ UNCHANGED phase
    /\ UNCHANGED <<subsys, clean, bitmap, iface, fwdev, opened_dev, ifaceEvents, halfway, starved>>

----------------------------------------------------------------------------
(* Deleting and changing one. *)

BeginDel(i, locked) ==
    /\ vif' = vif \ {i}
    /\ op' = [at |-> "shut", inst |-> i, type |-> "none", next |-> "free", locked |-> locked]

skw_del_virtual_intf(i) ==
    /\ phase = "up" /\ op = NoOp /\ i \in vif /\ ifaceFuel.calls > 0
    /\ ifaceFuel' = [ifaceFuel EXCEPT !.calls = @ - 1]
    /\ BeginDel(i, TRUE)
    /\ UNCHANGED <<phase, subsys, clean, bitmap, iface, fwdev, opened_dev, ifaceEvents, halfway, starved>>

(* The loop of __skw_drv_remove; probe's deletion of the first interface. *)
skw_del_iface ==
    /\ phase \in {"removing", "undo"} /\ op = NoOp /\ vif # {}
    /\ BeginDel(Min(vif), FALSE)
    /\ UNCHANGED <<phase, subsys, clean, bitmap, iface, fwdev, opened_dev, ifaceEvents, halfway, starved, ifaceFuel>>

(* skw_change_intf: the legacy P2P interface changes its type on its own. *)
skw_change_intf(i, type) ==
    /\ phase = "up" /\ op = NoOp /\ i \in vif /\ ifaceFuel.calls > 0
    /\ ifaceFuel' = [ifaceFuel EXCEPT !.calls = @ - 1]
    /\ iface[i].type \notin {type, P2pDev}
    /\ CombinationAllows([IfaceTypes EXCEPT ![i] = type])
    /\ op' = [at |-> "shut", inst |-> i, type |-> type, next |-> "reopen", locked |-> TRUE]
    /\ UNCHANGED <<phase, subsys, clean, ifaceTables, fwdev, opened_dev, ifaceEvents, halfway, starved>>

(* skw_iface_teardown, skw_event_work_deinit: no more events, ... *)
TeardownShuts ==
    /\ op.at = "shut"
    /\ iface' = [iface EXCEPT ![op.inst].enabled = FALSE]
    /\ op' = [op EXCEPT !.at = "cancel"]
    /\ UNCHANGED <<phase, subsys, clean, bitmap, vif, fwdev, opened_dev, ifaceEvents, halfway, starved, ifaceFuel>>

(* Fault: the teardown does not wait for the event that is being handled. *)
TeardownCancels_runs ==
    /\ op.at = "cancel"
    /\ queued' = [queued EXCEPT ![op.inst] = 0]
    /\ late' = (late \/ rx = op.inst)
    /\ op' = [op EXCEPT !.at = "close"]
    /\ UNCHANGED <<phase, subsys, clean, ifaceTables, fwdev, opened_dev, rx, ifaceWorker, halfway, starved, ifaceFuel>>

(* ... and none under way: cancel_work_sync waits for the worker. *)
TeardownCancels ==
    /\ op.at = "cancel" /\ ifaceWorker[op.inst] = "idle"
    /\ queued' = [queued EXCEPT ![op.inst] = 0]
    /\ late' = (late \/ rx = op.inst)
    /\ op' = [op EXCEPT !.at = "close"]
    /\ UNCHANGED <<phase, subsys, clean, ifaceTables, fwdev, opened_dev, rx, ifaceWorker, halfway, starved, ifaceFuel>>

(* CLOSE_DEV.  The last device to close resets the firmware's credits. *)
ClosedDev ==
    /\ fwdev' = [fwdev EXCEPT ![op.inst] = Closed]
    /\ opened_dev' = opened_dev - 1
    /\ starved' = (starved \/ (opened_dev = 1 /\ Open \ {op.inst} # {}))

(* The number is given back. *)
Freed ==
    /\ iface' = [iface EXCEPT ![op.inst] = NoIface]
    /\ bitmap' = bitmap \ {op.inst}

(* After CLOSE_DEV: an interface to be deleted is freed whatever the answer; one to be changed
   stays, torn down, when the device could not be closed. *)
TeardownCloses ==
    /\ op.at = "close"
    /\ \/ /\ fwdev[op.inst] # Closed /\ ClosedDev
          /\ UNCHANGED <<halfway, ifaceFuel>>
          /\ IF op.next = "reopen"
               THEN op' = [op EXCEPT !.at = "reopen"] /\ UNCHANGED <<phase, iface, bitmap>>
               ELSE Freed /\ Ends(op.next = "free")
       \/ /\ IF fwdev[op.inst] = Closed THEN UNCHANGED ifaceFuel ELSE IfaceRefused
          /\ halfway' = halfway \cup {op.inst}
          /\ UNCHANGED <<fwdev, opened_dev, starved>>
          /\ IF op.next = "reopen"
               THEN Ends(FALSE) /\ UNCHANGED <<iface, bitmap>>
               ELSE Freed /\ Ends(op.next = "free")
    /\ UNCHANGED <<subsys, clean, vif, ifaceEvents>>

(* skw_iface_setup with the new type; if the firmware refuses, once more with the old one, whose
   answer nobody looks at. *)
ChangeReopens ==
    /\ op.at \in {"reopen", "restore"}
    /\ LET i == op.inst
           type == IF op.at = "reopen" THEN op.type ELSE iface[i].type
       IN \/ /\ iface' = [iface EXCEPT ![i] = [type |-> type, enabled |-> TRUE]]
             /\ fwdev' = [fwdev EXCEPT ![i] = type] /\ opened_dev' = opened_dev + 1
             /\ Ends(op.at = "reopen")
             /\ UNCHANGED <<halfway, ifaceFuel>>
          \/ /\ IfaceRefused
             /\ iface' = [iface EXCEPT ![i].enabled = TRUE]
             /\ UNCHANGED <<fwdev, opened_dev>>
             /\ IF op.at = "reopen"
                  THEN op' = [op EXCEPT !.at = "restore"] /\ UNCHANGED <<phase, halfway>>
                  ELSE halfway' = halfway \cup {i} /\ Ends(FALSE)
    /\ UNCHANGED <<subsys, clean, bitmap, vif, ifaceEvents, starved>>

----------------------------------------------------------------------------
(* Events: skw_rx_cb finds the interface and skw_queue_event_work looks at its flag ... *)

ifaceOps == <<phase, subsys, clean, ifaceTables, fwdev, opened_dev, op, halfway, starved>>

RxLooks(i) ==
    /\ rx = -1 /\ i \in Open /\ i \in vif /\ iface[i].enabled
    /\ ifaceFuel.events > 0 /\ ifaceFuel' = [ifaceFuel EXCEPT !.events = @ - 1]
    /\ rx' = i
    /\ UNCHANGED <<ifaceOps, queued, ifaceWorker, late>>

(* ... and queues the event, with no lock in between. *)
RxQueues ==
    /\ rx # -1
    /\ queued' = [queued EXCEPT ![rx] = @ + 1]
    /\ rx' = -1
    /\ UNCHANGED <<ifaceOps, ifaceWorker, late, ifaceFuel>>

(* The worker takes an event; some handlers take the wiphy's lock. *)
WorkerTakes(i) ==
    /\ ifaceWorker[i] = "idle" /\ queued[i] > 0
    /\ queued' = [queued EXCEPT ![i] = @ - 1]
    /\ \E w \in {"lock", "run"} : ifaceWorker' = [ifaceWorker EXCEPT ![i] = w]
    /\ UNCHANGED <<ifaceOps, rx, late, ifaceFuel>>

WorkerGoes(i) ==
    /\ \/ ifaceWorker[i] = "lock" /\ ~op.locked
       \/ ifaceWorker[i] = "run"
    /\ ifaceWorker' = [ifaceWorker EXCEPT ![i] = IF @ = "lock" THEN "run" ELSE "idle"]
    /\ UNCHANGED <<ifaceOps, rx, queued, late, ifaceFuel>>

----------------------------------------------------------------------------
IfaceNext ==
    \/ ProbeStep
    \/ Unwind
    \/ Unbind
    \/ skw_add_default_iface
    \/ \E t \in Types : skw_add_virtual_intf(t)
    \/ AddOpens
    \/ AddRegisters
    \/ skw_del_iface
    \/ \E i \in Insts : \/ skw_del_virtual_intf(i)
                        \/ \E t \in Types : skw_change_intf(i, t)
                        \/ RxLooks(i)
                        \/ WorkerTakes(i)
                        \/ WorkerGoes(i)
    \/ TeardownShuts
    \/ TeardownCancels
    \/ TeardownCloses
    \/ ChangeReopens
    \/ RxQueues

(* An operation goes on, and the workers run.  Commands always return. *)
IfaceCaller ==
    \/ AddOpens \/ AddRegisters \/ TeardownShuts \/ TeardownCancels \/ TeardownCloses
    \/ ChangeReopens \/ skw_add_default_iface \/ skw_del_iface \/ Unwind

IfaceFairness ==
    /\ WF_IfaceVars(IfaceCaller)
    /\ \A i \in Insts : WF_IfaceVars(WorkerGoes(i))

IfaceSpec == IfaceInit /\ [][IfaceNext]_IfaceVars /\ IfaceFairness

----------------------------------------------------------------------------
(* Between operations the numbers in use are those of the interfaces in the table, and each of
   those is allocated (skw_add_iface's error paths, skw_del_iface). *)
IfaceTablesInStep ==
    op = NoOp => /\ bitmap = vif
                 /\ vif = {i \in Insts : iface[i] # NoIface}

(* The count of open devices is never too low, and right unless a command was refused halfway:
   the firmware's credits are thrown away only when no device is open. *)
IfaceOpenCount ==
    /\ ~starved /\ opened_dev >= Cardinality(Open)
    /\ halfway = {} => opened_dev = Cardinality(Open)

(* No event is handled on an interface that is gone: the teardown waits for the worker. *)
IfaceEventsOfLive ==
    ~late => \A i \in Insts : ifaceWorker[i] # "idle" => iface[i] # NoIface /\ fwdev[i] # Closed

(* Whatever fails in probe, and after remove, what was set up is undone, once, and no interface
   is left. *)
IfaceUnwound ==
    /\ clean
    /\ phase = "absent" => vif = {} /\ bitmap = {} /\ op = NoOp

(* The worker waits for the lock of the very operation that waits for it. *)
Stuck == op.at = "cancel" /\ op.locked /\ ifaceWorker[op.inst] = "lock"

(* Every operation ends, and a driver being removed goes, except where the operation and the
   event worker wait for each other. *)
IfaceOpsEnd ==
    /\ []<>(op = NoOp \/ Stuck)
    /\ []<>(phase # "removing")

(* The interface tables, the firmware's devices and the event workers agree, and every
   failure is unwound. *)
IfaceSafe == IfaceTablesInStep /\ IfaceOpenCount /\ IfaceEventsOfLive /\ IfaceUnwound
=============================================================================
