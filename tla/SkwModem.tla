------------------------------- MODULE SkwModem -------------------------------
(***************************************************************************)
(* The Seekwave chip's life as the SDIO driver runs it: the first boot, the*)
(* services Wi-Fi and Bluetooth, a firmware assert with its memory dump,   *)
(* and the reset and download that recover from it.  The receive thread, a *)
(* delayed work, the Wi-Fi driver's assert and the callers of the services *)
(* share cp_state, the service map and one completion.                     *)
(* As built for the board: an SV6160, whose dump ends in a recovery without*)
(* CONFIG_SEEKWAVE_PLD_RELEASE as well; no wake-up lines (gpio_in and      *)
(* gpio_out are -1), no power-off without services, both images loaded.    *)
(* Recovery is on until somebody switches it off in debugfs.               *)
(***************************************************************************)
EXTENDS Integers, Sequences, FiniteSets

CONSTANTS
    MaxOps,       \* bound: service operations, and writes of the debugfs file
    MaxAsserts,   \* bound: asserts the Wi-Fi driver asks for
    MaxCrashes,   \* bound: times the firmware asserts or hangs by itself
    MaxIoFaults   \* bound: bus operations of a recovery that fail

ASSUME ModemConstants == {MaxOps, MaxAsserts, MaxCrashes, MaxIoFaults} \subseteq Nat

Services == {"WIFI", "BT"}
\* What the firmware says when the service runs.
Ready == [s \in Services |-> IF s = "WIFI" THEN "WIFIREADY" ELSE "BTREADY"]
Fine == 0
Except == 1
DumpDone == 2
Blocked == 3

VARIABLES
    cp_state,
    service_state_map,
    download_done,      \* how often the completion has been completed
    except_mutex,       \* "free", "rx", "work" or "caller"
    except_work,        \* "idle", "queued", then the steps of a run
    rx,                 \* the receive thread: [pc, msg]
    hostAssert,         \* send_modem_assert_command: "idle", "decided"
    host_state,
    caller,             \* holder of boot_mutex: [pc, op, s, ret]
    first_dl_flag,
    recovery_debug_status, \* recovery is switched off
    bound,              \* the Wi-Fi and Bluetooth devices are bound
    cp_exception_sts,   \* what the notifier chain told last
    ports,              \* state of the Bluetooth ports: "OPEN" or "ASST"
    fw,                 \* the firmware: [state, services, inbox]
    toHost,             \* its messages on the loop-check channel
    modemGhost,         \* late: a wait was given up; lost: nobody will recover; started: by the last start
    modemFuel

ModemVars == <<cp_state, service_state_map, download_done, except_mutex, except_work, rx, hostAssert,
               host_state, caller, first_dl_flag, recovery_debug_status, bound, cp_exception_sts, ports, fw,
               toHost, modemGhost, modemFuel>>

Idle == [pc |-> "idle", op |-> "none", s |-> "WIFI", ret |-> 0]
Resting == [pc |-> "idle", msg |-> "none"]

ModemInit ==
    /\ cp_state = Fine /\ service_state_map = {} /\ download_done = 0
    /\ except_mutex = "free" /\ except_work = "idle" /\ rx = Resting
    /\ hostAssert = "idle" /\ host_state = 0
    /\ caller = [Idle EXCEPT !.pc = "load", !.op = "first"]
    /\ first_dl_flag = FALSE /\ bound = FALSE /\ recovery_debug_status = FALSE
    /\ cp_exception_sts = 0 /\ ports = "OPEN"
    /\ fw = [state |-> "off", services |-> {}, inbox |-> <<>>] /\ toHost = <<>>
    /\ modemGhost = [late |-> FALSE, lost |-> FALSE, started |-> "none"]
    /\ modemFuel = [ops |-> MaxOps, asserts |-> MaxAsserts, crashes |-> MaxCrashes, io |-> MaxIoFaults]

Platform == <<service_state_map, download_done, except_mutex>>
Actors == <<except_work, rx, hostAssert, host_state, caller>>
Boot == <<first_dl_flag, recovery_debug_status>>
World == <<Boot, bound, cp_exception_sts, ports, fw, toHost, modemGhost, modemFuel>>

(***************************************************************************)
(* The firmware.                                                           *)
(***************************************************************************)
Says(m) == toHost' = Append(toHost, m)
FwUnchanged == UNCHANGED <<cp_state, Platform, Actors, Boot, bound, cp_exception_sts, ports>>

FirmwareBoots ==
    /\ fw.state = "loaded" /\ fw' = [fw EXCEPT !.state = "booting"]
    /\ Says("BSPREADY")
    /\ FwUnchanged /\ UNCHANGED <<modemGhost, modemFuel>>

(* It answers what it was asked, in that order: the version, a start or a stop, the assert
   (with a dump after). *)
FirmwareAnswers ==
    /\ fw.state \in {"booting", "up"} /\ fw.inbox # <<>>
    /\ LET c == Head(fw.inbox)
           rest == [fw EXCEPT !.inbox = Tail(@)]
       IN \/ c[1] = "version" /\ Says("trunk_W") /\ fw' = [rest EXCEPT !.state = "up"]
          \/ c[1] = "start" /\ Says(Ready[c[2]]) /\ fw' = [rest EXCEPT !.services = @ \cup {c[2]}]
          \/ /\ c[1] = "stop" /\ fw' = [rest EXCEPT !.services = @ \ {c[2]}]
             /\ IF c[2] = "BT" THEN Says("BTEXIT") ELSE UNCHANGED toHost
          \/ c[1] = "assert" /\ Says("BSPASSERT") /\ fw' = [rest EXCEPT !.state = "dumping"]
    /\ FwUnchanged /\ UNCHANGED <<modemGhost, modemFuel>>

FirmwareDumps ==
    /\ fw.state = "dumping" /\ fw' = [fw EXCEPT !.state = "dumped"]
    /\ Says("DUMPDONE")
    /\ FwUnchanged /\ UNCHANGED <<modemGhost, modemFuel>>

(* It asserts or hangs by itself.  One that has not told its version is not recovered:
   the assert finds cp_state set, and queues no work. *)
FirmwareFails ==
    /\ modemFuel.crashes > 0 /\ modemFuel' = [modemFuel EXCEPT !.crashes = @ - 1]
    /\ \/ /\ fw.state \in {"booting", "up"} /\ Says("BSPASSERT") /\ fw' = [fw EXCEPT !.state = "dumping"]
          /\ modemGhost' = [modemGhost EXCEPT !.lost = @ \/ fw.state = "booting"]
       \/ /\ fw.state \in {"booting", "up", "dumping"} /\ fw' = [fw EXCEPT !.state = "hung"]
          /\ UNCHANGED toHost
          /\ modemGhost' = [modemGhost EXCEPT !.lost = @ \/ fw.state # "up"]
    /\ FwUnchanged

Asked(c) == fw' = [fw EXCEPT !.inbox = IF fw.state \in {"booting", "up"} THEN Append(@, c) ELSE @]

(***************************************************************************)
(* skw_recovery_mode: its check and skw_sdio_cp_reset, then                *)
(* skw_sdio_boot_cp.  Either may fail; the caller ignores it and nothing   *)
(* tries again.                                                            *)
(***************************************************************************)
(* Refused while recovery is switched off and the chip is in exception: nobody recovers it. *)
Refused == recovery_debug_status /\ cp_state # Fine
GivenUp == modemGhost' = [modemGhost EXCEPT !.lost = TRUE] /\ UNCHANGED modemFuel

skw_sdio_cp_reset(next, failed) ==
    \/ /\ ~Refused /\ fw' = [state |-> "off", services |-> {}, inbox |-> <<>>] /\ toHost' = <<>>
       /\ next /\ UNCHANGED <<modemGhost, modemFuel>>
    \/ Refused /\ GivenUp /\ failed /\ UNCHANGED <<fw, toHost>>
    \/ /\ modemFuel.io > 0 /\ modemFuel' = [modemFuel EXCEPT !.io = @ - 1]
       /\ modemGhost' = [modemGhost EXCEPT !.lost = TRUE]
       /\ ~Refused /\ failed /\ UNCHANGED <<fw, toHost>>

skw_sdio_boot_cp(next, failed) ==
    \/ /\ fw' = [fw EXCEPT !.state = "loaded"]
       /\ next /\ UNCHANGED <<modemGhost, modemFuel>>
    \/ /\ modemFuel.io > 0 /\ modemFuel' = [modemFuel EXCEPT !.io = @ - 1]
       /\ modemGhost' = [modemGhost EXCEPT !.lost = TRUE]
       /\ failed /\ UNCHANGED fw

(***************************************************************************)
(* The receive thread: skw_sdio_handle_packet on the loop-check channel.   *)
(***************************************************************************)
RxAt(pc) == rx.pc = pc
RxGoes(pc) == rx' = [rx EXCEPT !.pc = pc]
RxDone == rx' = Resting

(* READY and BTEXIT, BSPREADY and the version; the first step of an assert. *)
RxTakes ==
    /\ RxAt("idle") /\ toHost # <<>>
    /\ toHost' = Tail(toHost)
    /\ LET m == Head(toHost)
       IN \/ /\ m \in {"WIFIREADY", "BTREADY", "BTEXIT"}
             /\ service_state_map' = service_state_map \cup
                    (CASE m = "WIFIREADY" -> {"WIFI"} [] m = "BTREADY" -> {"BT"} [] OTHER -> {})
             /\ download_done' = download_done + 1
             /\ UNCHANGED <<rx, except_work, fw>>
          \/ /\ m = "BSPREADY" /\ Asked(<<"version", "none">>)
             /\ UNCHANGED <<service_state_map, download_done, rx, except_work>>
          \/ /\ m = "trunk_W" /\ rx' = [pc |-> "version", msg |-> m]
             /\ UNCHANGED <<service_state_map, download_done, except_work, fw>>
          \/ /\ m = "BSPASSERT" /\ rx' = [pc |-> "assert", msg |-> m]
             /\ except_work' = IF cp_state = Fine /\ except_work = "idle" THEN "queued" ELSE except_work
             /\ UNCHANGED <<service_state_map, download_done, fw>>
          \/ /\ m = "DUMPDONE" /\ rx' = [pc |-> "dumpdone", msg |-> m]
             /\ UNCHANGED <<service_state_map, download_done, except_work, fw>>
    /\ UNCHANGED <<cp_state, except_mutex, hostAssert, host_state, caller,
                   Boot, bound, cp_exception_sts, ports, modemGhost, modemFuel>>

RxVersion ==
    /\ RxAt("version") /\ RxDone
    /\ download_done' = IF cp_state = Fine THEN download_done + 1 ELSE download_done
    /\ cp_exception_sts' = IF cp_state = Fine THEN cp_exception_sts ELSE 0
    /\ ports' = IF cp_state = Fine THEN ports ELSE "OPEN"
    /\ cp_state' = Fine /\ host_state' = 0
    /\ UNCHANGED <<service_state_map, except_mutex, except_work, hostAssert, caller,
                   Boot, bound, fw, toHost, modemGhost, modemFuel>>

(* Under except_mutex; then the services are gone and the chain is told. *)
RxAssert ==
    /\ RxAt("assert") /\ except_mutex = "free"
    /\ IF cp_state = Blocked THEN RxDone /\ UNCHANGED cp_state
       ELSE RxGoes("asserted") /\ cp_state' = Except
    /\ UNCHANGED <<Platform, except_work, hostAssert, host_state, caller, World>>

RxAsserted ==
    /\ RxAt("asserted") /\ RxDone
    /\ service_state_map' = {} /\ cp_exception_sts' = 1
    /\ UNCHANGED <<cp_state, download_done, except_mutex, except_work, hostAssert, host_state, caller,
                   Boot, bound, ports, fw, toHost, modemGhost, modemFuel>>

RxDumpDone ==
    /\ RxAt("dumpdone") /\ except_mutex = "free"
    /\ IF cp_state = Blocked THEN RxDone /\ UNCHANGED cp_state
       ELSE RxGoes("cancel") /\ cp_state' = DumpDone
    /\ UNCHANGED <<Platform, except_work, hostAssert, host_state, caller, World>>

(* cancel_delayed_work_sync: a run under way ends first.  Then the chain and the ports. *)
RxCancels ==
    /\ RxAt("cancel") /\ except_work \in {"idle", "queued"}
    /\ RxGoes("reset") /\ except_work' = "idle"
    /\ cp_exception_sts' = (IF recovery_debug_status THEN cp_exception_sts ELSE 2) /\ ports' = "ASST"
    /\ UNCHANGED <<cp_state, Platform, hostAssert, host_state, caller, Boot, bound, fw, toHost,
                   modemGhost, modemFuel>>

RxRecovers ==
    /\ \/ /\ RxAt("reset") /\ cp_state = Blocked /\ RxDone
          /\ UNCHANGED <<fw, toHost, modemGhost, modemFuel>>
       \/ /\ RxAt("reset") /\ cp_state # Blocked /\ skw_sdio_cp_reset(RxGoes("load"), RxDone)
       \/ /\ RxAt("load") /\ skw_sdio_boot_cp(RxDone, RxDone) /\ UNCHANGED toHost
    /\ UNCHANGED <<cp_state, Platform, except_work, hostAssert, host_state, caller,
                   Boot, bound, cp_exception_sts, ports>>

(***************************************************************************)
(* skw_sdio_exception_work, for a dump that does not come.  Its 12 s are   *)
(* longer than a restart, from the reset to the version, that succeeds, and*)
(* than the few lines from the assert's check to its assignment.           *)
(***************************************************************************)
UnderWay ==
    \/ hostAssert = "decided"
    \/ rx.pc \in {"reset", "load", "version"}
    \/ fw.state \in {"loaded", "booting"}
    \/ \E i \in DOMAIN toHost : toHost[i] = "trunk_W"

WorkRuns ==
    /\ except_work = "queued" /\ except_mutex = "free" /\ ~UnderWay
    /\ IF cp_state = Except THEN cp_state' = Blocked /\ except_work' = "blocked"
       ELSE except_work' = "idle" /\ UNCHANGED cp_state
    /\ UNCHANGED <<Platform, rx, hostAssert, host_state, caller, World>>

(* Fault: the services of the firmware that died stay in the map. *)
WorkBlocked_keeps_services ==
    /\ except_work = "blocked"
    /\ cp_exception_sts' = IF host_state = 0 THEN 3 ELSE cp_exception_sts
    /\ ports' = "ASST"
    /\ IF recovery_debug_status THEN except_work' = "idle" /\ GivenUp
       ELSE except_work' = "reset" /\ UNCHANGED <<modemGhost, modemFuel>>
    /\ UNCHANGED <<cp_state, Platform, rx, hostAssert, host_state, caller, Boot, bound, fw, toHost>>

(* The chain and the ports are told; the map is cleared only before a recovery. *)
WorkBlocked ==
    /\ except_work = "blocked"
    /\ cp_exception_sts' = IF host_state = 0 THEN 3 ELSE cp_exception_sts
    /\ ports' = "ASST"
    /\ IF recovery_debug_status
       THEN except_work' = "idle" /\ GivenUp /\ UNCHANGED service_state_map
       ELSE except_work' = "reset" /\ service_state_map' = {} /\ UNCHANGED <<modemGhost, modemFuel>>
    /\ UNCHANGED <<cp_state, download_done, except_mutex, rx, hostAssert, host_state, caller,
                   Boot, bound, fw, toHost>>

WorkGoes(pc) == except_work' = pc

WorkRecovers ==
    /\ \/ except_work = "reset" /\ skw_sdio_cp_reset(WorkGoes("load"), WorkGoes("idle"))
       \/ /\ except_work = "load" /\ skw_sdio_boot_cp(WorkGoes("idle"), WorkGoes("idle"))
          /\ UNCHANGED toHost
    /\ UNCHANGED <<cp_state, Platform, rx, hostAssert, host_state, caller,
                   Boot, bound, cp_exception_sts, ports>>

(***************************************************************************)
(* send_modem_assert_command, on a command the firmware did not answer:    *)
(* cp_state is read, and set later, without the mutex.                     *)
(***************************************************************************)
HostDecides ==
    /\ bound /\ hostAssert = "idle" /\ modemFuel.asserts > 0
    /\ modemFuel' = [modemFuel EXCEPT !.asserts = @ - 1]
    /\ hostAssert' = IF cp_state = Fine THEN "decided" ELSE "idle"
    /\ UNCHANGED <<cp_state, Platform, except_work, rx, host_state, caller, Boot, bound,
                   cp_exception_sts, ports, fw, toHost, modemGhost>>

send_modem_assert_command ==
    /\ hostAssert = "decided" /\ hostAssert' = "idle"
    /\ cp_state' = Except
    /\ \/ Asked(<<"assert", "none">>) /\ UNCHANGED <<host_state, modemFuel>>
       \/ /\ modemFuel.io > 0 /\ modemFuel' = [modemFuel EXCEPT !.io = @ - 1]
          /\ host_state' = 1 /\ UNCHANGED fw
    /\ except_work' = IF except_work = "idle" THEN "queued" ELSE except_work
    /\ UNCHANGED <<Platform, rx, caller, Boot, bound, cp_exception_sts, ports, toHost, modemGhost>>

(***************************************************************************)
(* The callers, one at a time under boot_mutex.                            *)
(***************************************************************************)
CallerGoes(pc) == caller' = [caller EXCEPT !.pc = pc]

(* skw_first_boot through skw_boot_loader: a failed download ends in success all the
   same, only the devices are missing. *)
FirstLoads ==
    /\ caller.op = "first" /\ caller.pc = "load"
    /\ skw_sdio_boot_cp(CallerGoes("wait"), CallerGoes("booted"))
    /\ UNCHANGED <<cp_state, Platform, except_work, rx, hostAssert, host_state, Boot, bound,
                   cp_exception_sts, ports, toHost>>

(* skw_check_cp_ready, for the version. *)
FirstWaits ==
    /\ caller.op = "first" /\ caller.pc = "wait" /\ CallerGoes("booted")
    /\ \/ download_done > 0 /\ download_done' = download_done - 1 /\ bound' = TRUE /\ UNCHANGED modemGhost
       \/ /\ download_done = 0 /\ modemGhost' = [modemGhost EXCEPT !.late = TRUE]
          /\ UNCHANGED <<download_done, bound>>
    /\ UNCHANGED <<cp_state, service_state_map, except_mutex, except_work, rx, hostAssert, host_state,
                   Boot, cp_exception_sts, ports, fw, toHost, modemFuel>>

FirstDone ==
    /\ caller.pc = "booted" /\ caller' = Idle /\ first_dl_flag' = TRUE
    /\ UNCHANGED <<cp_state, Platform, except_work, rx, hostAssert, host_state, recovery_debug_status, bound,
                   cp_exception_sts, ports, fw, toHost, modemGhost, modemFuel>>

(* A write of the debugfs file "recovery". *)
skw_sdio_recovery_debug ==
    /\ modemFuel.ops > 0 /\ modemFuel' = [modemFuel EXCEPT !.ops = @ - 1]
    /\ recovery_debug_status' = ~recovery_debug_status
    /\ UNCHANGED <<cp_state, Platform, Actors, first_dl_flag, bound, cp_exception_sts, ports, fw, toHost,
                   modemGhost>>

(* skw_start_wifi_service and skw_stop_wifi_service of the Wi-Fi driver; bt_start_service
   and bt_stop_service of the BTBOOT device, which does nothing once the chain has told
   of an assert. *)
Begun(op, s) == [Idle EXCEPT !.pc = IF op = "start" THEN "settle" ELSE "lock", !.op = op, !.s = s]

ServiceBegins ==
    /\ caller.pc = "idle" /\ first_dl_flag /\ modemFuel.ops > 0
    /\ modemFuel' = [modemFuel EXCEPT !.ops = @ - 1]
    /\ modemGhost' = [modemGhost EXCEPT !.started = "none"]
    /\ \E s \in Services, op \in {"start", "stop"} :
        /\ s = "WIFI" => bound
        /\ s = "BT" => cp_exception_sts = 0
        /\ caller' = Begun(op, s)
    /\ UNCHANGED <<cp_state, Platform, except_work, rx, hostAssert, host_state, Boot, bound,
                   cp_exception_sts, ports, fw, toHost>>

(* skw_sdio_cp_service_ops waits up to 2 s for the end of an exception; then the map is
   read, before the mutex. *)
ServiceSettles ==
    /\ caller.pc = "settle"
    /\ IF caller.s \in service_state_map
       THEN /\ caller' = Idle
            /\ modemGhost' = [modemGhost EXCEPT !.started = caller.s]
       ELSE CallerGoes("lock") /\ UNCHANGED modemGhost
    /\ UNCHANGED <<cp_state, Platform, except_work, rx, hostAssert, host_state, Boot, bound,
                   cp_exception_sts, ports, fw, toHost, modemFuel>>

ServiceLocks ==
    /\ caller.pc = "lock" /\ except_mutex = "free"
    /\ except_mutex' = "caller" /\ CallerGoes("send")
    /\ UNCHANGED <<cp_state, service_state_map, download_done, except_work, rx, hostAssert, host_state, World>>

(* skw_WIFI_service_start, skw_BT_service_start: a fresh completion, then the command. *)
StartSends ==
    /\ caller.pc = "send" /\ caller.op = "start"
    /\ download_done' = 0
    /\ IF cp_state # Fine
       THEN caller' = Idle /\ except_mutex' = "free" /\ UNCHANGED fw
       ELSE CallerGoes("await") /\ Asked(<<"start", caller.s>>) /\ UNCHANGED except_mutex
    /\ UNCHANGED <<cp_state, service_state_map, except_work, rx, hostAssert, host_state,
                   Boot, bound, cp_exception_sts, ports, toHost, modemGhost, modemFuel>>

(* skw_WIFI_service_stop does not wait; skw_BT_service_stop waits for BTEXIT. *)
StopSends ==
    /\ caller.pc = "send" /\ caller.op = "stop"
    /\ LET asks == caller.s \in service_state_map /\ (caller.s = "BT" => cp_state = Fine)
           sends == asks /\ cp_state = Fine
       IN /\ service_state_map' = IF asks THEN service_state_map \ {caller.s} ELSE service_state_map
          /\ IF sends THEN Asked(<<"stop", caller.s>>) ELSE UNCHANGED fw
          /\ IF sends /\ caller.s = "BT"
             THEN download_done' = 0 /\ CallerGoes("await") /\ UNCHANGED except_mutex
             ELSE caller' = Idle /\ except_mutex' = "free" /\ UNCHANGED download_done
    /\ UNCHANGED <<cp_state, except_work, rx, hostAssert, host_state,
                   Boot, bound, cp_exception_sts, ports, toHost, modemGhost, modemFuel>>

(* skw_check_cp_ready: the completion, or 2 s. *)
ServiceWaits ==
    /\ caller.pc = "await" /\ caller' = Idle /\ except_mutex' = "free"
    /\ \/ /\ download_done > 0 /\ download_done' = download_done - 1
          /\ modemGhost' = [modemGhost EXCEPT !.started = IF caller.op = "start" THEN caller.s ELSE @]
       \/ download_done = 0 /\ UNCHANGED download_done
          /\ modemGhost' = [modemGhost EXCEPT !.late = TRUE]
    /\ UNCHANGED <<cp_state, service_state_map, except_work, rx, hostAssert, host_state,
                   Boot, bound, cp_exception_sts, ports, fw, toHost, modemFuel>>

(***************************************************************************)
(* The specification.                                                      *)
(***************************************************************************)
Caller == FirstLoads \/ FirstWaits \/ FirstDone \/ ServiceSettles \/ ServiceLocks \/ StartSends
              \/ StopSends \/ ServiceWaits
Receiver == RxTakes \/ RxVersion \/ RxAssert \/ RxAsserted \/ RxDumpDone \/ RxCancels \/ RxRecovers
Work == WorkRuns \/ WorkBlocked \/ WorkRecovers
Firmware == FirmwareBoots \/ FirmwareAnswers \/ FirmwareDumps

ModemNext ==
    \/ Caller \/ ServiceBegins \/ skw_sdio_recovery_debug \/ Receiver \/ Work \/ HostDecides \/ send_modem_assert_command
    \/ Firmware \/ FirmwareFails

(* Threads and works run, timeouts expire, and a firmware that has not failed answers. *)
ModemFairness ==
    /\ WF_ModemVars(Caller) /\ WF_ModemVars(Receiver) /\ WF_ModemVars(Work)
    /\ WF_ModemVars(send_modem_assert_command) /\ WF_ModemVars(Firmware)

ModemSpec == ModemInit /\ [][ModemNext]_ModemVars /\ ModemFairness

(***************************************************************************)
(* Properties.                                                             *)
(***************************************************************************)
(* The receive thread and the exception work never reset or download the chip at the same
   time, although the Wi-Fi driver's assert may overwrite the state that tells them apart. *)
ModemOneRecovery ==
    ~(rx.pc \in {"reset", "load"} /\ except_work \in {"blocked", "reset", "load"})

(* The driver does not believe in a service of a firmware that died: while all is well every
   service of the map was started in the firmware that runs.  Not so once a wait was given
   up: the late answer may be taken while the work recovers. *)
ModemServices ==
    cp_state = Fine /\ ~modemGhost.late => service_state_map \subseteq fw.services

(* A start that reports success has its service, unless an exception came since and the new
   firmware runs none, or an earlier wait was given up: the completion is shared, a late
   answer ends the next wait. *)
ModemStartMeansReady ==
    cp_state = Fine /\ ~modemGhost.late /\ modemGhost.started # "none"
        => modemGhost.started \in service_state_map \/ fw.services = {}

(* A chip in exception comes back, whoever noticed and however often: unless a bus operation
   of the recovery fails, the firmware fails again before it has told its version, or
   recovery was off when its turn came, which switching it on again does not make up for. *)
ModemRecovers == []<>(cp_state = Fine \/ modemGhost.lost)

(* Service calls return and leave except_mutex, which the receive thread needs as well. *)
ModemCallsReturn == []<>(caller.pc = "idle" /\ except_mutex = "free")

(* The chip is recovered by one thread at a time, and what the driver believes of the
   firmware's services is true of the firmware that runs. *)
ModemSafe == ModemOneRecovery /\ ModemServices /\ ModemStartMeansReady
=============================================================================
