------------------------------ MODULE SkwUsbBoot ------------------------------
(***************************************************************************)
(* How the USB HAL loads the chip, watches it and brings it back           *)
(* (skw_usb_io.c, usb_boot.c): the download through the boot ROM's         *)
(* interface, the LOOP port's thread with the chip's messages, the delayed *)
(* exception work, modem_assert, and the WIFI and BT services.             *)
(***************************************************************************)
EXTENDS Integers, FiniteSets

CONSTANTS
    ImageSize,      \* bytes of each of the two images
    DlMps,          \* dl_mps, the largest piece
    DlHeader,       \* PACKET_HEADER_SIZE
    UsbPacket,      \* 512
    MaxUsbCrashes,  \* bound: crashes of the chip
    MaxUsbAsserts,  \* bound: calls of modem_assert
    MaxStarts,      \* bound: service starts, and writes of the debugfs file
    MaxDlFaults     \* bound: failed transfers of a download, and failed starts

ASSUME DlAssumption ==
    /\ {ImageSize, DlMps, DlHeader, UsbPacket} \subseteq Nat
    /\ ImageSize > 0 /\ DlMps > 1 /\ DlHeader > 1 /\ DlHeader < UsbPacket

VARIABLES
    chip_en,        \* whether the board has the chip's power line (chip_en_gpio >= 0)
    usb_recovery_debug_status, \* recovery is switched off, as it is built
    usbChip,        \* "off", "rom", "loaded", "boot", "up", "asserted", "hung"
    bus,            \* the interfaces probed: "none", "Boot", "App"
    attached,       \* whether these are still the chip's: a reset or a start drops them
    dl,             \* the download's step, and the image's offset
    got,            \* bytes of each image in the chip
    packet,         \* size of the last packet of a download
    modem_status,
    usb_cp_state,   \* 0, 1 or 2 (DEVICE_BLOCKED_EVENT)
    usb_except_work, \* "none", "pending", "noted", "reset"
    loop,           \* the LOOP thread: "off", "wait", "lock", "dump", "reset"
    usb_service_map,
    asked,          \* services the chip has been asked for since it came up (ghost)
    unheard,        \* services started while the chip did not listen (ghost)
    wakelocked,
    lateAssert,     \* BSPASSERT handled after the exception work had begun (ghost)
    cutShort,       \* the chip was reset while its memory was read (ghost)
    refused,        \* a recovery found recovery switched off (ghost)
    bootFuel

Board == <<chip_en, usb_recovery_debug_status>>
bootWatch == <<usb_cp_state, usb_except_work, loop, lateAssert, cutShort, refused>>
bootLoad == <<dl, got, packet>>
bootServices == <<usb_service_map, asked, unheard>>
BootVars == <<Board, usbChip, bus, attached, bootLoad, modem_status, bootWatch, bootServices, wakelocked,
              bootFuel>>

UsbServices == {"WIFI", "BT"}
Images == {"dram", "iram"}
UsbBlocked == 2

BootInit ==
    /\ chip_en \in BOOLEAN /\ usb_recovery_debug_status = TRUE
    /\ usbChip = "rom" /\ bus = "none" /\ attached = FALSE /\ modem_status = "OFF"
    /\ dl = [step |-> "idle", offset |-> 0] /\ got = [i \in Images |-> 0] /\ packet = 1
    /\ usb_cp_state = 0 /\ usb_except_work = "none" /\ loop = "off"
    /\ lateAssert = FALSE /\ cutShort = FALSE /\ refused = FALSE
    /\ usb_service_map = {} /\ asked = {} /\ unheard = {}
    /\ wakelocked = FALSE
    /\ bootFuel = [crash |-> MaxUsbCrashes, assert |-> MaxUsbAsserts, start |-> MaxStarts,
                   dl |-> MaxDlFaults]

Burns(k) == bootFuel[k] > 0 /\ bootFuel' = [bootFuel EXCEPT ![k] = @ - 1]

(***************************************************************************)
(* The download.                                                           *)
(***************************************************************************)
(* skw_usb_io_probe of the boot ROM's interface schedules dloader_work. *)
ProbeBoot ==
    /\ bus = "none" /\ usbChip = "rom"
    /\ bus' = "Boot" /\ attached' = TRUE /\ wakelocked' = TRUE
    /\ dl' = [step |-> "dram", offset |-> 0] /\ got' = [i \in Images |-> 0]
    /\ UNCHANGED <<Board, usbChip, packet, modem_status, bootWatch, bootServices, bootFuel>>

(* dloader_work gives up: the chip is switched off where that can be done. *)
DownloadFails ==
    /\ IF attached THEN Burns("dl") ELSE UNCHANGED bootFuel
    /\ modem_status' = "FAILED" /\ dl' = [dl EXCEPT !.step = "idle"]
    /\ usbChip' = IF chip_en THEN "off" ELSE usbChip
    /\ attached' = (attached /\ ~chip_en)

(* usb_download_image: a packet that would fill whole USB packets carries half. *)
Piece(left) ==
    LET most == IF left < DlMps THEN left ELSE DlMps
    IN IF (most + DlHeader) % UsbPacket = 0 THEN most \div 2 ELSE most

usb_download_image_next(i) == IF i = "dram" THEN "iram" ELSE "exec"

usb_download_image_ends(i, done) == dl.offset + done >= ImageSize

usb_download_image(i) ==
    /\ dl.step = i
    /\ \/ LET n == Piece(ImageSize - dl.offset)
          IN /\ attached
             /\ got' = [got EXCEPT ![i] = @ + n] /\ packet' = n + DlHeader
             /\ dl' = IF usb_download_image_ends(i, n)
                      THEN [step |-> usb_download_image_next(i), offset |-> 0]
                      ELSE [dl EXCEPT !.offset = @ + n]
             /\ UNCHANGED <<usbChip, attached, modem_status, bootFuel>>
       \/ DownloadFails /\ UNCHANGED <<got, packet>>
    /\ UNCHANGED <<Board, bus, bootWatch, bootServices, wakelocked>>

dloader_execute_image ==
    /\ dl.step = "exec"
    /\ \/ /\ attached /\ attached' = FALSE
          /\ usbChip' = "loaded" /\ dl' = [dl EXCEPT !.step = "idle"]
          /\ UNCHANGED <<modem_status, bootFuel>>
       \/ DownloadFails
    /\ UNCHANGED <<Board, bus, got, packet, bootWatch, bootServices, wakelocked>>

(* skw_usb_io_disconnect waits for the work; a failed download ends with power on. *)
DisconnectBoot ==
    /\ bus = "Boot" /\ ~attached /\ dl.step = "idle"
    /\ bus' = "none" /\ UNCHANGED attached
    /\ IF chip_en /\ modem_status = "FAILED"
       THEN modem_status' = "HALT" /\ usbChip' = "rom"
       ELSE UNCHANGED <<modem_status, usbChip>>
    /\ UNCHANGED <<Board, bootLoad, bootWatch, bootServices, wakelocked, bootFuel>>

(***************************************************************************)
(* The chip's interfaces, its messages and its resets.                     *)
(***************************************************************************)
(* The LOOP port's thread gives the chip six seconds. *)
ProbeApp ==
    /\ bus = "none" /\ usbChip = "loaded"
    /\ bus' = "App" /\ attached' = TRUE /\ usbChip' = "boot" /\ modem_status' = "ON" /\ loop' = "wait"
    /\ usb_except_work' = IF usb_except_work = "none" THEN "pending" ELSE usb_except_work
    /\ UNCHANGED <<Board, bootLoad, usb_cp_state, lateAssert, cutShort, refused, bootServices, wakelocked,
                   bootFuel>>

DisconnectApp ==
    /\ bus = "App" /\ ~attached /\ loop \in {"off", "wait"}
    /\ bus' = "none" /\ loop' = "off" /\ UNCHANGED attached
    /\ UNCHANGED <<Board, usbChip, bootLoad, modem_status, usb_cp_state, usb_except_work, lateAssert,
                   cutShort, refused, bootServices, wakelocked, bootFuel>>

(* skw_recovery_mode: by the power line, or by a request that a hung chip ignores; not at
   all while recovery is off, and nobody tries again. *)
skw_recovery_mode ==
    \/ /\ ~usb_recovery_debug_status /\ UNCHANGED refused
       /\ usbChip' = IF chip_en \/ usbChip # "hung" THEN "rom" ELSE usbChip
       /\ asked' = IF chip_en \/ usbChip # "hung" THEN {} ELSE asked
       /\ attached' = (attached /\ ~chip_en /\ usbChip = "hung")
       /\ cutShort' = (cutShort \/ loop = "dump")
    \/ /\ usb_recovery_debug_status /\ refused' = TRUE
       /\ UNCHANGED <<usbChip, asked, attached, cutShort>>

(* A write of the debugfs file "recovery". *)
skw_usb_recovery_debug ==
    /\ Burns("start") /\ usb_recovery_debug_status' = ~usb_recovery_debug_status
    /\ UNCHANGED <<chip_en, attached, usbChip, bus, bootLoad, modem_status, bootWatch, bootServices, wakelocked>>

(* The chip (external): it announces itself, asserts or hangs. *)
ChipCrashes(how) ==
    /\ usbChip \in {"boot", "up"} /\ Burns("crash")
    /\ usbChip' = how
    /\ UNCHANGED <<Board, attached, bus, bootLoad, modem_status, bootWatch, bootServices, wakelocked>>

(* usb_loopcheck_entry, "trunk_W": the work is cancelled and the device ready. *)
LoopTrunk ==
    /\ loop = "wait" /\ usbChip = "boot" /\ usb_except_work \in {"none", "pending"}
    /\ usbChip' = "up" /\ usb_except_work' = "none" /\ usb_cp_state' = 0 /\ modem_status' = "ON"
    /\ wakelocked' = FALSE
    /\ UNCHANGED <<Board, attached, bus, bootLoad, loop, lateAssert, cutShort, refused, bootServices, bootFuel>>

(* "WIFIREADY" and "BTREADY". *)
LoopReady(s) ==
    /\ loop = "wait" /\ usbChip = "up" /\ s \in asked \ usb_service_map
    /\ usb_service_map' = usb_service_map \cup {s}
    /\ UNCHANGED <<Board, attached, usbChip, bus, bootLoad, modem_status, bootWatch, asked, unheard,
                   wakelocked, bootFuel>>

(* Fault: the exception work is left to run while the chip is read. *)
LoopAssert_uncancelled ==
    /\ loop = "wait" /\ usbChip = "asserted"
    /\ usb_cp_state' = 1 /\ loop' = "lock"
    /\ lateAssert' = (lateAssert \/ usb_except_work \in {"noted", "reset"})
    /\ UNCHANGED <<Board, attached, usbChip, bus, bootLoad, modem_status, usb_except_work, cutShort, refused,
                   bootServices, wakelocked, bootFuel>>

(* "BSPASSERT": the work is cancelled if the state says that it was scheduled, and the
   state is set without the mutex. *)
LoopAssert ==
    /\ loop = "wait" /\ usbChip = "asserted"
    /\ usb_cp_state' = 1 /\ loop' = "lock"
    /\ usb_except_work' = IF usb_cp_state = 1 THEN "none" ELSE usb_except_work
    /\ lateAssert' = (lateAssert \/ (usb_except_work # "none" /\ usb_cp_state # 1))
    /\ UNCHANGED <<Board, attached, usbChip, bus, bootLoad, modem_status, cutShort, refused, bootServices,
                   wakelocked, bootFuel>>

(* Under the mutex: left to the exception work, or the chip's memory is read. *)
LoopLocks ==
    /\ loop = "lock"
    /\ IF usb_cp_state = UsbBlocked
       THEN loop' = "off" /\ UNCHANGED <<modem_status, wakelocked>>
       ELSE loop' = "dump" /\ modem_status' = "HALT" /\ wakelocked' = TRUE
    /\ UNCHANGED <<Board, attached, usbChip, bus, bootLoad, usb_cp_state, usb_except_work, lateAssert,
                   cutShort, refused, bootServices, bootFuel>>

LoopDumped ==
    /\ loop = "dump" /\ loop' = "reset"
    /\ UNCHANGED <<Board, attached, usbChip, bus, bootLoad, modem_status, usb_cp_state, usb_except_work, lateAssert,
                   cutShort, refused, bootServices, wakelocked, bootFuel>>

LoopResets ==
    /\ loop = "reset" /\ loop' = "off"
    /\ skw_recovery_mode
    /\ usb_service_map' = {}
    /\ UNCHANGED <<unheard, Board, bus, bootLoad, modem_status, usb_cp_state, usb_except_work,
                   lateAssert, wakelocked, bootFuel>>

(* skw_usb_exception_work: only a state of 1 is acted on. *)
skw_usb_exception_work ==
    \/ /\ usb_except_work = "pending"
       /\ IF usb_cp_state = 1
          THEN usb_except_work' = "noted" /\ usb_cp_state' = UsbBlocked /\ wakelocked' = TRUE
          ELSE usb_except_work' = "none" /\ UNCHANGED <<usb_cp_state, wakelocked>>
       /\ UNCHANGED <<Board, attached, usbChip, bus, bootLoad, modem_status, loop, lateAssert, cutShort, refused,
                      bootServices, bootFuel>>
    \/ /\ usb_except_work = "noted" /\ usb_except_work' = "reset"
       /\ usb_service_map' = {}
       /\ UNCHANGED <<Board, attached, usbChip, bus, bootLoad, modem_status, usb_cp_state, loop, lateAssert,
                      cutShort, refused, asked, unheard, wakelocked, bootFuel>>
    \/ /\ usb_except_work = "reset" /\ usb_except_work' = "none"
       /\ skw_recovery_mode
       /\ UNCHANGED <<unheard, Board, bus, bootLoad, modem_status, usb_cp_state, loop, lateAssert,
                      usb_service_map, wakelocked, bootFuel>>

(* modem_assert, of a driver whose command was not answered. *)
modem_assert ==
    /\ Burns("assert") /\ modem_status # "HALT"
    /\ wakelocked' = TRUE
    /\ IF bus = "App" /\ usb_cp_state = 0
       THEN /\ usb_cp_state' = 1 /\ modem_status' = "HALT"
            /\ usbChip' = IF usbChip \in {"boot", "up"} THEN "asserted" ELSE usbChip
            /\ usb_except_work' = IF usb_except_work = "none" THEN "pending" ELSE usb_except_work
       ELSE UNCHANGED <<usb_cp_state, modem_status, usbChip, usb_except_work>>
    /\ UNCHANGED <<Board, attached, bus, bootLoad, loop, lateAssert, cutShort, refused, bootServices>>

(***************************************************************************)
(* The services.                                                           *)
(***************************************************************************)
(* Whether the chip takes the request. *)
send_modem_service_command == usbChip = "up"

(* skw_WIFI_service_start and skw_BT_service_start: marked, answered or not. *)
ServiceStart(s) ==
    /\ Burns("start") /\ bus = "App" /\ s \notin usb_service_map
    /\ usb_service_map' = usb_service_map \cup {s}
    /\ IF send_modem_service_command THEN asked' = asked \cup {s} /\ UNCHANGED unheard
                      ELSE unheard' = unheard \cup {s} /\ UNCHANGED asked
    /\ UNCHANGED <<Board, attached, usbChip, bus, bootLoad, modem_status, bootWatch, wakelocked>>

ServiceStop(s) ==
    /\ s \in usb_service_map /\ bus = "App"
    /\ usb_service_map' = usb_service_map \ {s}
    /\ asked' = IF send_modem_service_command THEN asked \ {s} ELSE asked
    /\ unheard' = unheard \ {s}
    /\ UNCHANGED <<Board, attached, usbChip, bus, bootLoad, modem_status, bootWatch, wakelocked, bootFuel>>

BootNext ==
    \/ ProbeBoot \/ dloader_execute_image \/ DisconnectBoot \/ ProbeApp \/ DisconnectApp
    \/ \E i \in Images : usb_download_image(i)
    \/ LoopTrunk \/ LoopAssert \/ LoopLocks \/ LoopDumped \/ LoopResets
    \/ \E how \in {"asserted", "hung"} : ChipCrashes(how)
    \/ skw_usb_exception_work \/ modem_assert \/ skw_usb_recovery_debug
    \/ \E s \in UsbServices : LoopReady(s) \/ ServiceStart(s) \/ ServiceStop(s)

(* The bus, the LOOP thread, the works and a chip that is not broken go on; crashes,
   failed downloads and callers owe nothing. *)
Downloading == dloader_execute_image \/ \E i \in Images : usb_download_image(i)
BootFairness ==
    /\ WF_BootVars(ProbeBoot \/ DisconnectBoot \/ ProbeApp \/ DisconnectApp)
    /\ WF_BootVars(Downloading /\ bootFuel' = bootFuel)
    /\ WF_BootVars(LoopTrunk \/ LoopAssert \/ LoopLocks \/ LoopDumped \/ LoopResets)
    /\ WF_BootVars(skw_usb_exception_work)

BootSpec == BootInit /\ [][BootNext]_BootVars /\ BootFairness

(***************************************************************************)
(* Properties.                                                             *)
(***************************************************************************)
(* The chip is started only with both images in it, byte for byte, whatever failed
   before. *)
UsbExecWhole ==
    usbChip \in {"loaded", "boot", "up"} => \A i \in Images : got[i] = ImageSize

(* No packet of a download fills whole USB packets, so that each one ends by itself. *)
UsbPacketEnds == packet % UsbPacket # 0

(* The chip is not reset while its memory is read after an assertion, unless its message
   came when the exception work was already due or under way. *)
UsbDumpWhole == cutShort => lateAssert

(* A service marked as started was asked of the chip that now runs: no mark outlives a
   reset.  (A start sent to a chip that was not listening is marked all the same.) *)
UsbServiceFresh ==
    (usbChip = "up" /\ usb_except_work \notin {"noted", "reset"})
        => usb_service_map \subseteq asked \cup unheard

(* A halted modem is on again, unless recovery was off when its turn came (as it is until
   somebody switches it on), a download fails, the chip breaks again, or a hung chip has no
   power line. *)
UsbComesBack ==
    []<>(modem_status = "HALT" => \/ refused \/ bootFuel.dl < MaxDlFaults
                                  \/ bootFuel.crash < MaxUsbCrashes - 1
                                  \/ ~chip_en /\ usbChip = "hung")

(* The chip starts whole images, is dumped before it is reset and keeps no mark of a service
   of the time before. *)
BootSafe == UsbExecWhole /\ UsbPacketEnds /\ UsbDumpWhole /\ UsbServiceFresh
=============================================================================
