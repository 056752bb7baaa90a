------------------------------ MODULE MCSkwChip -------------------------------
(***************************************************************************)
(* The chip and its services: the modem driver's start, stop and recovery, *)
(* a service's port, the SDIO receive path, the download and reset of the  *)
(* USB chip, and libskwbt's transport on top of a port.                    *)
(*                                                                         *)
(* These components share no state that either of them models, so they are *)
(* checked as a sum: a behaviour is one of one component, chosen at the    *)
(* start, and the variables of the others keep the first values of one of  *)
(* their behaviours.  An invariant or a property of a component holds of   *)
(* the sum exactly if it holds of the component's own specification.       *)
(***************************************************************************)
EXTENDS SkwModem, SkwPort, SkwSdio, SkwUsbBoot, SkwTransport

\* The host's port and one more.
TwoPorts == {0, 1}

VARIABLE side  \* the component that takes the steps

vars == <<ModemVars, PortVars, SdioVars, BootVars, TrVars, side>>

Init ==
    /\ side \in {"modem", "port", "sdio", "usbboot", "transport"}
    /\ ModemInit
    /\ PortInit
    /\ SdioInit
    /\ BootInit /\ (side # "usbboot" => chip_en)
    /\ TrInit

Next ==
    \/ /\ side = "modem" /\ ModemNext
       /\ UNCHANGED <<PortVars, SdioVars, BootVars, TrVars, side>>
    \/ /\ side = "port" /\ PortNext
       /\ UNCHANGED <<ModemVars, SdioVars, BootVars, TrVars, side>>
    \/ /\ side = "sdio" /\ SdioNext
       /\ UNCHANGED <<ModemVars, PortVars, BootVars, TrVars, side>>
    \/ /\ side = "usbboot" /\ BootNext
       /\ UNCHANGED <<ModemVars, PortVars, SdioVars, TrVars, side>>
    \/ /\ side = "transport" /\ TrNext
       /\ UNCHANGED <<ModemVars, PortVars, SdioVars, BootVars, side>>

\* The fairness of each component's specification, for the component that is active.
Fairness ==
    /\ WF_ModemVars(side = "modem" /\ Caller)
    /\ WF_ModemVars(side = "modem" /\ Receiver)
    /\ WF_ModemVars(side = "modem" /\ Work)
    /\ WF_ModemVars(side = "modem" /\ send_modem_assert_command)
    /\ WF_ModemVars(side = "modem" /\ Firmware)
    /\ WF_PortVars(side = "port" /\ ReceiverSignals)
    /\ WF_PortVars(side = "port" /\ (ucom_read \/ Reading))
    /\ WF_PortVars(side = "port" /\ send_data)
    /\ WF_PortVars(side = "port" /\ LinkMessage)
    /\ WF_PortVars(side = "port" /\ skw_ucom_remove)
    /\ WF_PortVars(side = "port" /\ ServicesGone)
    /\ WF_SdioVars(side = "sdio" /\ Handler)
    /\ WF_SdioVars(side = "sdio" /\ RxLoop)
    /\ WF_SdioVars(side = "sdio" /\ skw_sdio_suspend)
    /\ WF_SdioVars(side = "sdio" /\ skw_sdio_resume)
    /\ WF_SdioVars(side = "sdio" /\ Unloading)
    /\ WF_BootVars(side = "usbboot" /\ (ProbeBoot \/ DisconnectBoot \/ ProbeApp \/ DisconnectApp))
    /\ WF_BootVars(side = "usbboot" /\ Downloading /\ bootFuel' = bootFuel)
    /\ WF_BootVars(side = "usbboot" /\ (LoopTrunk \/ LoopAssert \/ LoopLocks \/ LoopDumped \/ LoopResets))
    /\ WF_BootVars(side = "usbboot" /\ skw_usb_exception_work)
    /\ WF_TrVars(side = "transport" /\ TrClose)
    /\ WF_TrVars(side = "transport" /\ HostThread)
    /\ \A p \in Ports : WF_TrVars(side = "transport" /\ TrCtl(p) /\ fuel' = fuel)

Spec == Init /\ [][Next]_vars /\ Fairness

\* Recoveries, closes, suspends and unloads end, a caller of the platform
\* driver and a reader of a port return, and packets and failures reach whom
\* they are for, under the fairness of each component.  (The modem's first
\* caller is under way from the start: its part is about the behaviours of that
\* component only.)
ChipProgress ==
    /\ ModemRecovers /\ (side = "modem" => ModemCallsReturn) /\ PortCloseWakes /\
       PortAssertWakes /\ PortResumes /\ SdioDelivered /\ SdioSuspendEnds /\ SdioUnloads /\
       UsbComesBack /\ TrCloseEnds /\ TrFailureReachesHost
===============================================================================
