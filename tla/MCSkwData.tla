------------------------------ MODULE MCSkwData -------------------------------
(***************************************************************************)
(* The traffic between skwifi and the chip: transmit queues and credits,   *)
(* receive reordering, commands and their answers, scans and their timers, *)
(* and the USB transfers below them.                                       *)
(*                                                                         *)
(* These components share no state that either of them models, so they are *)
(* checked as a sum: a behaviour is one of one component, chosen at the    *)
(* start, and the variables of the others keep the first values of one of  *)
(* their behaviours.  An invariant or a property of a component holds of   *)
(* the sum exactly if it holds of the component's own specification.       *)
(*                                                                         *)
(* A component whose record of a known defect is set (torn, collided)      *)
(* takes no further step: what may follow such a defect is not what the    *)
(* properties are about.                                                   *)
(***************************************************************************)
EXTENDS SkwTx, SkwRx, SkwCmd, SkwScan, SkwUsb

\* The stream of an acknowledgement, and whether it carries nothing else.
Acks == {<<1, TRUE>>, <<1, FALSE>>}

ShortReports == UNION {[1 .. n -> 1 .. 3] : n \in 1 .. 4}

VARIABLE side  \* the component that takes the steps

vars == <<TxVars, RxVars, CmdVars, ScanVars, UsbVars, side>>

Init ==
    /\ side \in {"transmit", "receive", "command", "scan", "usb"}
    /\ TxInit
    /\ RxInit /\ (side # "receive" => key)
    /\ CmdInit
    /\ ScanInit /\ (side # "scan" => topic = "scan")
    /\ UsbInit

Next ==
    \/ /\ side = "transmit" /\ TxNext
       /\ UNCHANGED <<RxVars, CmdVars, ScanVars, UsbVars, side>>
    \/ /\ side = "receive" /\ RxNext
       /\ UNCHANGED <<TxVars, CmdVars, ScanVars, UsbVars, side>>
    \/ /\ side = "command" /\ CmdNext
       /\ UNCHANGED <<TxVars, RxVars, ScanVars, UsbVars, side>>
    \/ /\ side = "scan" /\ ~torn /\ ScanNext
       /\ UNCHANGED <<TxVars, RxVars, CmdVars, UsbVars, side>>
    \/ /\ side = "usb" /\ ~collided /\ UsbNext
       /\ UNCHANGED <<TxVars, RxVars, CmdVars, ScanVars, side>>

\* The fairness of each component's specification, for the component that is active.
Fairness ==
    /\ WF_TxState(side = "transmit" /\ XmitEnds)
    /\ WF_TxState(side = "transmit" /\ TxWorker)
    /\ WF_TxState(side = "transmit" /\ TimerExpires)
    /\ WF_TxState(side = "transmit" /\ skw_add_credit)
    /\ WF_TxState(side = "transmit" /\ Unblocked)
    /\ WF_RxVars(side = "receive" /\ RxArms)
    /\ WF_RxVars(side = "receive" /\ skw_reorder_timeout)
    /\ <>[](side = "receive" /\ ~arming.on /\ todo.links > 0) => []<><<skw_rx_todo>>_RxVars
    /\ \A c \in Callers : WF_CmdVars(side = "command" /\ skw_cmd_xmit_timeout(c))
                          /\ WF_CmdVars(side = "command" /\ ((CallerHandsOver(c) \/ CallerWakes(c) \/ CallerReturns(c)) /\ cmdFuel' = cmdFuel))
    /\ WF_CmdVars(side = "command" /\ (TryArms \/ TryHandsOver))
    /\ WF_CmdVars(side = "command" /\ (CmdTimerWork \/ skw_cmd_timeout_fn))
    /\ WF_CmdVars(side = "command" /\ skw_bus_cmd_xmit /\ cmdFuel' = cmdFuel)
    /\ WF_CmdVars(side = "command" /\ NoAckDone)
    /\ WF_CmdVars(side = "command" /\ skw_cmd_ack_handler)
    /\ WF_ScanVars(side = "scan" /\ (skw_timer_work \/ TimerCallback \/ TimerRearm))
    /\ WF_ScanVars(side = "scan" /\ ScanTick)
    /\ WF_ScanVars(side = "scan" /\ skw_scan_returns)
    /\ WF_ScanVars(side = "scan" /\ ScanTimeoutWork)
    /\ WF_UsbVars(side = "usb" /\ (usb_handle \/ usb_handle_reads))
    /\ WF_UsbVars(side = "usb" /\ kick_rx_thread)
    /\ WF_UsbVars(side = "usb" /\ bulkout_async_complete)
    /\ WF_UsbVars(side = "usb" /\ skw_usb_io_resume)
    /\ WF_UsbVars(side = "usb" /\ \E f \in Frames : bulkout_write_sg_async(f))

Spec == Init /\ [][Next]_vars /\ Fairness

\* Every caller of a command returns, every queued frame is sent and every
\* stopped queue restarted, every buffered frame released, every scan ended,
\* and reading never stays stopped, under the fairness of each component.
DataProgress ==
    /\ TxDrains /\ TxQueueRestarts /\ RxReleased /\ CmdCallersReturn /\ ScanEnds /\
       UsbReadsOn /\ UsbSendsEnd
===============================================================================
