-------------------------------- MODULE SkwUsb --------------------------------
(***************************************************************************)
(* The WIFIDATA port of the USB HAL (skw_usb_io.c): a pool of URBs that    *)
(* travel between the free list, the bus, the list of the completed ones   *)
(* that the tasklet empties and the list of those a suspend has killed; a  *)
(* second pool that carries the frames of the transmit worker; suspend,    *)
(* resume, disconnection, and the kick by which a caller whose command is  *)
(* not answered restarts the reading.                                      *)
(***************************************************************************)
EXTENDS Integers, Sequences, FiniteSets
LOCAL INSTANCE SequencesExt

CONSTANTS
    RxUrbs, TxUrbs,     \* three of each in the code
    MaxData,            \* bound: transfers of the chip
    MaxSends,           \* bound: frames of the transmit worker
    MaxUsbSuspends,     \* bound: suspends
    MaxUsbFaults        \* bound: failed submissions and failed transfers

ASSUME UsbConstants == IsFiniteSet(RxUrbs) /\ IsFiniteSet(TxUrbs) /\ MaxUsbFaults \in Nat

VARIABLES
    on,             \* port->state
    suspend,        \* port->suspend
    modem_on,       \* modem_status is MODEM_ON
    rx_urb_list,    \* free URBs
    rx_flight,      \* URBs on the bus, in the order of their submission
    rx_finished,    \* completed URBs
    suspended,      \* suspend_urb_list
    context,        \* URBs whose context is set
    transfer,       \* what each URB has received: a number, or Failed
    bulk_async_read,
    tasklet,        \* scheduled, and the step and round of the running one
    kicker,         \* the step of kick_rx_thread
    tx_urb_list, tx_flight,
    frames,         \* frame -> "new", "bus", "freed"
    frees,          \* frame -> how often it was freed (ghost)
    delivered,      \* what rx_submit has been given (ghost)
    refused,        \* submissions that failed (ghost)
    collided,       \* a kick has met the tasklet (ghost)
    usbFuel

rxVars == <<rx_urb_list, rx_flight, rx_finished, suspended, context, transfer, bulk_async_read>>
txVars == <<tx_urb_list, tx_flight, frames, frees>>
UsbVars == <<on, suspend, modem_on, rxVars, tasklet, kicker, txVars, delivered, refused,
             collided, usbFuel>>

Frames == 1 .. MaxSends
Failed == 0
StillTasklet == [scheduled |-> FALSE, pc |-> "idle", round |-> 0, urb |-> "none"]

UsbInit ==
    /\ on = TRUE /\ suspend = FALSE /\ modem_on = TRUE
    /\ rx_urb_list = << >> /\ rx_flight = SetToSeq(RxUrbs) /\ rx_finished = << >>
    /\ suspended = << >> /\ context = RxUrbs
    /\ transfer = [u \in RxUrbs |-> Failed] /\ bulk_async_read = Cardinality(RxUrbs)
    /\ tasklet = StillTasklet /\ kicker = "idle"
    /\ tx_urb_list = SetToSeq(TxUrbs) /\ tx_flight = << >>
    /\ frames = [f \in Frames |-> "new"] /\ frees = [f \in Frames |-> 0]
    /\ delivered = << >> /\ refused = 0 /\ collided = FALSE
    /\ usbFuel = [data |-> MaxData, faults |-> MaxUsbFaults, suspends |-> MaxUsbSuspends]

Spends(k) == usbFuel[k] > 0 /\ usbFuel' = [usbFuel EXCEPT ![k] = @ - 1]

(***************************************************************************)
(* Reading.                                                                *)
(***************************************************************************)

(* bulkin_async_complete: a URB killed by a suspend is put aside; any other goes to the
   tasklet, failed or not. *)
Completes(urbs, what, killed) ==
    IF killed /\ suspend
    THEN /\ suspended' = suspended \o urbs
         /\ UNCHANGED <<rx_finished, context, transfer, bulk_async_read, tasklet>>
    ELSE /\ bulk_async_read' = bulk_async_read - Len(urbs)
         /\ context' = context \ ToSet(urbs)
         /\ transfer' = [u \in RxUrbs |-> IF u \in ToSet(urbs) THEN what ELSE transfer[u]]
         /\ rx_finished' = rx_finished \o urbs
         /\ tasklet' = [tasklet EXCEPT !.scheduled = TRUE]
         /\ UNCHANGED suspended

(* A transfer of the chip ends; the chip numbers what it sends downwards. *)
bulkin_async_complete(ok) ==
    /\ on /\ rx_flight # << >> /\ modem_on
    /\ rx_flight' = Tail(rx_flight)
    /\ IF ok THEN Spends("data") /\ Completes(<<Head(rx_flight)>>, usbFuel.data, FALSE)
             ELSE Spends("faults") /\ Completes(<<Head(rx_flight)>>, Failed, FALSE)
    /\ UNCHANGED <<on, suspend, modem_on, rx_urb_list, kicker, txVars, delivered, refused, collided>>

(* bulkin_read_async of a free URB: one whose context is still set from a submission
   that failed is dropped; one that fails now goes back with its context set.  The
   caller goes on as in went, or as in failed when the read returned an error. *)
bulkin_read_async(went, failed) ==
    LET u == Head(rx_urb_list)
    IN IF u \in context
       THEN /\ rx_urb_list' = Tail(rx_urb_list)
            /\ failed
            /\ UNCHANGED <<rx_flight, context, bulk_async_read, refused, usbFuel>>
       ELSE \/ /\ ~suspend /\ on
               /\ rx_urb_list' = Tail(rx_urb_list)
               /\ rx_flight' = Append(rx_flight, u) /\ context' = context \cup {u}
               /\ bulk_async_read' = bulk_async_read + 1
               /\ went
               /\ UNCHANGED <<refused, usbFuel>>
            \/ /\ IF suspend \/ ~on THEN UNCHANGED usbFuel ELSE Spends("faults")
               /\ rx_urb_list' = Tail(rx_urb_list) \o <<u>>
               /\ context' = context \cup {u} /\ refused' = refused + 1
               /\ failed
               /\ UNCHANGED <<rx_flight, bulk_async_read>>

TaskletGoes(pc, round, u) == tasklet' = [tasklet EXCEPT !.pc = pc, !.round = round, !.urb = u]

(* usb_handle: the URB is free again before its buffer is read; a failed one ends the
   tasklet, whatever waits behind it. *)
usb_handle ==
    /\ \/ /\ tasklet.scheduled /\ tasklet.pc = "idle"
          /\ tasklet' = [tasklet EXCEPT !.scheduled = FALSE, !.pc = "loop"]
          /\ UNCHANGED <<rx_urb_list, rx_finished, delivered>>
       \/ /\ tasklet.pc = "loop" /\ rx_finished = << >>
          /\ TaskletGoes("idle", 0, "none")
          /\ UNCHANGED <<rx_urb_list, rx_finished, delivered>>
       \/ /\ tasklet.pc = "loop" /\ rx_finished # << >>
          /\ rx_finished' = Tail(rx_finished)
          /\ rx_urb_list' = Append(rx_urb_list, Head(rx_finished))
          /\ IF transfer[Head(rx_finished)] = Failed \/ ~on
             THEN TaskletGoes("idle", 0, "none")
             ELSE TaskletGoes("submit", 0, Head(rx_finished))
          /\ UNCHANGED delivered
       \/ /\ tasklet.pc = "submit"
          /\ delivered' = Append(delivered, transfer[tasklet.urb])
          /\ TaskletGoes(IF modem_on THEN "read" ELSE "idle", 0, "none")
          /\ UNCHANGED <<rx_urb_list, rx_finished>>
    /\ UNCHANGED <<on, suspend, modem_on, rx_flight, suspended, context, transfer,
                   bulk_async_read, kicker, txVars, refused, collided, usbFuel>>

(* Up to three reads after every transfer handed over. *)
usb_handle_reads ==
    /\ tasklet.pc = "read"
    /\ IF suspend \/ rx_urb_list = << >>
       THEN TaskletGoes("loop", 0, "none")
            /\ UNCHANGED <<rx_urb_list, rx_flight, context, bulk_async_read, refused, usbFuel>>
       ELSE bulkin_read_async(
                IF tasklet.round = 2 THEN TaskletGoes("loop", 0, "none")
                                     ELSE TaskletGoes("read", tasklet.round + 1, "none"),
                TaskletGoes("loop", 0, "none"))
    /\ UNCHANGED <<on, suspend, modem_on, rx_finished, suspended, transfer, kicker, txVars,
                   delivered, collided>>

(* kick_rx_thread, of a caller whose command is not answered: looks, then reads. *)
kick_rx_thread ==
    /\ on
    /\ \/ /\ kicker = "idle" /\ bulk_async_read = 0 /\ rx_urb_list # << >>
          /\ kicker' = "read"
          /\ collided' = (collided \/ tasklet.pc # "idle")
          /\ UNCHANGED <<rx_urb_list, rx_flight, context, bulk_async_read, refused, usbFuel>>
       \/ /\ kicker = "read"
          /\ collided' = (collided \/ tasklet.pc # "idle")
          /\ IF suspend \/ rx_urb_list = << >>
             THEN kicker' = "idle"
                  /\ UNCHANGED <<rx_urb_list, rx_flight, context, bulk_async_read, refused, usbFuel>>
             ELSE bulkin_read_async(kicker' = "idle", kicker' = "idle")
    /\ UNCHANGED <<on, suspend, modem_on, rx_finished, suspended, transfer, tasklet, txVars, delivered>>

(***************************************************************************)
(* Writing.                                                                *)
(***************************************************************************)
Frees(fs) == frees' = [f \in Frames |-> IF f \in fs THEN frees[f] + 1 ELSE frees[f]]
Sets(fs, st) == frames' = [f \in Frames |-> IF f \in fs THEN st ELSE frames[f]]

(* wifi_send_cmd_async takes the frames in their order, and refuses at once. *)
wifi_send_cmd_async(f) == frames[f] = "new" /\ \A g \in 1 .. (f - 1) : frames[g] # "new"
Shut == suspend \/ ~on \/ ~modem_on

(* Refused, the caller frees (skw_async_adma_tx); a URB whose submission fails does not go
   back to the list. *)
bulkout_write_sg_async(f) ==
    /\ wifi_send_cmd_async(f)
    /\ \/ /\ Shut
          /\ Sets({f}, "freed") /\ Frees({f})
          /\ UNCHANGED <<tx_urb_list, tx_flight, refused, usbFuel>>
       \/ /\ ~Shut /\ tx_urb_list # << >>
          /\ tx_urb_list' = Tail(tx_urb_list)
          /\ \/ /\ tx_flight' = Append(tx_flight, [urb |-> Head(tx_urb_list), frame |-> f])
                /\ Sets({f}, "bus") /\ UNCHANGED <<frees, refused, usbFuel>>
             \/ /\ Spends("faults") /\ refused' = refused + 1
                /\ Sets({f}, "freed") /\ Frees({f}) /\ UNCHANGED tx_flight
    /\ UNCHANGED <<on, suspend, modem_on, rxVars, tasklet, kicker, delivered, collided>>

(* bulkout_async_complete for the first n on the bus: the driver's callback frees. *)
SendsEnd(n) ==
    LET ended == SubSeq(tx_flight, 1, n)
        fs == {ended[i].frame : i \in DOMAIN ended}
    IN /\ tx_flight' = SubSeq(tx_flight, n + 1, Len(tx_flight))
       /\ tx_urb_list' = tx_urb_list \o [i \in DOMAIN ended |-> ended[i].urb]
       /\ Sets(fs, "freed") /\ Frees(fs)

bulkout_async_complete ==
    /\ tx_flight # << >> /\ on
    /\ SendsEnd(1)
    /\ UNCHANGED <<on, suspend, modem_on, rxVars, tasklet, kicker, delivered, refused, collided,
                   usbFuel>>

(***************************************************************************)
(* Suspend, resume and disconnection.                                      *)
(***************************************************************************)
(* skw_usb_io_suspend: the frames are cancelled, then the reads. *)
skw_usb_io_suspend ==
    /\ on /\ ~suspend /\ Spends("suspends")
    /\ SendsEnd(Len(tx_flight))
    /\ suspend' = TRUE
    /\ rx_flight' = << >> /\ suspended' = suspended \o rx_flight
    /\ UNCHANGED <<on, modem_on, rx_urb_list, rx_finished, context, transfer, bulk_async_read, tasklet,
                   kicker, delivered, refused, collided>>

(* Fault: one of the reads the suspend killed is forgotten. *)
skw_usb_io_resume_skips ==
    /\ on /\ suspend
    /\ suspend' = FALSE /\ suspended' = << >>
    /\ rx_flight' = rx_flight \o (IF suspended = << >> THEN << >> ELSE Front(suspended))
    /\ UNCHANGED <<on, modem_on, rx_urb_list, rx_finished, context, transfer, bulk_async_read, tasklet,
                   kicker, txVars, delivered, refused, collided, usbFuel>>

(* Only the reads that the suspend has killed are submitted again; one that fails is
   lost, and stays counted in bulk_async_read. *)
skw_usb_io_resume ==
    /\ on /\ suspend
    /\ suspend' = FALSE /\ suspended' = << >>
    /\ \/ rx_flight' = rx_flight \o suspended /\ UNCHANGED <<refused, usbFuel>>
       \/ /\ suspended # << >> /\ Spends("faults")
          /\ rx_flight' = rx_flight \o Tail(suspended) /\ refused' = refused + 1
    /\ UNCHANGED <<on, modem_on, rx_urb_list, rx_finished, context, transfer, bulk_async_read, tasklet,
                   kicker, txVars, delivered, collided>>

(* BSPASSERT (skw_usb_kill_wifi_threads): the chip is down, nothing is sent or read on. *)
ModemHalts ==
    /\ modem_on /\ Spends("faults")
    /\ modem_on' = FALSE
    /\ UNCHANGED <<on, suspend, rxVars, tasklet, kicker, txVars, delivered, refused, collided>>

(* skw_usb_io_free_suspend_urbs: those put aside by a suspend are returned. *)
UsbReturned == rx_flight \o suspended

(* skw_usb_io_disconnect: the bus has ended every URB with an error. *)
skw_usb_io_disconnect ==
    /\ on
    /\ on' = FALSE /\ suspend' = FALSE
    /\ SendsEnd(Len(tx_flight))
    /\ rx_flight' = << >> /\ suspended' = << >>
    /\ rx_finished' = rx_finished \o UsbReturned
    /\ transfer' = [u \in RxUrbs |-> IF u \in ToSet(UsbReturned) THEN Failed ELSE transfer[u]]
    /\ context' = context \ ToSet(UsbReturned)
    /\ tasklet' = [tasklet EXCEPT !.scheduled = @ \/ UsbReturned # << >>]
    /\ bulk_async_read' = 0
    /\ UNCHANGED <<modem_on, rx_urb_list, kicker, delivered, refused, collided, usbFuel>>

UsbNext ==
    \/ \E ok \in BOOLEAN : bulkin_async_complete(ok)
    \/ usb_handle \/ usb_handle_reads \/ kick_rx_thread
    \/ \E f \in Frames : bulkout_write_sg_async(f)
    \/ bulkout_async_complete
    \/ skw_usb_io_suspend \/ skw_usb_io_resume \/ ModemHalts \/ skw_usb_io_disconnect

(* The tasklet runs, the bus ends what it was given to send, a suspend is followed by a
   resume, and a caller whose command gets no answer kicks. *)
UsbFairness ==
    /\ WF_UsbVars(usb_handle \/ usb_handle_reads)
    /\ WF_UsbVars(kick_rx_thread) /\ WF_UsbVars(bulkout_async_complete)
    /\ WF_UsbVars(skw_usb_io_resume)
    /\ WF_UsbVars(\E f \in Frames : bulkout_write_sg_async(f))

UsbSpec == UsbInit /\ [][UsbNext]_UsbVars /\ UsbFairness

(***************************************************************************)
(* Properties.                                                             *)
(***************************************************************************)
Places(u) ==
    LET all == rx_urb_list \o rx_flight \o rx_finished \o suspended
    IN {i \in DOMAIN all : all[i] = u}

(* A URB of the pool is in one place, and leaves the pool only after a submission that
   failed. *)
UsbPoolKept ==
    collided \/
    /\ \A u \in RxUrbs : Cardinality(Places(u)) <= 1
    /\ Cardinality({u \in RxUrbs : Places(u) = {}})
         + Cardinality(TxUrbs) - Len(tx_urb_list) - Len(tx_flight) <= refused

(* The tasklet hands over the chip's transfers in their order, none twice and none left
   out, whatever fails, is suspended or is kicked in between. *)
UsbInOrder ==
    \A i \in DOMAIN delivered : delivered[i] = MaxData + 1 - i

(* Every frame the worker hands in is freed once: by the worker, by the completion or by
   the suspend that cancels it. *)
UsbFreedOnce == \A f \in Frames : frees[f] = (IF frames[f] = "freed" THEN 1 ELSE 0)

(* Reading never stays stopped: as long as the chip and the port are up and no
   submission has failed, there is a read on the bus again and again. *)
UsbReadsOn ==
    []<>(rx_flight # << >> \/ suspend \/ ~on \/ ~modem_on \/ refused > 0 \/ collided)

(* Once the worker has begun to send, every frame is sent and freed, unless every transmit URB has
   been lost. *)
UsbSendsEnd ==
    \A f \in Frames : []<>((\E g \in Frames : frames[g] # "new")
                             => frames[f] = "freed" \/ refused >= Cardinality(TxUrbs))

(* No URB is lost or in two places, no transfer out of order, no frame freed twice. *)
UsbSafe == UsbPoolKept /\ UsbInOrder /\ UsbFreedOnce
=============================================================================
