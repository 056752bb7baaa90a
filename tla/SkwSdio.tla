------------------------------- MODULE SkwSdio -------------------------------
(***************************************************************************)
(* The SDIO bus under the Seekwave ports: the in-band interrupt, the       *)
(* receive thread it wakes, the batches it reads and hands to the Wi-Fi    *)
(* driver, the wake lock, suspend and resume, and loading and unloading.   *)
(***************************************************************************)
EXTENDS Integers

CONSTANTS
    MaxPac,      \* MAX_PAC_COUNT: packets of one read
    MaxSg,       \* MAX_SG_COUNT: entries of a port's scatter list
    MaxPackets,  \* bound: packets the chip sends
    MaxSleeps,   \* bound: suspends
    MaxBusFaults \* bound: transfers and allocations that fail, registrations

ASSUME SdioConstants ==
    {MaxPac, MaxSg} \subseteq Nat \ {0} /\ {MaxPackets, MaxSleeps, MaxBusFaults} \subseteq Nat

VARIABLES
    card,         \* "absent", "online", "gone"
    waiting,      \* packets in the chip
    line,         \* its interrupt
    irq,          \* the handler: claimed, and where it is
    host,         \* who has claimed the MMC host: "none", "irq", "pm"
    rx_completed,
    rxThread,     \* [pc, size, batch]: remain_packet, packets of the batch
    rx_wakelocked,
    resume_flag,
    resume_com,
    pm,           \* "awake", "flagged", "asleep"
    wifiPort,     \* [open, index]: registered, sg_index
    unload,       \* "no", "asked", "thread", "done"
    tally,        \* [taken, handed, dropped]
    sdioFuel

SdioVars == <<card, waiting, line, irq, host, rx_completed, rxThread, rx_wakelocked, resume_flag, resume_com,
              pm, wifiPort, unload, tally, sdioFuel>>

SdioInit ==
    /\ card = "absent" /\ waiting = 0 /\ line = FALSE
    /\ irq = [claimed |-> FALSE, pc |-> "idle"] /\ host = "none"
    /\ rx_completed = FALSE /\ rxThread = [pc |-> "down", size |-> 1, batch |-> 0]
    /\ rx_wakelocked = FALSE /\ resume_flag = TRUE /\ resume_com = FALSE /\ pm = "awake"
    /\ wifiPort = [open |-> FALSE, index |-> 0] /\ unload = "no"
    /\ tally = [taken |-> 0, handed |-> 0, dropped |-> 0]
    /\ sdioFuel = [packets |-> MaxPackets, sleeps |-> MaxSleeps, faults |-> MaxBusFaults]

Bus == <<waiting, line, host>>
Power == <<resume_flag, resume_com, pm>>
Ends == <<wifiPort, unload, tally>>
BusFault == sdioFuel.faults > 0 /\ sdioFuel' = [sdioFuel EXCEPT !.faults = @ - 1]

(* The chip raises its interrupt for every packet; it may wake a host that sleeps. *)
PacketWaits ==
    /\ card = "online" /\ sdioFuel.packets > 0
    /\ sdioFuel' = [sdioFuel EXCEPT !.packets = @ - 1]
    /\ waiting' = waiting + 1 /\ line' = TRUE
    /\ UNCHANGED <<card, irq, host, rx_completed, rxThread, rx_wakelocked, Power, Ends>>

(***************************************************************************)
(* Loading: skw_sdio_io_init starts the thread and scans; the probe enables*)
(* the function and claims the interrupt.                                  *)
(***************************************************************************)
skw_sdio_probe ==
    /\ card = "absent" /\ unload = "no"
    /\ card' = "online" /\ irq' = [irq EXCEPT !.claimed = TRUE] /\ resume_com' = TRUE
    /\ UNCHANGED <<Bus, rx_completed, rxThread, rx_wakelocked, resume_flag, pm, Ends, sdioFuel>>

(* register_rx_callback, and its reverse when the Wi-Fi driver goes or recovers. *)
register_rx_callback ==
    /\ card = "online" /\ rxThread.pc = "down" /\ ~rx_completed
    /\ wifiPort' = [open |-> ~wifiPort.open, index |-> 0]
    /\ IF wifiPort.open THEN BusFault ELSE UNCHANGED sdioFuel
    /\ UNCHANGED <<card, Bus, irq, rx_completed, rxThread, rx_wakelocked, Power, unload, tally>>

(***************************************************************************)
(* skw_sdio_inband_irq_handler: the MMC core calls it with the host        *)
(* claimed, and it waits in there for the end of a suspend.                *)
(***************************************************************************)
HandlerEnters ==
    /\ irq.claimed /\ irq.pc = "idle" /\ line /\ pm # "asleep" /\ host = "none"
    /\ host' = "irq" /\ irq' = [irq EXCEPT !.pc = "check"]
    /\ UNCHANGED <<card, waiting, line, rx_completed, rxThread, rx_wakelocked, Power, Ends, sdioFuel>>

(* skw_resume_check: a bounded wait for resume_flag. *)
Passed(gaveUp) == resume_flag \/ gaveUp

skw_sdio_lock_rx_ws == rx_wakelocked' = TRUE

skw_sdio_rx_up == rx_completed' = TRUE

HandlerClears ==
    /\ irq.pc = "check" /\ Passed(pm = "flagged")
    /\ line' = FALSE /\ irq' = [irq EXCEPT !.pc = "up"]
    /\ UNCHANGED <<card, waiting, host, rx_completed, rxThread, rx_wakelocked, Power, Ends, sdioFuel>>

HandlerEnds ==
    /\ irq.pc = "up" /\ skw_sdio_lock_rx_ws /\ skw_sdio_rx_up
    /\ host' = "none" /\ irq' = [irq EXCEPT !.pc = "idle"]
    /\ UNCHANGED <<card, waiting, line, rxThread, Power, Ends, sdioFuel>>

(***************************************************************************)
(* skw_sdio_rx_thread, with ADMA.                                          *)
(***************************************************************************)
skw_sdio_unlock_rx_ws == rx_wakelocked' = FALSE

RxDown ==
    /\ rxThread.pc = "down" /\ rx_completed /\ rx_completed' = FALSE
    /\ IF unload # "no" THEN rxThread' = [rxThread EXCEPT !.pc = "exit"] /\ UNCHANGED rx_wakelocked
       ELSE IF card # "online" THEN skw_sdio_unlock_rx_ws /\ UNCHANGED rxThread
       ELSE rxThread' = [rxThread EXCEPT !.pc = "read"] /\ UNCHANGED rx_wakelocked
    /\ UNCHANGED <<card, Bus, irq, Power, Ends, sdioFuel>>

Smaller(a, b) == IF a < b THEN a ELSE b

(* What one read asks for: the packets the last one announced, within the buffers. *)
BatchSize == Smaller(rxThread.size, MaxPac)

(* skw_sdio_adma_set_packet_num. *)
skw_sdio_adma_set_packet_num(n) == IF n = 0 THEN 1 ELSE Smaller(n, MaxSg)

(* skw_sdio_prepare_adma_buffer and skw_sdio_adma_read, tried twice after a timeout; a
   failure ends the round, what the chip holds waits for its next interrupt (one to get
   buffers in the middle of a round is simply tried again). *)
RxReads ==
    /\ rxThread.pc = "read" /\ Passed(FALSE) /\ host = "none"
    /\ \/ LET n == Smaller(BatchSize, waiting)
          IN /\ waiting' = waiting - n /\ tally' = [tally EXCEPT !.taken = @ + n]
             /\ rxThread' = [pc |-> "parse", size |-> waiting - n, batch |-> n]
             /\ UNCHANGED sdioFuel
       \/ BusFault /\ rxThread' = [pc |-> "parse", size |-> 0, batch |-> 0] /\ UNCHANGED <<waiting, tally>>
    /\ UNCHANGED <<card, line, irq, host, rx_completed, rx_wakelocked, Power, wifiPort, unload>>

(* skw_sdio_adma_parser: each packet into the port's scatter list, as long as it has room. *)
skw_sdio_adma_parser ==
    LET room == Smaller(rxThread.batch, MaxSg - wifiPort.index)
    IN /\ rxThread.pc = "parse" /\ rxThread' = [rxThread EXCEPT !.pc = "submit", !.batch = 0]
       /\ IF wifiPort.open
          THEN wifiPort' = [wifiPort EXCEPT !.index = @ + room] /\ UNCHANGED tally
          ELSE tally' = [tally EXCEPT !.dropped = @ + rxThread.batch] /\ UNCHANGED wifiPort
       /\ UNCHANGED <<card, Bus, irq, rx_completed, rx_wakelocked, Power, unload, sdioFuel>>

(* Fault: what was handed over stays in the list, and is handed over again. *)
skw_sdio_dispatch_packets_kept ==
    /\ rxThread.pc = "submit"
    /\ tally' = [tally EXCEPT !.handed = @ + wifiPort.index]
    /\ rxThread' = [pc |-> IF rxThread.size > 0 THEN "read" ELSE "down",
                    size |-> skw_sdio_adma_set_packet_num(rxThread.size), batch |-> 0]
    /\ IF rxThread.size > 0 THEN UNCHANGED rx_wakelocked ELSE skw_sdio_unlock_rx_ws
    /\ UNCHANGED <<card, Bus, irq, rx_completed, Power, wifiPort, unload, sdioFuel>>

(* skw_sdio_dispatch_packets, then the next size: more to read, or the wait. *)
skw_sdio_dispatch_packets ==
    /\ rxThread.pc = "submit"
    /\ tally' = [tally EXCEPT !.handed = @ + wifiPort.index]
    /\ wifiPort' = [wifiPort EXCEPT !.index = 0]
    /\ rxThread' = [pc |-> IF rxThread.size > 0 THEN "read" ELSE "down",
                    size |-> skw_sdio_adma_set_packet_num(rxThread.size), batch |-> 0]
    /\ IF rxThread.size > 0 THEN UNCHANGED rx_wakelocked ELSE skw_sdio_unlock_rx_ws
    /\ UNCHANGED <<card, Bus, irq, rx_completed, Power, unload, sdioFuel>>

(***************************************************************************)
(* Suspend and resume.                                                     *)
(***************************************************************************)
(* The wake lock refuses a suspend; the flag first, then the interrupt is given up. *)
SuspendFlags ==
    /\ card = "online" /\ pm = "awake" /\ ~rx_wakelocked /\ unload = "no" /\ sdioFuel.sleeps > 0
    /\ sdioFuel' = [sdioFuel EXCEPT !.sleeps = @ - 1]
    /\ pm' = "flagged" /\ resume_flag' = FALSE
    /\ UNCHANGED <<card, Bus, irq, rx_completed, rxThread, rx_wakelocked, resume_com, Ends>>

skw_sdio_suspend ==
    /\ pm = "flagged" /\ pm' = "asleep" /\ resume_com' = FALSE
    /\ IF resume_com THEN host = "none" /\ irq' = [irq EXCEPT !.claimed = FALSE] ELSE UNCHANGED irq
    /\ UNCHANGED <<card, Bus, rx_completed, rxThread, rx_wakelocked, resume_flag, Ends, sdioFuel>>

(* Fault: the interrupt is not claimed again. *)
skw_sdio_resume_unclaimed ==
    /\ pm = "asleep" /\ pm' = "awake" /\ resume_flag' = TRUE
    /\ UNCHANGED <<card, Bus, irq, rx_completed, rxThread, rx_wakelocked, resume_com, Ends, sdioFuel>>

skw_sdio_resume ==
    /\ pm = "asleep" /\ pm' = "awake" /\ resume_flag' = TRUE
    /\ irq' = [irq EXCEPT !.claimed = TRUE]
    /\ UNCHANGED <<card, Bus, rx_completed, rxThread, rx_wakelocked, resume_com, Ends, sdioFuel>>

(* skw_sdio_adma_write of the Wi-Fi driver: the next suspend gives up the interrupt. *)
skw_sdio_adma_write ==
    /\ card = "online" /\ resume_flag /\ host = "none" /\ ~resume_com /\ resume_com' = TRUE
    /\ UNCHANGED <<card, Bus, irq, rx_completed, rxThread, rx_wakelocked, resume_flag, pm, Ends, sdioFuel>>

(***************************************************************************)
(* Unloading: the thread first, then the card with its interrupt.          *)
(***************************************************************************)

StopAsked ==
    /\ unload = "no" /\ card = "online" /\ pm = "awake" /\ unload' = "asked" /\ skw_sdio_rx_up
    /\ UNCHANGED <<card, Bus, irq, rxThread, rx_wakelocked, Power, wifiPort, tally, sdioFuel>>

(* kthread_stop waits for the end of the thread. *)
skw_sdio_stop_thread ==
    /\ unload = "asked" /\ rxThread.pc = "exit" /\ unload' = "thread"
    /\ UNCHANGED <<card, Bus, irq, rx_completed, rxThread, rx_wakelocked, Power, wifiPort, tally, sdioFuel>>

skw_sdio_remove ==
    /\ unload = "thread" /\ host = "none" /\ unload' = "done"
    /\ card' = "gone" /\ irq' = [irq EXCEPT !.claimed = FALSE] /\ wifiPort' = [open |-> FALSE, index |-> 0]
    /\ UNCHANGED <<Bus, rx_completed, rxThread, rx_wakelocked, Power, tally, sdioFuel>>

(***************************************************************************)
(* The specification.                                                      *)
(***************************************************************************)
Handler == HandlerEnters \/ HandlerClears \/ HandlerEnds
RxLoop == RxDown \/ RxReads \/ skw_sdio_adma_parser \/ skw_sdio_dispatch_packets
Unloading == skw_sdio_stop_thread \/ skw_sdio_remove

SdioNext ==
    \/ PacketWaits \/ skw_sdio_probe \/ register_rx_callback \/ Handler \/ RxLoop
    \/ SuspendFlags \/ skw_sdio_suspend \/ skw_sdio_resume \/ skw_sdio_adma_write
    \/ StopAsked \/ Unloading

(* Threads run; the MMC core hands the host on; a suspended system is resumed. *)
SdioFairness ==
    /\ WF_SdioVars(Handler) /\ WF_SdioVars(RxLoop) /\ WF_SdioVars(skw_sdio_suspend)
    /\ WF_SdioVars(skw_sdio_resume) /\ WF_SdioVars(Unloading)

SdioSpec == SdioInit /\ [][SdioNext]_SdioVars /\ SdioFairness

(***************************************************************************)
(* Properties.                                                             *)
(***************************************************************************)
(* Every packet read from the chip is in the batch, in the port's list, handed to the
   Wi-Fi driver or dropped for want of one: the list never overflows although the announced
   number is not bounded by it. *)
SdioAccounted ==
    tally.taken = tally.handed + tally.dropped + wifiPort.index + rxThread.batch

(* A packet in the chip is read, whatever suspends come between its interrupt, the thread
   and the read, as long as no transfer fails and the driver stays. *)
SdioDelivered ==
    []<>(waiting = 0 \/ sdioFuel.faults < MaxBusFaults \/ unload # "no")

(* A suspend comes to its end although the interrupt handler may wait, with the host that
   the suspend needs, for the flag the suspend has cleared. *)
SdioSuspendEnds == []<>(pm # "flagged")

(* Unloading ends: the thread sees the request wherever it is. *)
SdioUnloads == []<>(unload \in {"no", "done"})
=============================================================================
