---------------------------- MODULE SkwChipProofs ----------------------------
(***************************************************************************)
(* Proofs about the chip's side of the Seekwave drivers.                   *)
(***************************************************************************)
EXTENDS SkwModem, SkwPort, SkwSdio, SkwUsbBoot, SkwTransport, SequenceTheorems, TLAPS

-----------------------------------------------------------------------------
(* SkwSdio: every packet is accounted for.                                 *)

SdioType ==
    /\ waiting \in Nat
    /\ rxThread \in [pc : {"down", "read", "parse", "submit", "exit"}, size : Nat, batch : Nat]
    /\ wifiPort \in [open : BOOLEAN, index : Nat]
    /\ tally \in [taken : Nat, handed : Nat, dropped : Nat]

(* The scatter list is empty but between the parser and the submission, and a batch is under
   way only between the read and the parser; what a read asks for fits into the list. *)
SdioStages ==
    /\ rxThread.pc # "submit" => wifiPort.index = 0
    /\ rxThread.pc # "parse" => rxThread.batch = 0
    /\ rxThread.pc \in {"down", "read"} => rxThread.size <= MaxSg
    /\ rxThread.batch <= MaxSg
    /\ unload \in {"thread", "done"} => rxThread.pc = "exit"

SdioInv == SdioType /\ SdioStages /\ SdioAccounted

LEMMA SdioInitInv == SdioInit => SdioInv
BY SdioConstants DEF SdioInit, SdioInv, SdioType, SdioStages, SdioAccounted

LEMMA SdioSet == \A n \in Nat : skw_sdio_adma_set_packet_num(n) \in Nat /\ skw_sdio_adma_set_packet_num(n) <= MaxSg
BY SdioConstants DEF skw_sdio_adma_set_packet_num, Smaller

LEMMA SdioStep == SdioInv /\ [SdioNext]_SdioVars => SdioInv'
<1> SUFFICES ASSUME SdioInv, [SdioNext]_SdioVars PROVE SdioInv' OBVIOUS
<1> USE DEF SdioInv, SdioType, SdioStages, SdioAccounted, Bus, Power, Ends
<1>1. CASE PacketWaits BY <1>1 DEF PacketWaits
<1>2. CASE skw_sdio_probe BY <1>2 DEF skw_sdio_probe
<1>3. CASE register_rx_callback BY <1>3 DEF register_rx_callback
<1>4. CASE Handler
  BY <1>4 DEF Handler, HandlerEnters, HandlerClears, HandlerEnds
<1>5. CASE RxDown BY <1>5 DEF RxDown
<1>6. CASE RxReads
  <2> DEFINE n == Smaller(BatchSize, waiting)
  <2>1. n \in Nat /\ n <= waiting /\ n <= MaxSg
    BY <1>6, SdioConstants DEF RxReads, Smaller, BatchSize
  <2>2. CASE /\ waiting' = waiting - n /\ tally' = [tally EXCEPT !.taken = @ + n]
             /\ rxThread' = [pc |-> "parse", size |-> waiting - n, batch |-> n]
    <3> HIDE DEF n
    <3> QED BY <1>6, <2>1, <2>2 DEF RxReads
  <2>3. CASE BusFault /\ rxThread' = [pc |-> "parse", size |-> 0, batch |-> 0] /\ UNCHANGED <<waiting, tally>>
    BY <1>6, <2>3, SdioConstants DEF RxReads
  <2> QED BY <1>6, <2>2, <2>3 DEF RxReads
<1>7. CASE skw_sdio_adma_parser
  <2>1. wifiPort.index = 0 /\ Smaller(rxThread.batch, MaxSg - wifiPort.index) = rxThread.batch
    BY <1>7, SdioConstants DEF skw_sdio_adma_parser, Smaller
  <2>2. rxThread' = [pc |-> "submit", size |-> rxThread.size, batch |-> 0] /\ waiting' = waiting
    BY <1>7 DEF skw_sdio_adma_parser
  <2>3. CASE wifiPort.open
    <3>1. wifiPort' = [wifiPort EXCEPT !.index = @ + rxThread.batch] /\ tally' = tally
      BY <1>7, <2>1, <2>3 DEF skw_sdio_adma_parser
    <3>2. SdioType' BY <2>2, <3>1
    <3>4. rxThread.pc = "parse" /\ unload' = unload BY <1>7 DEF skw_sdio_adma_parser
    <3>5. SdioStages' BY <2>1, <2>2, <3>1, <3>4, SdioConstants
    <3>3. wifiPort'.index = rxThread.batch /\ rxThread'.batch = 0 BY <2>1, <2>2, <3>1
    <3> QED BY <2>1, <3>1, <3>2, <3>3, <3>5
  <2>4. CASE ~wifiPort.open
    <3>1. tally' = [tally EXCEPT !.dropped = @ + rxThread.batch] /\ wifiPort' = wifiPort
      BY <1>7, <2>4 DEF skw_sdio_adma_parser
    <3>2. SdioType' BY <2>2, <3>1
    <3>4. rxThread.pc = "parse" /\ unload' = unload BY <1>7 DEF skw_sdio_adma_parser
    <3>5. SdioStages' BY <2>1, <2>2, <3>1, <3>4, SdioConstants
    <3>3. tally'.dropped = tally.dropped + rxThread.batch /\ rxThread'.batch = 0 BY <2>1, <2>2, <3>1
    <3> QED BY <2>1, <3>1, <3>2, <3>3, <3>5
  <2> QED BY <2>3, <2>4
<1>8. CASE skw_sdio_dispatch_packets
  BY <1>8, SdioSet DEF skw_sdio_dispatch_packets
<1>9. CASE SuspendFlags \/ skw_sdio_suspend \/ skw_sdio_resume \/ skw_sdio_adma_write
  BY <1>9 DEF SuspendFlags, skw_sdio_suspend, skw_sdio_resume, skw_sdio_adma_write
<1>10. CASE StopAsked BY <1>10 DEF StopAsked
<1>11. CASE skw_sdio_stop_thread BY <1>11 DEF skw_sdio_stop_thread
<1>13. CASE skw_sdio_remove
  <2>1. rxThread.pc = "exit" /\ wifiPort' = [open |-> FALSE, index |-> 0] /\ UNCHANGED <<rxThread, waiting, tally>>
    BY <1>13 DEF skw_sdio_remove
  <2>2. wifiPort.index = 0 BY <2>1
  <2> QED BY <2>1, <2>2
<1>12. CASE UNCHANGED SdioVars BY <1>12 DEF SdioVars
<1> QED BY <1>1, <1>2, <1>3, <1>4, <1>5, <1>6, <1>7, <1>8, <1>9, <1>10, <1>11, <1>12, <1>13
    DEF SdioNext, RxLoop, Unloading

(* The stages of the SDIO receive thread and the counts of the packets in each are kept by every step of
   the thread, the interrupt handler, the port's users and the unload. *)
THEOREM SdioInvariance == SdioSpec => []SdioInv
BY SdioInitInv, SdioStep, PTL DEF SdioSpec

(* No packet the SDIO bus delivered is lost on its way to the port: whatever number the chip announces and
   however long the scatter list is, each one is in a batch, in the list, handed over or dropped for
   want of a reader (skw_sdio_rx_thread, skw_sdio_adma_parser). *)
THEOREM SdioCounts == SdioSpec => []SdioAccounted
BY SdioInvariance, PTL DEF SdioInv

-----------------------------------------------------------------------------
(* SkwTransport: whole frames, live descriptors and a clean close.         *)

CtlPcs == {"none", "start", "poll", "lock", "write", "unlock", "failhost", "sent", "fail", "failboth", "done"}
AnyPort == Ports \cup {NoPort}

TrTypeOK ==
    /\ op \in {"closed", "open", "started", "unwind", "failed", "opened", "stop", "join"}
    /\ idx \in Nat
    /\ op \in {"open", "started", "unwind", "stop", "join"} => idx \in Ports
    /\ dev \in [Ports -> BOOLEAN] /\ sock \in [Ports -> {"none", "open", "shut"}]
    /\ thread_running \in [Ports -> BOOLEAN] /\ driver_state \in [Ports -> BOOLEAN]
    /\ recv_comm_thread_running \in [Ports -> BOOLEAN]
    /\ ctl \in [Ports -> CtlPcs] /\ left \in [Ports -> Int]
    /\ hst \in {"none", "poll", "write", "fail", "done"} /\ dest \in AnyPort
    /\ write2host_lock \in AnyPort /\ partial \in AnyPort
    /\ torn \in BOOLEAN /\ cut \in BOOLEAN

(* The lock is held by the thread that writes, and by no other. *)
TrLock == \A p \in Ports : ctl[p] \in {"write", "unlock"} <=> write2host_lock = p

(* A frame is half written only under the lock, after a send that failed in it, or into a socket that
   is shut for good. *)
TrPartial ==
    partial # NoPort /\ ~cut /\ thread_running[0] /\ sock[0] = "open" =>
        partial \in Ports /\ ctl[partial] = "write"

Clean(p) == ~dev[p] /\ sock[p] = "none" /\ ctl[p] = "none"

(* The ports that the bridge's thread has not opened yet, or has closed already, are clean. *)
TrPhases ==
    /\ op = "closed" => (\A p \in Ports : Clean(p)) /\ hst = "none"
    /\ op = "open" => \A p \in Ports : p >= idx => Clean(p)
    /\ op = "open" /\ idx = 0 => hst = "none"
    /\ op = "started" => \A p \in Ports : p > idx => Clean(p)
    /\ op = "join" => \A p \in Ports : p < idx => Clean(p)
    /\ op = "join" /\ idx > 0 => hst = "none"
    /\ hst = "write" => op \in {"opened", "stop"} \/ (op = "join" /\ idx = 0)

TrInv == TrTypeOK /\ TrLock /\ TrPartial /\ TrPhases /\ TrWholeFrames /\ TrDescriptorsOutliveThreads

LEMMA HostPort == 0 \in Ports /\ Ports \subseteq Nat /\ NoPort \notin Ports
BY TransportConstants DEF NoPort

LEMMA LastPort == ASSUME NEW i \in Ports, i + 1 \notin Ports PROVE \A p \in Ports : p <= i
BY TransportConstants

LEMMA TrInitInv == TrInit => TrInv
<1> SUFFICES ASSUME TrInit PROVE TrInv OBVIOUS
<1> USE HostPort DEF TrInit
<1>1. TrTypeOK
  <2>1. /\ sock \in [Ports -> {"none", "open", "shut"}] /\ ctl \in [Ports -> CtlPcs] /\ left \in [Ports -> Int]
        /\ dev \in [Ports -> BOOLEAN] /\ thread_running \in [Ports -> BOOLEAN]
    BY DEF CtlPcs
  <2>2. driver_state \in [Ports -> BOOLEAN] /\ recv_comm_thread_running \in [Ports -> BOOLEAN]
    OBVIOUS
  <2> QED BY <2>1, <2>2 DEF TrTypeOK, AnyPort
<1>2. TrLock /\ TrPartial BY DEF TrLock, TrPartial
<1>3. TrPhases BY DEF TrPhases, Clean
<1>4. TrWholeFrames /\ TrDescriptorsOutliveThreads BY DEF TrWholeFrames, TrDescriptorsOutliveThreads
<1> QED BY <1>1, <1>2, <1>3, <1>4 DEF TrInv

LEMMA TrInvReleased == TrInv => TrReleased
BY DEF TrInv, TrTypeOK, TrLock, TrPhases, TrReleased, Clean, AnyPort

LEMMA BridgeReadsStep == TrInv /\ BridgeReads => TrInv'
BY DEF TrInv, TrTypeOK, TrLock, TrPartial, TrPhases, TrWholeFrames, TrDescriptorsOutliveThreads,
   CtlPcs, AnyPort, Clean, BridgeReads, callVars, portVars, hostVars

LEMMA TrOpenStep == TrInv /\ TrOpen => TrInv'
<1> SUFFICES ASSUME TrInv, TrOpen PROVE TrInv' OBVIOUS
<1> USE HostPort DEF TrInv, TrTypeOK, TrLock, TrPartial, TrPhases, TrWholeFrames, TrDescriptorsOutliveThreads,
   CtlPcs, AnyPort, Clean, callVars, portVars, hostVars, wireVars, BT_COM_PORT_CMDEVT
<1>1. CASE OpenBegins BY <1>1 DEF OpenBegins
<1>2. CASE OpenPort
  <2>1. CASE op' = "failed" BY <1>2, <2>1 DEF OpenPort, scomm_vendor_usbsdio_open, ThreadsStart
  <2>2. CASE op' = "started"
    <3>1a. TrTypeOK' BY <1>2, <2>2, ZenonT(30) DEF OpenPort, scomm_vendor_usbsdio_open, ThreadsStart
    <3>2a. TrLock' BY <1>2, <2>2 DEF OpenPort, scomm_vendor_usbsdio_open, ThreadsStart
    <3>3a. TrPartial' BY <1>2, <2>2 DEF OpenPort, scomm_vendor_usbsdio_open, ThreadsStart
    <3>4a. TrPhases' BY <1>2, <2>2 DEF OpenPort, scomm_vendor_usbsdio_open, ThreadsStart
    <3>5a. TrWholeFrames' BY <1>2, <2>2 DEF OpenPort, scomm_vendor_usbsdio_open, ThreadsStart
    <3>6a. TrDescriptorsOutliveThreads' BY <1>2, <2>2 DEF OpenPort, scomm_vendor_usbsdio_open, ThreadsStart
    <3> QED BY <3>1a, <3>2a, <3>3a, <3>4a, <3>5a, <3>6a DEF TrInv
  <2> QED BY <1>2, <2>1, <2>2 DEF OpenPort
<1>3. CASE scomm_vendor_socket_open
  <2>1. CASE recv_comm_thread_running[idx]
    <3>1. idx \in Ports /\ idx' = idx + 1 /\ op' = (IF idx + 1 \in Ports THEN "open" ELSE "opened")
      BY <1>3, <2>1 DEF scomm_vendor_socket_open
    <3>2. UNCHANGED <<dev, sock, thread_running, ctl, left, hst, dest, write2host_lock, partial, cut, torn>>
      BY <1>3, <2>1 DEF scomm_vendor_socket_open
    <3>3. hst # "write" BY <1>3 DEF scomm_vendor_socket_open
    <3>4. TrPhases' BY <1>3, <3>1, <3>2, <3>3 DEF scomm_vendor_socket_open
    <3>5. driver_state' \in [Ports -> BOOLEAN] /\ UNCHANGED recv_comm_thread_running
      BY <1>3, <2>1 DEF scomm_vendor_socket_open
    <3>6. TrTypeOK' BY <3>1, <3>2, <3>5
    <3> QED BY <3>2, <3>4, <3>6
  <2>2. CASE ~recv_comm_thread_running[idx]
    <3>1a. TrTypeOK' BY <1>3, <2>2 DEF scomm_vendor_socket_open, StopPort
    <3>2a. TrLock' BY <1>3, <2>2 DEF scomm_vendor_socket_open, StopPort
    <3>3a. TrPartial' BY <1>3, <2>2 DEF scomm_vendor_socket_open, StopPort
    <3>4a. TrPhases' BY <1>3, <2>2 DEF scomm_vendor_socket_open, StopPort
    <3>5a. TrWholeFrames' BY <1>3, <2>2 DEF scomm_vendor_socket_open, StopPort
    <3>6a. TrDescriptorsOutliveThreads' BY <1>3, <2>2 DEF scomm_vendor_socket_open, StopPort
    <3> QED BY <3>1a, <3>2a, <3>3a, <3>4a, <3>5a, <3>6a DEF TrInv
  <2> QED BY <2>1, <2>2
<1>4. CASE OpenUnwinds BY <1>4 DEF OpenUnwinds, Joined, Reap
<1> QED BY <1>1, <1>2, <1>3, <1>4 DEF TrOpen

LEMMA TrCloseStep == TrInv /\ (CloseBegins \/ TrClose) => TrInv'
<1> SUFFICES ASSUME TrInv, CloseBegins \/ TrClose PROVE TrInv' OBVIOUS
<1> USE HostPort DEF TrInv, TrTypeOK, TrLock, TrPartial, TrPhases, TrWholeFrames, TrDescriptorsOutliveThreads,
   CtlPcs, AnyPort, Clean, callVars, portVars, hostVars, wireVars, BT_COM_PORT_CMDEVT
<1>1. CASE CloseBegins BY <1>1 DEF CloseBegins
<1>2. CASE scomm_vendor_close
  <2>1a. TrTypeOK' BY <1>2 DEF scomm_vendor_close, StopPort
  <2>2a. TrLock' BY <1>2 DEF scomm_vendor_close, StopPort
  <2>3a. TrPartial' BY <1>2 DEF scomm_vendor_close, StopPort
  <2>1. \A q \in Ports : sock[q] = "none" => sock'[q] = "none" BY <1>2 DEF scomm_vendor_close, StopPort
  <2>2. op' = "stop" \/ (op' = "join" /\ idx' = 0)
    <3> HIDE DEF TrInv
    <3> QED BY <1>2 DEF scomm_vendor_close
  <2>4a. TrPhases' BY <1>2, <2>1, <2>2 DEF scomm_vendor_close
  <2>5a. TrWholeFrames' BY <1>2 DEF scomm_vendor_close, StopPort
  <2>6a. TrDescriptorsOutliveThreads' BY <1>2 DEF scomm_vendor_close, StopPort
  <2> QED BY <2>1a, <2>2a, <2>3a, <2>4a, <2>5a, <2>6a DEF TrInv
<1>3. ASSUME NEW p \in Ports, scomm_vendor_port_close(p) PROVE TrInv'
  BY <1>3, LastPort DEF scomm_vendor_port_close, CloseOrder, Joined, Reap
<1> QED BY <1>1, <1>2, <1>3 DEF TrClose

LEMMA TrHostStep == TrInv /\ TrHost => TrInv'
<1> SUFFICES ASSUME TrInv, TrHost PROVE TrInv' OBVIOUS
<1> USE HostPort DEF TrInv, TrTypeOK, TrLock, TrPartial, TrPhases, TrWholeFrames, TrDescriptorsOutliveThreads,
   CtlPcs, AnyPort, Clean, callVars, portVars, hostVars, wireVars, BT_COM_PORT_CMDEVT
<1>1. CASE scomm_vendor_recv_socket_thread BY <1>1 DEF scomm_vendor_recv_socket_thread
<1>2. CASE scomm_vendor_recv_rawdata
  <2>1a. TrTypeOK' BY <1>2 DEF scomm_vendor_recv_rawdata, host_frame_port
  <2>2a. TrLock' BY <1>2 DEF scomm_vendor_recv_rawdata, host_frame_port
  <2>3a. TrPartial' BY <1>2 DEF scomm_vendor_recv_rawdata, host_frame_port
  <2>1. hst' = "write" => op = "opened" BY <1>2 DEF scomm_vendor_recv_rawdata
  <2>2. hst = "poll" /\ UNCHANGED <<op, idx, dev, sock, ctl>> BY <1>2 DEF scomm_vendor_recv_rawdata
  <2>3. op \notin {"closed"} /\ ~(op = "join" /\ idx > 0) /\ ~(op = "open" /\ idx = 0) BY <2>2
  <2>4a. TrPhases' BY <2>1, <2>2, <2>3
  <2>5a. TrWholeFrames' BY <1>2 DEF scomm_vendor_recv_rawdata, host_frame_port
  <2>6a. TrDescriptorsOutliveThreads' BY <1>2 DEF scomm_vendor_recv_rawdata, host_frame_port
  <2> QED BY <2>1a, <2>2a, <2>3a, <2>4a, <2>5a, <2>6a DEF TrInv
<1>3. CASE send_host_frame_to_device BY <1>3 DEF send_host_frame_to_device, Fault
<1>4. CASE HostFails BY <1>4 DEF HostFails, StopPort
<1> QED BY <1>1, <1>2, <1>3, <1>4 DEF TrHost

LEMMA TrCtlStep == ASSUME TrInv, NEW p \in Ports, TrCtl(p) PROVE TrInv'
<1> USE HostPort DEF TrInv, TrTypeOK, TrLock, TrPartial, TrPhases, TrWholeFrames, TrDescriptorsOutliveThreads,
   CtlPcs, AnyPort, Clean, callVars, portVars, hostVars, wireVars, BT_COM_PORT_CMDEVT, CtlGoes
<1>1. CASE CtlStarts(p) BY <1>1 DEF CtlStarts
<1>2. CASE CtlPolls(p)
  <2>1. left' \in [Ports -> Int] BY <1>2, TransportConstants DEF CtlPolls
  <2>2. ctl' \in [Ports -> CtlPcs] BY <1>2 DEF CtlPolls
  <2>1a. TrTypeOK' BY <1>2, <2>1, <2>2 DEF CtlPolls
  <2>2a. TrLock' BY <1>2, TransportConstants, SMTT(30) DEF CtlPolls
  <2>3a. TrPartial'
    <3> SUFFICES ASSUME partial' # NoPort /\ ~cut' /\ thread_running'[0] /\ sock'[0] = "open"
                 PROVE  partial' \in Ports /\ ctl'[partial'] = "write"
      BY DEF TrPartial
    <3>1. UNCHANGED <<partial, cut, thread_running, sock>> BY <1>2 DEF CtlPolls
    <3>2. partial \in Ports /\ ctl[partial] = "write" BY <3>1 DEF TrPartial
    <3>3. ctl[p] = "poll" /\ \E pc \in CtlPcs : ctl' = [ctl EXCEPT ![p] = pc]
      <4>1. ctl[p] = "poll" BY <1>2 DEF CtlPolls
      <4>2. \E pc \in {"done", "poll", "lock", "fail"} : ctl' = [ctl EXCEPT ![p] = pc] BY <1>2 DEF CtlPolls
      <4> QED BY ONLY <4>1, <4>2 DEF CtlPcs
    <3>4. ctl'[partial] = ctl[partial]
      <4>1. ctl \in [Ports -> CtlPcs] BY DEF TrTypeOK
      <4> QED BY ONLY <3>2, <3>3, <4>1
    <3> QED BY ONLY <3>1, <3>2, <3>4
  <2>4a. TrPhases'
    <3>1. UNCHANGED <<op, idx, dev, sock, thread_running, hst>> BY <1>2 DEF CtlPolls
    <3>2. \A q \in Ports : ctl[q] = "none" <=> ctl'[q] = "none"
      <4>1. ctl[p] = "poll" /\ \E pc \in {"done", "poll", "lock", "fail"} : ctl' = [ctl EXCEPT ![p] = pc]
        BY <1>2 DEF CtlPolls
      <4>2. ctl \in [Ports -> CtlPcs] BY DEF TrTypeOK
      <4> QED BY ONLY <4>1, <4>2
    <3>3. TrPhases OBVIOUS
    <3> QED BY ONLY <3>1, <3>2, <3>3 DEF TrPhases, Clean
  <2>5a. TrWholeFrames' BY <1>2, TransportConstants DEF CtlPolls
  <2>6a. TrDescriptorsOutliveThreads' BY <1>2, TransportConstants DEF CtlPolls
  <2> QED BY <2>1a, <2>2a, <2>3a, <2>4a, <2>5a, <2>6a DEF TrInv
<1>3. CASE scomm_vendor_send_to_host(p) BY <1>3 DEF scomm_vendor_send_to_host, LockFree
<1>4. CASE write_transport(p)
  <2>1. ctl[p] = "write" /\ ctl' \in {[ctl EXCEPT ![p] = "unlock"], [ctl EXCEPT ![p] = "write"]}
    BY <1>4 DEF write_transport
  <2>2. UNCHANGED <<op, idx, dev, thread_running, driver_state, sock, recv_comm_thread_running, hst, dest,
                    write2host_lock>>
    BY <1>4 DEF write_transport
  <2>3. left' \in [Ports -> Int] /\ partial' \in AnyPort /\ torn' \in BOOLEAN /\ cut' \in BOOLEAN
    BY <1>4 DEF write_transport
  <2>4. ctl' \in [Ports -> CtlPcs] BY <2>1
  <2>5. TrTypeOK' BY <2>2, <2>3, <2>4
  <2>6. TrLock' BY <2>1, <2>2
  <2>7. TrPartial' /\ TrWholeFrames'
    <3>1. CASE ~thread_running[0] \/ sock[0] # "open" BY <1>4, <3>1 DEF write_transport
    <3>2. CASE thread_running[0] /\ sock[0] = "open"
      <4>1. ~cut /\ partial # NoPort => partial = p BY <2>1, <3>2
      <4> QED BY <1>4, <2>1, <2>2, <3>2, <4>1 DEF write_transport
    <3> QED BY <3>1, <3>2
  <2>8. TrPhases' BY <2>1, <2>2
  <2>9. TrDescriptorsOutliveThreads' BY <2>1, <2>2
  <2> QED BY <2>5, <2>6, <2>7, <2>8, <2>9 DEF TrInv
<1>5. CASE SendReturns(p) BY <1>5 DEF SendReturns
<1>6. CASE FailsHost(p) BY <1>6 DEF FailsHost, StopPort
<1>7. CASE SendFailed(p) BY <1>7 DEF SendFailed
<1>8. CASE scomm_vendor_fail_transport(p)
  <2>1. ctl' \in [Ports -> CtlPcs] BY <1>8 DEF scomm_vendor_fail_transport
  <2>2. /\ thread_running' \in [Ports -> BOOLEAN] /\ driver_state' \in [Ports -> BOOLEAN]
        /\ sock' \in [Ports -> {"none", "open", "shut"}]
    BY <1>8 DEF scomm_vendor_fail_transport, StopPort
  <2>3. UNCHANGED <<op, idx, dev, recv_comm_thread_running, left, hst, dest, write2host_lock, partial, cut, torn>>
    BY <1>8 DEF scomm_vendor_fail_transport
  <2>1a. TrTypeOK' BY <2>1, <2>2, <2>3
  <2>2a. TrLock' BY <1>8 DEF scomm_vendor_fail_transport, StopPort
  <2>3a. TrPartial' BY <1>8 DEF scomm_vendor_fail_transport, StopPort
  <2>4a. TrPhases' BY <1>8 DEF scomm_vendor_fail_transport, StopPort
  <2>5a. TrWholeFrames' BY <1>8 DEF scomm_vendor_fail_transport, StopPort
  <2>6a. TrDescriptorsOutliveThreads' BY <1>8 DEF scomm_vendor_fail_transport, StopPort
  <2> QED BY <2>1a, <2>2a, <2>3a, <2>4a, <2>5a, <2>6a DEF TrInv
<1> QED BY <1>1, <1>2, <1>3, <1>4, <1>5, <1>6, <1>7, <1>8 DEF TrCtl

LEMMA TrStep == TrInv /\ [TrNext]_TrVars => TrInv'
<1> SUFFICES ASSUME TrInv, [TrNext]_TrVars PROVE TrInv' OBVIOUS
<1>1. CASE UNCHANGED TrVars
  BY <1>1 DEF TrVars, TrInv, TrTypeOK, TrLock, TrPartial, TrPhases, TrWholeFrames, TrDescriptorsOutliveThreads,
   CtlPcs, AnyPort, Clean, callVars, portVars, hostVars, wireVars
<1> QED BY <1>1, BridgeReadsStep, TrOpenStep, TrCloseStep, TrHostStep, TrCtlStep DEF TrNext

(* The phases of opening and closing libskwbt's transport are kept by every step of the caller, the
   reader threads, the host and the control thread, for any number of ports. *)
THEOREM TransportInvariance == TrSpec => []TrInv
BY TrInitInv, TrStep, PTL DEF TrSpec

(* The host is given whole frames only, unless a send to it fails inside a frame, no thread uses
   a descriptor after it was closed, and a closed
   transport leaves no thread, socket or descriptor behind: for every number of ports, faults and
   reopenings (scom_vendor.c, the port threads against open and close). *)
THEOREM TransportSafety == TrSpec => []TrSafe
<1>1. TrInv => TrSafe BY TrInvReleased DEF TrInv, TrSafe
<1> QED BY <1>1, TransportInvariance, PTL

-----------------------------------------------------------------------------
(* SkwUsbBoot: the download, the dump and the services.                     *)

Running == {"loaded", "boot", "up"}

BootType ==
    /\ chip_en \in BOOLEAN /\ attached \in BOOLEAN /\ lateAssert \in BOOLEAN /\ cutShort \in BOOLEAN
    /\ dl \in [step : {"idle", "dram", "iram", "exec"}, offset : Nat]
    /\ got \in [Images -> Nat] /\ packet \in Nat
    /\ usb_service_map \in SUBSET UsbServices /\ asked \in SUBSET UsbServices /\ unheard \in SUBSET UsbServices

(* How far each image is while it is loaded; the chip runs none of them meanwhile. *)
LoadInv ==
    /\ dl.step \in Images => dl.offset < ImageSize /\ got[dl.step] = dl.offset
    /\ dl.step = "dram" => got["iram"] = 0
    /\ dl.step = "iram" => got["dram"] = ImageSize
    /\ dl.step = "exec" => got["dram"] = ImageSize /\ got["iram"] = ImageSize
    /\ dl.step # "idle" => bus = "Boot" /\ usbChip \notin Running

(* The LOOP thread past the message holds the interface, and the exception work is not about to
   reset the chip unless the message came late. *)
LoopInv ==
    /\ loop # "off" => bus = "App"
    /\ loop \in {"lock", "dump", "reset"} =>
          usb_cp_state # 0 /\ (usb_except_work = "none" \/ lateAssert)

(* A chip that is up has no exception; a service started while the work resets the chip was not
   heard. *)
MarkInv ==
    /\ usbChip = "up" => usb_cp_state = 0
    /\ usb_except_work \in {"noted", "reset"} => usb_cp_state # 0
    /\ usb_service_map \subseteq asked \cup unheard
    /\ usb_except_work = "reset" => usb_service_map \subseteq unheard

BootInv == BootType /\ LoadInv /\ LoopInv /\ MarkInv /\ BootSafe

(* Half of a piece that would fill whole USB packets does not fill them: the header is longer than
   one byte and shorter than a packet. *)
LEMMA HalfEnds ==
    ASSUME NEW P \in Nat, NEW H \in Nat, NEW m \in Nat, 1 < H, H < P, (m + H) % P = 0
    PROVE  ((m \div 2) + H) % P # 0
<1> SUFFICES ASSUME ((m \div 2) + H) % P = 0 PROVE FALSE OBVIOUS
<1> DEFINE a == (m + H) \div P
           h == m \div 2
           b == (h + H) \div P
<1>1. a \in Int /\ m + H = P * a OBVIOUS
<1>2. h \in Nat /\ (m = 2 * h \/ m = 2 * h + 1) OBVIOUS
<1>3. b \in Int /\ h + H = P * b BY <1>2
<1> HIDE DEF a, b, h
<1> DEFINE k == 2 * b - a
<1>4. k \in Int BY <1>1, <1>3
<1>5. P * k = P * b + P * b - P * a BY <1>1, <1>3
<1>6. P * k = H \/ P * k = H - 1 BY <1>1, <1>2, <1>3, <1>5
<1> HIDE DEF k
<1>7. k <= 0 => P * k <= 0 BY <1>4
<1>8. k >= 1 => P * k >= P BY <1>4
<1> QED BY <1>4, <1>6, <1>7, <1>8

LEMMA PieceEnds ==
    ASSUME NEW rest \in Nat
    PROVE  Piece(rest) \in Nat /\ Piece(rest) <= rest /\ (Piece(rest) + DlHeader) % UsbPacket # 0
<1> DEFINE most == IF rest < DlMps THEN rest ELSE DlMps
<1>1. most \in Nat /\ most <= rest /\ UsbPacket \in Nat /\ DlHeader \in Nat BY DlAssumption
<1>2. Piece(rest) = IF (most + DlHeader) % UsbPacket = 0 THEN most \div 2 ELSE most BY DEF Piece
<1> HIDE DEF most
<1>3. most \div 2 \in Nat /\ most \div 2 <= most BY <1>1
<1>4. (most + DlHeader) % UsbPacket = 0 => ((most \div 2) + DlHeader) % UsbPacket # 0
  BY <1>1, HalfEnds, DlAssumption
<1> QED BY <1>1, <1>2, <1>3, <1>4

LEMMA BootInitInv == BootInit => BootInv
<1> SUFFICES ASSUME BootInit PROVE BootInv OBVIOUS
<1> USE DEF BootInit
<1>1. BootType BY DEF BootType, Images
<1>2. LoadInv /\ LoopInv /\ MarkInv BY DEF LoadInv, LoopInv, MarkInv, Images
<1>3. 1 % UsbPacket = 1 BY DlAssumption
<1>4. BootSafe BY <1>3 DEF BootSafe, UsbExecWhole,
                        UsbPacketEnds, UsbDumpWhole, UsbServiceFresh
<1> QED BY <1>1, <1>2, <1>4 DEF BootInv

LEMMA PieceStep ==
    ASSUME BootInv, NEW i \in Images, dl.step = i, LET n == Piece(ImageSize - dl.offset)
          IN /\ attached
             /\ got' = [got EXCEPT ![i] = @ + n] /\ packet' = n + DlHeader
             /\ dl' = IF usb_download_image_ends(i, n)
                      THEN [step |-> usb_download_image_next(i), offset |-> 0]
                      ELSE [dl EXCEPT !.offset = @ + n]
             /\ UNCHANGED <<usbChip, attached, modem_status, bootFuel>>,
          UNCHANGED <<Board, bus, bootWatch, bootServices, wakelocked>>
    PROVE BootInv'
<1> DEFINE n == Piece(ImageSize - dl.offset)
<1>1. dl.offset \in Nat /\ dl.offset < ImageSize /\ got[i] = dl.offset /\ ImageSize \in Nat
      /\ dl \in [step : {"idle", "dram", "iram", "exec"}, offset : Nat] /\ got \in [Images -> Nat]
      /\ DlHeader \in Nat
  BY DlAssumption DEF BootInv, BootType, LoadInv
<1>2. n \in Nat /\ n <= ImageSize - dl.offset /\ (n + DlHeader) % UsbPacket # 0
  <2>1. ImageSize - dl.offset \in Nat BY <1>1
  <2> QED BY <2>1, PieceEnds
<1>3. /\ got' = [got EXCEPT ![i] = @ + n] /\ packet' = n + DlHeader
      /\ dl.offset + n >= ImageSize => dl' = [step |-> IF i = "dram" THEN "iram" ELSE "exec", offset |-> 0]
      /\ ~(dl.offset + n >= ImageSize) => dl' = [dl EXCEPT !.offset = @ + n]
      /\ UNCHANGED <<usbChip, attached, chip_en, bus, usb_cp_state, usb_except_work, loop, lateAssert, cutShort,
                     usb_service_map, asked, unheard>>
  BY DEF usb_download_image_ends, usb_download_image_next, Board, bootWatch, bootServices
<1> HIDE DEF n
<1>4. got' \in [Images -> Nat] /\ got'[i] = dl.offset + n /\ \A j \in Images : j # i => got'[j] = got[j]
  BY <1>1, <1>2, <1>3
<1>5. CASE dl.offset + n >= ImageSize
  <2>1. dl.offset + n = ImageSize BY <1>1, <1>2, <1>5
  <2>2. dl' = [step |-> IF i = "dram" THEN "iram" ELSE "exec", offset |-> 0] BY <1>3, <1>5
  <2>3. BootType'
    <3>1. dl' \in [step : {"idle", "dram", "iram", "exec"}, offset : Nat] BY <2>2
    <3> QED BY <1>1, <1>2, <1>3, <1>4, <3>1 DEF BootInv, BootType
  <2>4. LoadInv' BY <1>1, <1>3, <1>4, <2>1, <2>2, DlAssumption DEF BootInv, LoadInv, Images, Running
  <2>5. LoopInv' /\ MarkInv' BY <1>3 DEF BootInv, LoopInv, MarkInv
  <2>6. BootSafe'
    BY <1>2, <1>3 DEF BootInv, LoadInv, Images, Running, BootSafe, UsbExecWhole,
                        UsbPacketEnds, UsbDumpWhole, UsbServiceFresh
  <2> QED BY <2>3, <2>4, <2>5, <2>6 DEF BootInv
<1>6. CASE ~(dl.offset + n >= ImageSize)
  <2>1. dl' = [dl EXCEPT !.offset = @ + n] BY <1>3, <1>6
  <2>2. dl' \in [step : {"idle", "dram", "iram", "exec"}, offset : Nat] /\ dl'.step = i /\ dl'.offset = dl.offset + n
    BY <1>1, <1>2, <2>1
  <2>3. BootType' BY <1>1, <1>2, <1>3, <1>4, <2>2 DEF BootInv, BootType
  <2>4. LoadInv' BY <1>1, <1>2, <1>3, <1>4, <1>6, <2>2 DEF BootInv, LoadInv, Images, Running
  <2>5. LoopInv' /\ MarkInv' BY <1>3 DEF BootInv, LoopInv, MarkInv
  <2>6. BootSafe'
    BY <1>2, <1>3 DEF BootInv, LoadInv, Images, Running, BootSafe, UsbExecWhole,
                        UsbPacketEnds, UsbDumpWhole, UsbServiceFresh
  <2> QED BY <2>3, <2>4, <2>5, <2>6 DEF BootInv
<1> QED BY <1>5, <1>6

(* A download that is given up leaves the chip as it was, or off. *)
LEMMA FailStep ==
    ASSUME BootInv, dl.step # "idle", DownloadFails, UNCHANGED <<got, packet>>,
           UNCHANGED <<Board, bus, bootWatch, bootServices, wakelocked>>
    PROVE BootInv'
<1>1. /\ dl' = [dl EXCEPT !.step = "idle"] /\ usbChip' \in {"off", usbChip} /\ attached' = (attached /\ ~chip_en)
      /\ UNCHANGED <<got, packet, chip_en, bus, usb_cp_state, usb_except_work, loop, lateAssert, cutShort,
                     usb_service_map, asked, unheard>>
  BY DEF DownloadFails, Board, bootWatch, bootServices
<1>2. dl' \in [step : {"idle", "dram", "iram", "exec"}, offset : Nat] /\ dl'.step = "idle"
  BY <1>1 DEF BootInv, BootType
<1>3. BootType' BY <1>1, <1>2 DEF BootInv, BootType
<1>4. LoadInv' BY <1>2 DEF LoadInv, Images
<1>5. LoopInv' /\ MarkInv' BY <1>1 DEF BootInv, LoopInv, MarkInv
<1>6. BootSafe' BY <1>1 DEF BootInv, BootSafe, UsbExecWhole,
                        UsbPacketEnds, UsbDumpWhole, UsbServiceFresh
<1> QED BY <1>3, <1>4, <1>5, <1>6 DEF BootInv

LEMMA BootStep == BootInv /\ [BootNext]_BootVars => BootInv'
<1> SUFFICES ASSUME BootInv, [BootNext]_BootVars PROVE BootInv' OBVIOUS
<1> USE DEF BootInv, BootType, LoadInv, LoopInv, MarkInv, BootSafe, UsbExecWhole, UsbPacketEnds, UsbDumpWhole,
            UsbServiceFresh, Board, bootWatch, bootLoad, bootServices, Images, UsbServices, Running, Burns, UsbBlocked
<1>1. CASE ProbeBoot BY <1>1, DlAssumption DEF ProbeBoot
<1>2. ASSUME NEW i \in Images, usb_download_image(i) PROVE BootInv'
  <2> HIDE DEF BootInv, BootType, LoadInv, LoopInv, MarkInv, BootSafe, Images, Burns
  <2>1. dl.step # "idle" /\ dl.step = i BY <1>2 DEF usb_download_image, Images
  <2> QED BY <1>2, <2>1, PieceStep, FailStep DEF usb_download_image
<1>3. CASE dloader_execute_image
  <2>1. CASE DownloadFails
    <3> HIDE DEF BootInv, BootType, LoadInv, LoopInv, MarkInv, BootSafe, Images, Burns
    <3> QED BY <1>3, <2>1, FailStep DEF dloader_execute_image
  <2>2. CASE ~DownloadFails BY <1>3, <2>2 DEF dloader_execute_image
  <2> QED BY <2>1, <2>2
<1>4. CASE DisconnectBoot BY <1>4 DEF DisconnectBoot
<1>5. CASE ProbeApp BY <1>5 DEF ProbeApp
<1>6. CASE DisconnectApp BY <1>6 DEF DisconnectApp
<1>7. CASE LoopTrunk BY <1>7 DEF LoopTrunk
<1>8. CASE LoopAssert
  <2>1. lateAssert' \in BOOLEAN BY <1>8 DEF LoopAssert
  <2>2. BootType' BY <1>8, <2>1 DEF LoopAssert
  <2>3. LoadInv' BY <1>8 DEF LoopAssert
  <2>4. LoopInv'
    <3>1. loop = "wait" /\ bus' = bus /\ usb_cp_state' = 1 BY <1>8 DEF LoopAssert
    <3>2. CASE usb_cp_state = 1 BY <1>8, <3>1, <3>2 DEF LoopAssert
    <3>3. CASE usb_except_work = "none" BY <1>8, <3>1, <3>3 DEF LoopAssert
    <3>4. CASE usb_cp_state # 1 /\ usb_except_work # "none"
      <4>1. lateAssert' = TRUE BY <1>8, <3>4 DEF LoopAssert
      <4> QED BY <3>1, <4>1
    <3> QED BY <3>2, <3>3, <3>4
  <2>5. MarkInv' BY <1>8 DEF LoopAssert
  <2>6. BootSafe' BY <1>8 DEF LoopAssert
  <2> QED BY <2>2, <2>3, <2>4, <2>5, <2>6
<1>9. CASE LoopLocks BY <1>9 DEF LoopLocks
<1>10. CASE LoopDumped BY <1>10 DEF LoopDumped
<1>11. CASE LoopResets
  <2>1. /\ loop' = "off" /\ usb_service_map' = {} /\ usbChip' \in {"rom", usbChip} /\ asked' \in SUBSET UsbServices
        /\ attached' \in BOOLEAN /\ cutShort' = cutShort
        /\ UNCHANGED <<unheard, Board, bus, bootLoad, usb_cp_state, usb_except_work, lateAssert>>
    BY <1>11 DEF LoopResets, skw_recovery_mode
  <2> QED BY <2>1
<1>12. ASSUME NEW how \in {"asserted", "hung"}, ChipCrashes(how) PROVE BootInv' BY <1>12 DEF ChipCrashes
<1>13. CASE skw_usb_exception_work
  <2>1. BootType' BY <1>13 DEF skw_usb_exception_work, skw_recovery_mode
  <2>2. LoadInv' BY <1>13 DEF skw_usb_exception_work, skw_recovery_mode
  <2>3. LoopInv' BY <1>13 DEF skw_usb_exception_work, skw_recovery_mode
  <2>4. MarkInv'
    <3>1. CASE usb_except_work = "pending"
      <4>1. UNCHANGED <<usbChip, usb_service_map, asked, unheard>>
        BY <1>13, <3>1 DEF skw_usb_exception_work
      <4>2. \/ usb_cp_state = 1 /\ usb_except_work' = "noted" /\ usb_cp_state' = 2
            \/ usb_except_work' = "none" /\ usb_cp_state' = usb_cp_state
        BY <1>13, <3>1 DEF skw_usb_exception_work
      <4> QED BY <4>1, <4>2
    <3>2. CASE usb_except_work = "noted" BY <1>13, <3>2 DEF skw_usb_exception_work
    <3>3. CASE usb_except_work = "reset"
      <4>1. /\ usb_except_work' = "none" /\ usbChip' \in {"rom", usbChip}
            /\ UNCHANGED <<usb_cp_state, usb_service_map, unheard>>
        BY <1>13, <3>3 DEF skw_usb_exception_work, skw_recovery_mode
      <4>2. usb_service_map \subseteq unheard BY <3>3
      <4>3. usb_service_map' \subseteq asked' \cup unheard' BY <4>1, <4>2
      <4> QED BY <4>1, <4>3
    <3> QED BY <1>13, <3>1, <3>2, <3>3 DEF skw_usb_exception_work
  <2>5. UsbExecWhole' /\ UsbPacketEnds' BY <1>13 DEF skw_usb_exception_work, skw_recovery_mode
  <2>6. UsbDumpWhole' BY <1>13 DEF skw_usb_exception_work, skw_recovery_mode
  <2>7. UsbServiceFresh' BY <2>4
  <2> QED BY <2>1, <2>2, <2>3, <2>4, <2>5, <2>6, <2>7
<1>14. CASE modem_assert BY <1>14 DEF modem_assert
<1>15. ASSUME NEW s \in UsbServices, LoopReady(s) PROVE BootInv' BY <1>15 DEF LoopReady
<1>16. ASSUME NEW s \in UsbServices, ServiceStart(s) PROVE BootInv'
  BY <1>16, ZenonT(30) DEF ServiceStart, send_modem_service_command
<1>17. ASSUME NEW s \in UsbServices, ServiceStop(s) PROVE BootInv'
  BY <1>17 DEF ServiceStop, send_modem_service_command
<1>18. CASE skw_usb_recovery_debug BY <1>18 DEF skw_usb_recovery_debug
<1>19. CASE UNCHANGED BootVars BY <1>19 DEF BootVars
<1> QED
  <2> HIDE DEF BootInv, Images, UsbServices
  <2> QED BY <1>1, <1>2, <1>3, <1>4, <1>5, <1>6, <1>7, <1>8, <1>9, <1>10, <1>11, <1>12, <1>13, <1>14, <1>15, <1>16,
             <1>17, <1>18, <1>19
          DEF BootNext

(* The chip is started with whole images only, no packet of a download fills whole USB packets, the chip is
   not reset while its memory is read unless its message came late, and no mark of a service
   outlives a reset: for images, pieces and headers of every size (usb_boot.c, skw_usb_io.c). *)
THEOREM UsbBootSafety == BootSpec => []BootSafe
<1>1. BootInv => BootSafe BY DEF BootInv
<1> QED BY <1>1, BootInitInv, BootStep, PTL DEF BootSpec

-----------------------------------------------------------------------------
(* SkwModem: recovery and the services.                                     *)
(* The messages between driver and firmware are queues; the invariant says  *)
(* which messages may be in them together, and in what order: a version is  *)
(* told once before any service is asked for, at most one answer is awaited *)
(* and after an assert nothing comes but the end of the dump.               *)

Messages == {"BSPREADY", "trunk_W", "WIFIREADY", "BTREADY", "BTEXIT", "BSPASSERT", "DUMPDONE"}
Answers == {"WIFIREADY", "BTREADY", "BTEXIT"}
Assert == <<"assert", "none">>
Version == <<"version", "none">>
Start(s) == <<"start", s>>
Stop(s) == <<"stop", s>>
Answered == {Start("WIFI"), Start("BT"), Stop("BT")}
Commands == {Assert, Version, Stop("WIFI")} \cup Answered

\* The elements of a queue.
Of(q) == {q[i] : i \in 1 .. Len(q)}
\* Whatever of A is in the queue is there once.
Once(q, A) == \A i, j \in 1 .. Len(q) : q[i] = q[j] /\ q[i] \in A => i = j
\* Behind an element of A come only elements of B.
Then(q, A, B) == \A i, j \in 1 .. Len(q) : i < j /\ q[i] \in A => q[j] \in B

FwRec == [state : {"off", "loaded", "booting", "up", "dumping", "dumped", "hung"},
          services : SUBSET Services, inbox : Seq(Commands)]
RxRec == [pc : {"idle", "version", "assert", "asserted", "dumpdone", "cancel", "reset", "load"},
          msg : Messages \cup {"none"}]
CallerRec == [pc : {"load", "wait", "booted", "idle", "settle", "lock", "send", "await"},
              op : {"first", "start", "stop", "none"}, s : Services, ret : {0}]
GhostRec == [late : BOOLEAN, lost : BOOLEAN, started : Services \cup {"none"}]

ModemTypes ==
    /\ cp_state \in {Fine, Except, DumpDone, Blocked} /\ service_state_map \subseteq Services
    /\ download_done \in Nat /\ except_mutex \in {"free", "caller"}
    /\ except_work \in {"idle", "queued", "blocked", "reset", "load"} /\ hostAssert \in {"idle", "decided"}
    /\ rx \in RxRec /\ caller \in CallerRec /\ fw \in FwRec /\ modemGhost \in GhostRec
    /\ toHost \in Seq(Messages)

(* Where a call is, and what it holds; before the first download nothing runs. *)
CallerInv ==
    /\ caller.pc \in {"load", "wait"} <=> caller.op = "first" /\ caller.pc # "booted"
    /\ caller.pc = "settle" => caller.op = "start"
    /\ caller.pc \in {"lock", "send"} => caller.op \in {"start", "stop"}
    /\ caller.pc = "await" => caller.op = "start" \/ (caller.op = "stop" /\ caller.s = "BT")
    /\ except_mutex = "caller" <=> caller.pc \in {"send", "await"}
    /\ caller.pc = "load" =>
        /\ cp_state = Fine /\ rx.pc = "idle" /\ except_work = "idle" /\ hostAssert = "idle"
        /\ fw.state = "off" /\ toHost = <<>> /\ download_done = 0 /\ ~bound

(* The firmware that boots, or has booted, has not told its version to the driver yet. *)
VersionPending == fw.state \in {"loaded", "booting"} \/ "trunk_W" \in Of(toHost) \/ rx.pc = "version"

(* Nothing is said twice; after BSPASSERT comes only DUMPDONE, and that comes last. *)
HostOrder(q) ==
    /\ Once(q, {"BSPREADY", "trunk_W"} \cup Answers)
    /\ Then(q, {"BSPASSERT"}, {"DUMPDONE"}) /\ Then(q, {"DUMPDONE"}, {})

(* What the state of the firmware says about the queues. *)
QueueInv ==
    /\ HostOrder(toHost) /\ Then(fw.inbox, {Version} \cup Answered, {Assert})
    /\ fw.state \in {"off", "loaded"} => toHost = <<>> /\ fw.inbox = <<>>
    /\ fw.state \in {"booting", "up"} => {"BSPASSERT", "DUMPDONE"} \cap Of(toHost) = {}
    /\ fw.state = "dumping" => "DUMPDONE" \notin Of(toHost)
    /\ "DUMPDONE" \in Of(toHost) => fw.state = "dumped"
    /\ fw.state \in {"dumping", "dumped"} /\ "BSPASSERT" \notin Of(toHost) => Of(toHost) \subseteq {"DUMPDONE"}
    /\ fw.state = "booting" => "trunk_W" \notin Of(toHost) /\ rx.pc # "version"
    /\ fw.state = "booting" /\ "BSPREADY" \in Of(toHost) => Version \notin Of(fw.inbox)
    /\ fw.state = "up" => "BSPREADY" \notin Of(toHost) /\ Version \notin Of(fw.inbox)
    /\ rx.pc = "version" => fw.state \notin {"off", "loaded"} /\ "trunk_W" \notin Of(toHost)

(* Until the version is told cp_state is not Fine, but for the first boot, and no service is
   known, runs or is asked for. *)
EpochInv ==
    /\ fw.state \in {"off", "loaded"} => service_state_map = {} /\ fw.services = {}
    /\ VersionPending =>
        /\ cp_state # Fine \/ (caller.pc = "wait" /\ download_done = 0)
        /\ service_state_map = {} /\ fw.services = {}
        /\ Of(fw.inbox) \subseteq {Version, Assert} /\ Answers \cap Of(toHost) = {}

(* Who recovers: the work only when it has set Blocked, the receive thread only when the dump
   of a firmware that will not speak again is done and the work has not; both forget the services. *)
RecoveryInv ==
    /\ cp_state = Blocked => hostAssert = "idle"
    /\ except_work \in {"blocked", "reset", "load"} =>
        cp_state = Blocked /\ ~VersionPending /\ caller.pc # "await"
    /\ except_work \in {"reset", "load"} => service_state_map = {}
    /\ "load" \in {except_work, rx.pc} => fw.state = "off"
    /\ rx.pc \in {"asserted", "cancel", "reset", "load"} => cp_state # Fine /\ caller.pc # "await"
    /\ rx.pc \in {"dumpdone", "cancel", "reset"} /\ cp_state # Blocked =>
        fw.state = "dumped" /\ toHost = <<>> /\ service_state_map = {}
    /\ rx.pc = "load" => cp_state # Blocked
    /\ fw.state \in {"dumping", "dumped"} /\ "BSPASSERT" \notin Of(toHost) /\ rx.pc \notin {"assert", "asserted"} =>
        service_state_map = {} \/ cp_state = Blocked

(* What the caller has asked for and waits to hear: the one answer under way. *)
Call == <<caller.op, caller.s>>
Reply == IF caller.op = "stop" THEN "BTEXIT" ELSE Ready[caller.s]
AwaitInv ==
    /\ caller.pc # "await" => Answers \cap Of(toHost) = {} /\ Answered \cap Of(fw.inbox) = {}
    /\ caller.pc = "await" =>
        /\ ~VersionPending
        /\ Answered \cap Of(fw.inbox) \subseteq {Call} /\ Answers \cap Of(toHost) \subseteq {Reply}
        /\ Call \in Of(fw.inbox) => Reply \notin Of(toHost) /\ download_done = 0
        /\ Reply \in Of(toHost) => download_done = 0 /\ Of(fw.inbox) \subseteq {Assert}
                                   /\ (caller.op = "start" => caller.s \in fw.services)
        /\ download_done > 0 => (caller.op = "start" => caller.s \in service_state_map)

(* A service of the map runs and its stop is not asked for. *)
MapInv == cp_state = Fine => \A s \in service_state_map : s \in fw.services /\ Stop(s) \notin Of(fw.inbox)

(* The last start that reported success. *)
StartedInv ==
    modemGhost.started # "none" =>
        caller.pc = "idle" /\ (cp_state = Fine => modemGhost.started \in service_state_map \/ fw.services = {})

(* One recovery at a time, always; the rest until somebody gives up waiting for an answer, which
   may then come to the next caller (late). *)
ModemRest == ~modemGhost.late => QueueInv /\ EpochInv /\ RecoveryInv /\ AwaitInv /\ MapInv /\ StartedInv
ModemInv == ModemTypes /\ CallerInv /\ ModemOneRecovery /\ ModemRest

\* What is in a queue.

LEMMA OfEmpty == Of(<<>>) = {} /\ HostOrder(<<>>) /\ \A A, B : Then(<<>>, A, B)
BY DEF Of, Once, Then, HostOrder

LEMMA OfNone == ASSUME NEW S, NEW q \in Seq(S), Of(q) = {} PROVE q = <<>>
<1>1. Len(q) \in Nat /\ (Len(q) # 0 => 1 \in 1 .. Len(q)) BY LenProperties
<1>2. Len(q) = 0 BY <1>1 DEF Of
<1> QED BY <1>2, EmptySeq

LEMMA OfAppend ==
    ASSUME NEW S, NEW q \in Seq(S), NEW x \in S
    PROVE  /\ Append(q, x) \in Seq(S) /\ Of(Append(q, x)) = Of(q) \cup {x} /\ Append(q, x) # <<>>
           /\ \A A : Once(q, A) /\ (x \notin A \/ x \notin Of(q)) => Once(Append(q, x), A)
           /\ \A A, B : Then(q, A, B) /\ (x \in B \/ A \cap Of(q) = {}) => Then(Append(q, x), A, B)
<1> DEFINE r == Append(q, x)
<1>1. /\ r \in Seq(S) /\ Len(r) = Len(q) + 1 /\ Len(q) \in Nat
      /\ r[Len(q) + 1] = x /\ \A i \in 1 .. Len(q) : r[i] = q[i]
  BY AppendProperties
<1>2. r # <<>> BY <1>1
<1> HIDE DEF r
<1>3. 1 .. Len(r) = 1 .. Len(q) \cup {Len(q) + 1} BY <1>1
<1>4. Of(r) = Of(q) \cup {x} BY <1>1, <1>3 DEF Of
<1>5. ASSUME NEW A, Once(q, A), x \notin A \/ x \notin Of(q) PROVE Once(r, A)
  <2> SUFFICES ASSUME NEW i \in 1 .. Len(r), NEW j \in 1 .. Len(r), r[i] = r[j], r[i] \in A PROVE i = j BY DEF Once
  <2>1. CASE i \in 1 .. Len(q) /\ j \in 1 .. Len(q) BY <1>1, <1>5, <2>1 DEF Once
  <2>2. CASE i = Len(q) + 1 /\ j \in 1 .. Len(q) BY <1>1, <1>5, <2>2 DEF Of
  <2>3. CASE j = Len(q) + 1 /\ i \in 1 .. Len(q) BY <1>1, <1>5, <2>3 DEF Of
  <2> QED BY <1>3, <2>1, <2>2, <2>3
<1>6. ASSUME NEW A, NEW B, Then(q, A, B), x \in B \/ A \cap Of(q) = {} PROVE Then(r, A, B)
  <2> SUFFICES ASSUME NEW i \in 1 .. Len(r), NEW j \in 1 .. Len(r), i < j, r[i] \in A PROVE r[j] \in B BY DEF Then
  <2>1. i \in 1 .. Len(q) BY <1>1, <1>3
  <2>2. q[i] \in A \cap Of(q) BY <1>1, <2>1 DEF Of
  <2>3. CASE j \in 1 .. Len(q) BY <1>1, <1>6, <2>1, <2>2, <2>3 DEF Then
  <2>4. CASE j = Len(q) + 1 BY <1>1, <1>6, <2>2, <2>4
  <2> QED BY <1>3, <2>3, <2>4
<1> QED BY <1>1, <1>2, <1>4, <1>5, <1>6 DEF r

LEMMA OfTail ==
    ASSUME NEW S, NEW q \in Seq(S), q # <<>>
    PROVE  /\ Head(q) \in S /\ Tail(q) \in Seq(S) /\ Of(q) = Of(Tail(q)) \cup {Head(q)}
           /\ \A A : Once(q, A) => Once(Tail(q), A) /\ (Head(q) \in A => Head(q) \notin Of(Tail(q)))
           /\ \A A, B : Then(q, A, B) => Then(Tail(q), A, B) /\ (Head(q) \in A => Of(Tail(q)) \subseteq B)
<1> DEFINE r == Tail(q)
           h == Head(q)
<1>1. /\ r \in Seq(S) /\ Len(q) \in Nat /\ Len(q) >= 1 /\ Len(r) = Len(q) - 1 /\ h = q[1] /\ h \in S
      /\ \A i \in 1 .. Len(r) : r[i] = q[i + 1]
  BY HeadTailProperties
<1> HIDE DEF r, h
<1>2. \A i \in 1 .. Len(r) : i + 1 \in 1 .. Len(q) BY <1>1
<1>3. 1 \in 1 .. Len(q) /\ \A i \in 1 .. Len(q) : i = 1 \/ i - 1 \in 1 .. Len(r) BY <1>1
<1>4. Of(q) = Of(r) \cup {h}
  <2>1. ASSUME NEW i \in 1 .. Len(q) PROVE q[i] \in Of(r) \cup {h}
    <3>1. CASE i = 1 BY <1>1, <3>1
    <3>2. CASE i - 1 \in 1 .. Len(r)
      <4>1. i - 1 + 1 = i /\ r[i - 1] = q[i - 1 + 1] BY <1>1, <3>2
      <4> QED BY <3>2, <4>1 DEF Of
    <3> QED BY <1>3, <3>1, <3>2
  <2> QED BY <1>1, <1>2, <1>3, <2>1 DEF Of
<1>5. ASSUME NEW A, Once(q, A) PROVE Once(r, A) /\ (h \in A => h \notin Of(r))
  <2>1. \A i, j \in 1 .. Len(r) : r[i] = r[j] /\ r[i] \in A => i + 1 = j + 1 BY <1>1, <1>2, <1>5 DEF Once
  <2>2. \A i \in 1 .. Len(r) : r[i] = h /\ h \in A => 1 = i + 1 BY <1>1, <1>2, <1>3, <1>5 DEF Once
  <2>3. \A i \in 1 .. Len(r) : 1 # i + 1 BY <1>1
  <2>4. Once(r, A) BY <1>1, <2>1 DEF Once
  <2> QED BY <2>2, <2>3, <2>4 DEF Of
<1>6. ASSUME NEW A, NEW B, Then(q, A, B) PROVE Then(r, A, B) /\ (h \in A => Of(r) \subseteq B)
  <2>1. \A i, j \in 1 .. Len(r) : i < j => i + 1 < j + 1 BY <1>1
  <2>2. \A j \in 1 .. Len(r) : 1 < j + 1 BY <1>1
  <2>3. Then(r, A, B) BY <1>1, <1>2, <1>6, <2>1 DEF Then
  <2>4. h \in A => \A j \in 1 .. Len(r) : r[j] \in B BY <1>1, <1>2, <1>3, <1>6, <2>2 DEF Then
  <2> QED BY <2>3, <2>4 DEF Of
<1> QED BY <1>1, <1>4, <1>5, <1>6 DEF r, h

\* What a message sent, or taken, does to the queues.

LEMMA SaysMessage ==
    ASSUME NEW q \in Seq(Messages), NEW m \in Messages, NEW r, r = Append(q, m)
    PROVE  /\ r \in Seq(Messages) /\ r # <<>> /\ Of(r) = Of(q) \cup {m}
           /\ /\ HostOrder(q) /\ "DUMPDONE" \notin Of(q) /\ m \notin Of(q)
              /\ "BSPASSERT" \in Of(q) => m = "DUMPDONE"
              => HostOrder(r)
BY OfAppend DEF HostOrder

LEMMA TakesMessage ==
    ASSUME NEW q \in Seq(Messages), q # <<>>, NEW r, r = Tail(q)
    PROVE  /\ Head(q) \in Messages /\ r \in Seq(Messages) /\ Of(q) = Of(r) \cup {Head(q)}
           /\ Of(r) = {} => r = <<>>
           /\ HostOrder(q) =>
              /\ HostOrder(r) /\ (Head(q) \in {"BSPREADY", "trunk_W"} \cup Answers => Head(q) \notin Of(r))
              /\ Head(q) = "BSPASSERT" => Of(r) \subseteq {"DUMPDONE"}
              /\ Head(q) = "DUMPDONE" => Of(r) = {}
<1>1. /\ Head(q) \in Messages /\ r \in Seq(Messages) /\ Of(q) = Of(r) \cup {Head(q)} BY OfTail
<1>2. Of(r) = {} => r = <<>> BY <1>1, OfNone
<1>3. ASSUME HostOrder(q)
      PROVE  /\ HostOrder(r) /\ (Head(q) \in {"BSPREADY", "trunk_W"} \cup Answers => Head(q) \notin Of(r))
             /\ Head(q) = "BSPASSERT" => Of(r) \subseteq {"DUMPDONE"}
             /\ Head(q) = "DUMPDONE" => Of(r) = {}
  <2> DEFINE A == {"BSPREADY", "trunk_W"} \cup Answers
             B == {"BSPASSERT"}
             C == {"DUMPDONE"}
  <2>1. Once(q, A) /\ Then(q, B, C) /\ Then(q, C, {}) BY <1>3 DEF HostOrder
  <2>2. Once(r, A) /\ (Head(q) \in A => Head(q) \notin Of(r))
    BY ONLY <2>1, q \in Seq(Messages), q # <<>>, r = Tail(q), OfTail
  <2>3. Then(r, B, C) /\ (Head(q) \in B => Of(r) \subseteq C)
    BY ONLY <2>1, q \in Seq(Messages), q # <<>>, r = Tail(q), OfTail
  <2>4. Then(r, C, {}) /\ (Head(q) \in C => Of(r) \subseteq {})
    BY ONLY <2>1, q \in Seq(Messages), q # <<>>, r = Tail(q), OfTail
  <2> QED BY <2>2, <2>3, <2>4 DEF HostOrder
<1> QED BY <1>1, <1>2, <1>3

LEMMA PutsCommand ==
    ASSUME NEW q \in Seq(Commands), NEW c \in Commands, NEW r, r = Append(q, c)
    PROVE  /\ r \in Seq(Commands) /\ Of(r) = Of(q) \cup {c}
           /\ Then(q, {Version} \cup Answered, {Assert}) /\ (c = Assert \/ ({Version} \cup Answered) \cap Of(q) = {})
              => Then(r, {Version} \cup Answered, {Assert})
BY OfAppend

LEMMA TakesCommand ==
    ASSUME NEW q \in Seq(Commands), q # <<>>, NEW r, r = Tail(q)
    PROVE  /\ Head(q) \in Commands /\ r \in Seq(Commands) /\ Of(q) = Of(r) \cup {Head(q)}
           /\ Then(q, {Version} \cup Answered, {Assert}) =>
              /\ Then(r, {Version} \cup Answered, {Assert})
              /\ Head(q) \in {Version} \cup Answered => Of(r) \subseteq {Assert}
<1>1. Head(q) \in Commands /\ r \in Seq(Commands) /\ Of(q) = Of(r) \cup {Head(q)} BY OfTail
<1>2. ASSUME Then(q, {Version} \cup Answered, {Assert})
      PROVE  /\ Then(r, {Version} \cup Answered, {Assert})
             /\ Head(q) \in {Version} \cup Answered => Of(r) \subseteq {Assert}
  BY <1>2, OfTail, Zenon
<1> QED BY <1>1, <1>2

\* The commands, by what they are.

LEMMA Kinds ==
    ASSUME NEW c \in Commands
    PROVE  /\ c[1] = "version" => c = Version
           /\ c[1] = "assert" => c = Assert
           /\ c[1] = "start" => c[2] \in Services /\ c = Start(c[2])
           /\ c[1] = "stop" => c[2] \in Services /\ c = Stop(c[2])
BY DEF Commands, Answered, Version, Assert, Start, Stop, Services

LEMMA Different ==
    /\ Version # Assert
    /\ \A s \in Services : Start(s) \notin {Version, Assert} /\ Stop(s) \notin {Version, Assert}
    /\ \A s, t \in Services : Start(s) # Stop(t) /\ (Start(s) = Start(t) => s = t) /\ (Stop(s) = Stop(t) => s = t)
    /\ \A s \in Services : Start(s) \in Answered /\ Start(s) \in Commands /\ Stop(s) \in Commands
    /\ \A s \in Services : Stop(s) \in Answered <=> s = "BT"
    /\ Version \in Commands /\ Assert \in Commands /\ Version \notin Answered /\ Assert \notin Answered
    /\ \A s \in Services : Ready[s] \in Answers /\ Ready[s] \in Messages
    /\ Services = {"WIFI", "BT"}
    /\ Ready["WIFI"] = "WIFIREADY" /\ Ready["BT"] = "BTREADY" /\ "BTEXIT" \in Answers
    /\ {"BSPREADY", "trunk_W", "BSPASSERT", "DUMPDONE"} \cap Answers = {}
BY DEF Commands, Answered, Version, Assert, Start, Stop, Services, Ready, Answers, Messages

\* What the firmware keeps when it is reset or asked for something.

LEMMA ResetFirmware ==
    LET f == [state |-> "off", services |-> {}, inbox |-> <<>>]
    IN  f \in FwRec /\ f.state = "off" /\ f.services = {} /\ f.inbox = <<>>
<1>1. <<>> \in Seq(Commands) BY EmptySeq
<1> QED BY <1>1 DEF FwRec

LEMMA AskedFirmware ==
    ASSUME fw \in FwRec, NEW c \in Commands, Asked(c)
    PROVE  /\ fw' \in FwRec /\ fw'.state = fw.state /\ fw'.services = fw.services
           /\ Of(fw.inbox) \subseteq Of(fw'.inbox) /\ Of(fw'.inbox) \subseteq Of(fw.inbox) \cup {c}
           /\ fw.state \notin {"booting", "up"} => fw'.inbox = fw.inbox
           /\ /\ Then(fw.inbox, {Version} \cup Answered, {Assert})
              /\ fw.state \in {"booting", "up"} => ({Version} \cup Answered) \cap Of(fw.inbox) = {}
              => Then(fw'.inbox, {Version} \cup Answered, {Assert})
<1>1. CASE fw.state \notin {"booting", "up"}
  <2>1. fw' = fw BY <1>1 DEF Asked, FwRec
  <2> QED BY <1>1, <2>1
<1>2. CASE fw.state \in {"booting", "up"}
  <2>1. /\ fw.inbox \in Seq(Commands) /\ fw'.inbox = Append(fw.inbox, c)
        /\ fw'.state = fw.state /\ fw'.services = fw.services
        /\ fw' = [fw EXCEPT !.inbox = Append(fw.inbox, c)]
    BY <1>2 DEF Asked, FwRec
  <2>2. /\ fw'.inbox \in Seq(Commands) /\ Of(fw'.inbox) = Of(fw.inbox) \cup {c}
        /\ Then(fw.inbox, {Version} \cup Answered, {Assert}) /\ ({Version} \cup Answered) \cap Of(fw.inbox) = {}
              => Then(fw'.inbox, {Version} \cup Answered, {Assert})
    <3>1. fw.inbox \in Seq(Commands) /\ fw'.inbox = Append(fw.inbox, c) BY <2>1
    <3> QED BY ONLY <3>1, c \in Commands, PutsCommand
  <2>3. fw' \in FwRec BY <2>1, <2>2 DEF FwRec
  <2> QED BY <1>2, <2>1, <2>2, <2>3
<1> QED BY <1>1, <1>2

LEMMA FirmwareBootsStep == ASSUME ModemInv, FirmwareBoots PROVE ModemInv'
<1> USE DEF ModemInv, ModemTypes, ModemRest, FwRec, RxRec, CallerRec, GhostRec, Fine, Except, DumpDone, Blocked
<1>1. /\ fw.state = "loaded" /\ fw' \in FwRec /\ fw'.state = "booting" /\ fw'.services = fw.services
      /\ fw'.inbox = fw.inbox
      /\ toHost' = Append(toHost, "BSPREADY")
      /\ UNCHANGED <<cp_state, service_state_map, download_done, except_mutex, except_work, rx, hostAssert,
                     caller, modemGhost>>
  BY DEF FirmwareBoots, Says, FwUnchanged, Platform, Actors, World
<1>2. /\ toHost' \in Seq(Messages) /\ Of(toHost') = Of(toHost) \cup {"BSPREADY"}
      /\ HostOrder(toHost) /\ toHost = <<>> => HostOrder(toHost')
  BY <1>1, SaysMessage, OfEmpty DEF Messages
<1>3. ModemTypes' BY <1>1, <1>2
<1>4. CallerInv' /\ ModemOneRecovery' BY <1>1 DEF CallerInv, ModemOneRecovery
<1>5. ASSUME ~modemGhost'.late PROVE QueueInv' BY <1>1, <1>2, <1>5, OfEmpty DEF QueueInv
<1>6. ASSUME ~modemGhost'.late PROVE EpochInv' BY <1>1, <1>2, <1>6, Different DEF EpochInv, VersionPending
<1>7. ASSUME ~modemGhost'.late PROVE RecoveryInv' BY <1>1, <1>7 DEF RecoveryInv, VersionPending
<1>8. ASSUME ~modemGhost'.late PROVE AwaitInv' BY <1>1, <1>2, <1>8, Different DEF AwaitInv, VersionPending
<1>9. ASSUME ~modemGhost'.late PROVE MapInv' /\ StartedInv' BY <1>1, <1>9 DEF MapInv, StartedInv
<1> QED BY <1>3, <1>4, <1>5, <1>6, <1>7, <1>8, <1>9

LEMMA FirmwareDumpsStep == ASSUME ModemInv, FirmwareDumps PROVE ModemInv'
<1> USE DEF ModemInv, ModemTypes, ModemRest, FwRec, RxRec, CallerRec, GhostRec, Fine, Except, DumpDone, Blocked
<1>1. /\ fw.state = "dumping" /\ fw' \in FwRec /\ fw'.state = "dumped" /\ fw'.services = fw.services
      /\ fw'.inbox = fw.inbox
      /\ toHost' = Append(toHost, "DUMPDONE")
      /\ UNCHANGED <<cp_state, service_state_map, download_done, except_mutex, except_work, rx, hostAssert,
                     caller, modemGhost>>
  BY DEF FirmwareDumps, Says, FwUnchanged, Platform, Actors, World
<1>2. /\ toHost' \in Seq(Messages) /\ toHost' # <<>> /\ Of(toHost') = Of(toHost) \cup {"DUMPDONE"}
      /\ HostOrder(toHost) /\ "DUMPDONE" \notin Of(toHost) => HostOrder(toHost')
  BY <1>1, SaysMessage DEF Messages
<1>3. ModemTypes' BY <1>1, <1>2
<1>4. CallerInv' /\ ModemOneRecovery' BY <1>1 DEF CallerInv, ModemOneRecovery
<1>5. ASSUME ~modemGhost'.late PROVE QueueInv' BY <1>1, <1>2, <1>5 DEF QueueInv
<1>6. ASSUME ~modemGhost'.late PROVE EpochInv' BY <1>1, <1>2, <1>6, Different DEF EpochInv, VersionPending
<1>7. ASSUME ~modemGhost'.late PROVE RecoveryInv' BY <1>1, <1>2, <1>7 DEF RecoveryInv, VersionPending
<1>8. ASSUME ~modemGhost'.late PROVE AwaitInv'
  BY <1>1, <1>2, <1>8, Different DEF AwaitInv, Call, Reply, VersionPending
<1>9. ASSUME ~modemGhost'.late PROVE MapInv' /\ StartedInv' BY <1>1, <1>9 DEF MapInv, StartedInv
<1> QED BY <1>3, <1>4, <1>5, <1>6, <1>7, <1>8, <1>9

LEMMA FirmwareAnswersStep == ASSUME ModemInv, FirmwareAnswers PROVE ModemInv'
<1> USE DEF ModemInv, ModemTypes, ModemRest, FwRec, RxRec, CallerRec, GhostRec, Fine, Except, DumpDone, Blocked
<1> DEFINE c == Head(fw.inbox)
           q == Tail(fw.inbox)
<1>1. /\ c \in Commands /\ fw.state \in {"booting", "up"} /\ fw.services \subseteq Services /\ q \in Seq(Commands)
      /\ Of(fw.inbox) = Of(q) \cup {c}
      /\ Then(fw.inbox, {Version} \cup Answered, {Assert})
         => Then(q, {Version} \cup Answered, {Assert}) /\ (c \in {Version} \cup Answered => Of(q) \subseteq {Assert})
      /\ UNCHANGED <<cp_state, service_state_map, download_done, except_mutex, except_work, rx, hostAssert, caller,
                     modemGhost>>
      /\ Call' = Call /\ Reply' = Reply
  BY TakesCommand DEF Call, Reply, FirmwareAnswers, FwUnchanged, Platform, Actors, World
<1> HIDE DEF c, q
<1>2. CASE c[1] = "version"
  <2>1. c = Version
    BY <1>1, <1>2, Kinds, Different DEF Services
  <2>2. /\ fw' = [fw EXCEPT !.inbox = q, !.state = "up"]
        /\ toHost' = Append(toHost, "trunk_W")
    BY <1>1, <1>2, <2>1, Different DEF FirmwareAnswers, Says, FwUnchanged, Platform, Actors, World, c, q
  <2>3. fw' \in FwRec /\ fw'.state = "up" /\ fw'.services = fw.services /\ fw'.inbox = q
    BY <1>1, <2>1, <2>2
  <2>4. ~modemGhost.late
        => fw.state = "booting" /\ VersionPending /\ "trunk_W" \notin Of(toHost) /\ "BSPREADY" \notin Of(toHost)
    BY <1>1, <2>1, Different, Kinds DEF QueueInv, EpochInv, AwaitInv, VersionPending, Call, Reply, Start, Stop
  <2>5. /\ toHost' \in Seq(Messages) /\ toHost' # <<>> /\ Of(toHost') = Of(toHost) \cup {"trunk_W"}
        /\ HostOrder(toHost) /\ "DUMPDONE" \notin Of(toHost) /\ "BSPASSERT" \notin Of(toHost)
             /\ "trunk_W" \notin Of(toHost) => HostOrder(toHost')
    <3>1. toHost \in Seq(Messages) /\ "trunk_W" \in Messages /\ toHost' = Append(toHost, "trunk_W")
      BY <2>2 DEF Messages
    <3> QED BY ONLY <3>1, SaysMessage
  <2>6. ModemTypes' BY <1>1, <2>1, <2>3, <2>5
  <2>7. CallerInv' /\ ModemOneRecovery' BY <1>1, <2>2, <2>4 DEF CallerInv, ModemOneRecovery
  <2>8. ASSUME ~modemGhost'.late PROVE QueueInv' BY <1>1, <2>1, <2>3, <2>5, <2>8, Different DEF QueueInv
  <2>9. ASSUME ~modemGhost'.late PROVE EpochInv' BY <1>1, <2>2, <2>4, <2>5, <2>9, Different DEF EpochInv
  <2>10. ASSUME ~modemGhost'.late PROVE RecoveryInv' BY <1>1, <2>2, <2>4, <2>10 DEF RecoveryInv
  <2>11. ASSUME ~modemGhost'.late PROVE AwaitInv' BY <1>1, <2>2, <2>4, <2>5, <2>11, Different DEF AwaitInv
  <2>12. ASSUME ~modemGhost'.late PROVE MapInv' /\ StartedInv' BY <1>1, <2>2, <2>4, <2>12 DEF MapInv, StartedInv
  <2> QED BY <2>6, <2>7, <2>8, <2>9, <2>10, <2>11, <2>12
<1>3. CASE c[1] = "start"
  <2>1. /\ c = Start(c[2])
        /\ c[2] \in Services /\ Ready[c[2]] \in Messages /\ Ready[c[2]] \in Answers
        /\ Ready[c[2]] \notin {"BSPASSERT", "DUMPDONE", "BSPREADY", "trunk_W"}
    BY <1>1, <1>3, Kinds, Different DEF Services
  <2>2. /\ fw' = [fw EXCEPT !.inbox = q, !.services = @ \cup {c[2]}]
        /\ toHost' = Append(toHost, Ready[c[2]])
    BY <1>1, <1>3, <2>1, Different DEF FirmwareAnswers, Says, FwUnchanged, Platform, Actors, World, c, q
  <2>3. fw' \in FwRec /\ fw'.state = fw.state /\ fw'.services = fw.services \cup {c[2]} /\ fw'.inbox = q
    BY <1>1, <2>1, <2>2
  <2>4. ~modemGhost.late
        => caller.pc = "await" /\ Call = c /\ caller.op = "start" /\ caller.s = c[2] /\ Reply = Ready[c[2]]
          /\ ~VersionPending
    <3>1. c \in Answered \cap Of(fw.inbox) BY <1>1, <2>1, Different
    <3>2. ~modemGhost.late => caller.pc = "await" /\ Call = c /\ ~VersionPending BY <3>1 DEF AwaitInv
    <3>3. Call = c => caller.op = "start" /\ caller.s = c[2] BY <2>1 DEF Call, Start
    <3> QED BY <3>2, <3>3 DEF Reply
  <2>5. /\ toHost' \in Seq(Messages) /\ toHost' # <<>> /\ Of(toHost') = Of(toHost) \cup {Ready[c[2]]}
        /\ HostOrder(toHost) /\ "DUMPDONE" \notin Of(toHost) /\ "BSPASSERT" \notin Of(toHost)
             /\ Ready[c[2]] \notin Of(toHost) => HostOrder(toHost')
    <3> DEFINE m == Ready[c[2]]
    <3>1. toHost \in Seq(Messages) /\ m \in Messages /\ m \notin {"BSPASSERT",
       "DUMPDONE"} /\ toHost' = Append(toHost, m) BY <2>1, <2>2
    <3> HIDE DEF m
    <3>2. /\ toHost' \in Seq(Messages) /\ toHost' # <<>> /\ Of(toHost') = Of(toHost) \cup {m}
          /\ HostOrder(toHost) /\ "DUMPDONE" \notin Of(toHost) /\ "BSPASSERT" \notin Of(toHost)
               /\ m \notin Of(toHost) => HostOrder(toHost')
      BY ONLY <3>1, SaysMessage
    <3> QED BY <3>2 DEF m
  <2>6. ModemTypes' BY <1>1, <2>1, <2>2, <2>3, <2>4
  <2>7. CallerInv' /\ ModemOneRecovery' BY <1>1, <2>2, <2>4 DEF CallerInv, ModemOneRecovery
  <2>8. ASSUME ~modemGhost'.late PROVE QueueInv' BY <1>1, <2>1, <2>2, <2>4, <2>5, <2>8 DEF QueueInv, AwaitInv
  <2>9. ASSUME ~modemGhost'.late PROVE EpochInv' BY <1>1, <2>1, <2>2, <2>4, <2>5, <2>9 DEF EpochInv, VersionPending
  <2>10. ASSUME ~modemGhost'.late PROVE RecoveryInv' BY <1>1, <2>2, <2>4, <2>10 DEF RecoveryInv
  <2>11. ASSUME ~modemGhost'.late PROVE AwaitInv'
    <3>1. /\ caller'.pc = "await" /\ ~VersionPending'
      BY <1>1, <2>1, <2>2, <2>3, <2>4, <2>5, <2>11, Different DEF VersionPending
    <3>2. /\ Answered \cap Of(fw'.inbox) = {} /\ Call' \notin Of(fw'.inbox) /\ Of(fw'.inbox) \subseteq {Assert}
      BY <1>1, <2>1, <2>3, <2>4, <2>11, Different DEF QueueInv
    <3>3. Reply \notin Of(toHost) /\ download_done = 0 /\ Answers \cap Of(toHost') \subseteq {Reply'}
      BY <1>1, <2>1, <2>4, <2>5, <2>11, Different DEF AwaitInv
    <3>4. Reply' \in Of(toHost')
          => download_done' = 0 /\ Of(fw'.inbox) \subseteq {Assert}
            /\ (caller'.op = "start" => caller'.s \in fw'.services)
      BY <1>1, <2>3, <2>4, <2>11, <3>2, <3>3
    <3>5. download_done' = 0 BY <1>1, <3>3
    <3> QED BY <3>1, <3>2, <3>3, <3>4, <3>5 DEF AwaitInv
  <2>12. ASSUME ~modemGhost'.late PROVE MapInv' /\ StartedInv' BY <1>1, <2>2, <2>4, <2>12 DEF MapInv, StartedInv
  <2> QED BY <2>6, <2>7, <2>8, <2>9, <2>10, <2>11, <2>12
<1>4. CASE c[1] = "stop" /\ c[2] = "BT"
  <2>1. /\ c = Stop("BT")
        /\ "BT" \in Services
    BY <1>1, <1>4, Kinds, Different DEF Services
  <2>2. /\ fw' = [fw EXCEPT !.inbox = q, !.services = @ \ {"BT"}]
        /\ toHost' = Append(toHost, "BTEXIT")
    BY <1>1, <1>4 DEF FirmwareAnswers, Says, c, q
  <2>3. fw' \in FwRec /\ fw'.state = fw.state /\ fw'.services = fw.services \ {"BT"} /\ fw'.inbox = q
    BY <1>1, <2>1, <2>2
  <2>4. ~modemGhost.late
        => caller.pc = "await" /\ Call = c /\ caller.op = "stop" /\ caller.s = "BT" /\ Reply = "BTEXIT"
          /\ ~VersionPending
    <3>1. c \in Answered \cap Of(fw.inbox) BY <1>1, <2>1, Different
    <3>2. ~modemGhost.late => caller.pc = "await" /\ Call = c /\ ~VersionPending BY <3>1 DEF AwaitInv
    <3>3. Call = c => caller.op = "stop" /\ caller.s = "BT" BY <2>1 DEF Call, Stop
    <3> QED BY <3>2, <3>3 DEF Reply
  <2>5. /\ toHost' \in Seq(Messages) /\ toHost' # <<>> /\ Of(toHost') = Of(toHost) \cup {"BTEXIT"}
        /\ HostOrder(toHost) /\ "DUMPDONE" \notin Of(toHost) /\ "BSPASSERT" \notin Of(toHost)
             /\ "BTEXIT" \notin Of(toHost) => HostOrder(toHost')
    <3>1. toHost \in Seq(Messages) /\ "BTEXIT" \in Messages /\ toHost' = Append(toHost, "BTEXIT") BY <2>2 DEF Messages
    <3> QED BY ONLY <3>1, SaysMessage
  <2>6. ModemTypes' BY <1>1, <2>1, <2>3, <2>5
  <2>7. CallerInv' /\ ModemOneRecovery' BY <1>1, <2>2, <2>4 DEF CallerInv, ModemOneRecovery
  <2>8. ASSUME ~modemGhost'.late PROVE QueueInv' BY <1>1, <2>2, <2>4, <2>5, <2>8 DEF QueueInv, AwaitInv
  <2>9. ASSUME ~modemGhost'.late PROVE EpochInv' BY <1>1, <2>2, <2>4, <2>5, <2>9 DEF EpochInv, VersionPending
  <2>10. ASSUME ~modemGhost'.late PROVE RecoveryInv' BY <1>1, <2>2, <2>4, <2>10 DEF RecoveryInv
  <2>11. ASSUME ~modemGhost'.late PROVE AwaitInv'
    <3>1. /\ caller'.pc = "await" /\ ~VersionPending'
      BY <1>1, <2>1, <2>2, <2>3, <2>4, <2>5, <2>11, Different DEF VersionPending
    <3>2. /\ Answered \cap Of(fw'.inbox) = {} /\ Call' \notin Of(fw'.inbox) /\ Of(fw'.inbox) \subseteq {Assert}
      BY <1>1, <2>1, <2>3, <2>4, <2>11, Different DEF QueueInv
    <3>3. Reply \notin Of(toHost) /\ download_done = 0 /\ Answers \cap Of(toHost') \subseteq {Reply'}
      BY <1>1, <2>1, <2>4, <2>5, <2>11, Different DEF AwaitInv
    <3>4. Reply' \in Of(toHost')
          => download_done' = 0 /\ Of(fw'.inbox) \subseteq {Assert}
            /\ (caller'.op = "start" => caller'.s \in fw'.services)
      BY <1>1, <2>3, <2>4, <2>11, <3>2, <3>3
    <3>5. download_done' = 0 BY <1>1, <3>3
    <3> QED BY <3>1, <3>2, <3>3, <3>4, <3>5 DEF AwaitInv
  <2>12. ASSUME ~modemGhost'.late PROVE MapInv' /\ StartedInv' BY <1>1, <2>1, <2>2, <2>4, <2>12 DEF MapInv, StartedInv
  <2> QED BY <2>6, <2>7, <2>8, <2>9, <2>10, <2>11, <2>12
<1>5. CASE c[1] = "stop" /\ c[2] # "BT"
  <2>1. /\ c = Stop(c[2])
        /\ c[2] = "WIFI"
    BY <1>1, <1>5, Kinds, Different DEF Services
  <2>2. /\ fw' = [fw EXCEPT !.inbox = q, !.services = @ \ {c[2]}]
        /\ toHost' = toHost
    BY <1>1, <1>5, <2>1, Different DEF FirmwareAnswers, Says, FwUnchanged, Platform, Actors, World, c, q
  <2>3. fw' \in FwRec /\ fw'.state = fw.state /\ fw'.services = fw.services \ {c[2]} /\ fw'.inbox = q
    BY <1>1, <2>1, <2>2
  <2>4. ModemTypes' BY <1>1, <2>2, <2>3
  <2>5. CallerInv' /\ ModemOneRecovery' BY <1>1, <2>2 DEF CallerInv, ModemOneRecovery
  <2>6. ASSUME ~modemGhost'.late PROVE QueueInv' BY <1>1, <2>2, <2>6 DEF QueueInv
  <2>7. ASSUME ~modemGhost'.late PROVE EpochInv' BY <1>1, <2>2, <2>7 DEF EpochInv, VersionPending
  <2>8. ASSUME ~modemGhost'.late PROVE RecoveryInv' BY <1>1, <2>2, <2>8 DEF RecoveryInv, VersionPending
  <2>9. ASSUME ~modemGhost'.late PROVE AwaitInv'
    <3>1. c \notin Answered /\ c # Assert /\ c \in Of(fw.inbox) BY <1>1, <2>1, Different DEF Services
    <3>2. VersionPending' = VersionPending BY <1>1, <2>2, <2>3 DEF VersionPending
    <3>3. Answered \cap Of(fw'.inbox) = Answered \cap Of(fw.inbox) BY <1>1, <2>3, <3>1
    <3>4. Of(fw.inbox) \subseteq {Assert} => FALSE BY <3>1
    <3> QED BY <1>1, <2>2, <2>3, <2>9, <3>2, <3>3, <3>4 DEF AwaitInv
  <2>10. ASSUME ~modemGhost'.late PROVE MapInv' /\ StartedInv' BY <1>1, <2>1, <2>2, <2>10 DEF MapInv, StartedInv
  <2> QED BY <2>4, <2>5, <2>6, <2>7, <2>8, <2>9, <2>10
<1>6. CASE c[1] = "assert"
  <2>1. c = Assert
    BY <1>1, <1>6, Kinds, Different DEF Services
  <2>2. /\ fw' = [fw EXCEPT !.inbox = q, !.state = "dumping"]
        /\ toHost' = Append(toHost, "BSPASSERT")
    BY <1>1, <1>6, <2>1, Different DEF FirmwareAnswers, Says, FwUnchanged, Platform, Actors, World, c, q
  <2>3. fw' \in FwRec /\ fw'.state = "dumping" /\ fw'.services = fw.services /\ fw'.inbox = q
    BY <1>1, <2>1, <2>2
  <2>4. /\ toHost' \in Seq(Messages) /\ toHost' # <<>> /\ Of(toHost') = Of(toHost) \cup {"BSPASSERT"}
        /\ HostOrder(toHost) /\ "DUMPDONE" \notin Of(toHost) /\ "BSPASSERT" \notin Of(toHost) => HostOrder(toHost')
    <3>1. toHost \in Seq(Messages) /\ "BSPASSERT" \in Messages /\ toHost' = Append(toHost, "BSPASSERT")
      BY <2>2 DEF Messages
    <3> QED BY ONLY <3>1, SaysMessage
  <2>5. ModemTypes' BY <1>1, <2>1, <2>3, <2>4
  <2>6. CallerInv' /\ ModemOneRecovery' BY <1>1, <2>1, <2>3 DEF CallerInv, ModemOneRecovery
  <2>7. ASSUME ~modemGhost'.late PROVE QueueInv' BY <1>1, <2>2, <2>4, <2>7 DEF QueueInv
  <2>8. ASSUME ~modemGhost'.late PROVE EpochInv' BY <1>1, <2>2, <2>4, <2>8, Different DEF EpochInv, VersionPending
  <2>9. ASSUME ~modemGhost'.late PROVE RecoveryInv' BY <1>1, <2>2, <2>4, <2>9 DEF RecoveryInv, VersionPending
  <2>10. ASSUME ~modemGhost'.late PROVE AwaitInv'
    BY <1>1, <2>2, <2>4, <2>10, Different DEF AwaitInv, Reply, VersionPending
  <2>11. ASSUME ~modemGhost'.late PROVE MapInv' /\ StartedInv' BY <1>1, <2>1, <2>3, <2>11 DEF MapInv, StartedInv
  <2> QED BY <2>5, <2>6, <2>7, <2>8, <2>9, <2>10, <2>11
<1> QED BY <1>1, <1>2, <1>3, <1>4, <1>5, <1>6 DEF FirmwareAnswers, c

LEMMA RxTakesStep == ASSUME ModemInv, RxTakes PROVE ModemInv'
<1> USE DEF ModemInv, ModemTypes, ModemRest, FwRec, RxRec, CallerRec, GhostRec, Fine, Except, DumpDone, Blocked
<1> DEFINE m == Head(toHost)
<1>1. /\ toHost # <<>> /\ rx.pc = "idle" /\ m \in Messages /\ toHost' \in Seq(Messages)
           /\ Of(toHost) = Of(toHost') \cup {m} /\ (Of(toHost') = {} => toHost' = <<>>)
      /\ HostOrder(toHost) => HostOrder(toHost')
      /\ HostOrder(toHost) => (m \in {"BSPREADY", "trunk_W"} \cup Answers => m \notin Of(toHost'))
      /\ HostOrder(toHost) => (m = "BSPASSERT" => Of(toHost') \subseteq {"DUMPDONE"})
           /\ (m = "DUMPDONE" => Of(toHost') = {})
      /\ UNCHANGED <<cp_state, except_mutex, hostAssert, caller, modemGhost>>
      /\ Call' = Call /\ Reply' = Reply
  BY TakesMessage DEF RxTakes, RxAt, Call, Reply
<1> HIDE DEF m
<1>2. CASE m \in Answers
  <2>1. /\ service_state_map' \subseteq Services /\ service_state_map \subseteq service_state_map'
        /\ download_done' = download_done + 1
        /\ \A s \in service_state_map' : s \in service_state_map \/ (m = Ready[s] /\ m # "BTEXIT")
        /\ \A s \in Services : m = Ready[s] => s \in service_state_map'
        /\ m \notin {"BSPREADY", "trunk_W", "BSPASSERT", "DUMPDONE"}
        /\ UNCHANGED <<rx, except_work, fw>>
    BY <1>1, <1>2, Different DEF RxTakes, m, Answers, Services
  <2>2. VersionPending' = VersionPending /\ (~modemGhost.late => ~VersionPending /\ caller.pc = "await" /\ m = Reply)
    <3>1. VersionPending' = VersionPending BY <1>1, <2>1 DEF VersionPending
    <3>2. m \in Answers \cap Of(toHost) BY <1>1, <1>2
    <3> QED BY <3>1, <3>2 DEF EpochInv, AwaitInv
  <2>3. m \in Answers
    BY <1>1, <1>2
  <2>4. ModemTypes' BY <1>1, <2>1, <2>2
  <2>5. CallerInv' /\ ModemOneRecovery' BY <1>1, <2>1, <2>2 DEF CallerInv, ModemOneRecovery
  <2>6. ASSUME ~modemGhost'.late PROVE QueueInv' BY <1>1, <2>1, <2>2, <2>6 DEF QueueInv
  <2>7. ASSUME ~modemGhost'.late PROVE EpochInv' BY <1>1, <2>1, <2>2, <2>7 DEF EpochInv, QueueInv
  <2>8. ASSUME ~modemGhost'.late PROVE RecoveryInv' BY <1>1, <2>1, <2>2, <2>8 DEF RecoveryInv, QueueInv
  <2>9. ASSUME ~modemGhost.late
        PROVE  /\ Answers \cap Of(toHost') = {} /\ download_done = 0 /\ Of(fw.inbox) \subseteq {Assert}
               /\ Call \notin Of(fw.inbox)
               /\ Answered \cap Of(fw.inbox) = {} /\ (caller.op = "start" => caller.s \in fw.services)
    <3>1. m = Reply /\ m \in Of(toHost) /\ m \notin Of(toHost') /\ caller.pc = "await"
      BY <1>1, <2>2, <2>3, <2>9 DEF QueueInv
    <3>2. Answers \cap Of(toHost) \subseteq {Reply} /\ Reply \in Of(toHost) BY <3>1, <2>9 DEF AwaitInv
    <3>3. Answers \cap Of(toHost') = {} BY <1>1, <3>1, <3>2
    <3> QED BY <2>9, <3>1, <3>2, <3>3, Different DEF AwaitInv
  <2>10. ASSUME ~modemGhost'.late PROVE AwaitInv'
    <3>1. /\ caller'.pc = "await" /\ ~VersionPending' /\ download_done' = 1 BY <1>1, <2>1, <2>2, <2>10, <2>9
    <3>2. caller.op = "start" => caller.s \in service_state_map' BY <1>1, <2>1, <2>2, <2>10 DEF Reply
    <3>3. Reply' \notin Of(toHost') BY <1>1, <2>2, <2>3, <2>10, <2>9
    <3> QED BY <1>1, <2>1, <2>10, <2>9, <3>1, <3>2, <3>3 DEF AwaitInv
  <2>11. ASSUME ~modemGhost'.late PROVE MapInv' /\ StartedInv'
    <3>1. StartedInv' BY <1>1, <2>2, <2>11 DEF StartedInv
    <3>2. ASSUME NEW s \in service_state_map', s \notin service_state_map PROVE caller.op = "start" /\ caller.s = s
      <4>1. s \in Services /\ Ready[s] = Reply /\ Reply # "BTEXIT" BY <1>1, <2>1, <2>2, <2>11, <3>2
      <4>2. caller.op # "stop" /\ Ready[caller.s] = Ready[s] BY <4>1 DEF Reply
      <4>3. caller.s \in Services /\ caller.op = "start" BY <1>1, <2>2, <2>11, <4>2 DEF CallerInv
      <4> QED BY <4>1, <4>2, <4>3, Different
    <3>3. ASSUME NEW s \in service_state_map', cp_state' = 0 PROVE s \in fw'.services /\ Stop(s) \notin Of(fw'.inbox)
      <4>1. CASE s \in service_state_map BY <1>1, <2>1, <2>11, <3>3, <4>1 DEF MapInv
      <4>2. CASE s \notin service_state_map
        <5>1. s \in fw.services BY <1>1, <2>11, <2>9, <3>2, <4>2
        <5>2. s \in Services /\ Stop(s) # Assert BY <2>1, Different
        <5> QED BY <1>1, <2>1, <2>11, <2>9, <5>1, <5>2
      <4> QED BY <4>1, <4>2
    <3> QED BY <3>1, <3>3 DEF MapInv
  <2> QED BY <2>4, <2>5, <2>6, <2>7, <2>8, <2>10, <2>11
<1>3. CASE m = "BSPREADY" /\ fw.state \notin {"booting", "up"}
  <2>1. /\ m = "BSPREADY" /\ fw.state \notin {"booting", "up"}
        /\ UNCHANGED <<cp_state, service_state_map, download_done, except_mutex, except_work, rx, hostAssert, caller,
                       fw, modemGhost>>
    BY <1>1, <1>3 DEF RxTakes, m, Asked, Answers
  <2>2. ModemTypes' BY <1>1, <2>1
  <2>3. CallerInv' /\ ModemOneRecovery' BY <1>1, <2>1 DEF CallerInv, ModemOneRecovery
  <2>4. ASSUME ~modemGhost'.late PROVE QueueInv' BY <1>1, <2>1, <2>4 DEF QueueInv
  <2>5. ASSUME ~modemGhost'.late PROVE EpochInv' BY <1>1, <2>1, <2>5 DEF EpochInv, VersionPending
  <2>6. ASSUME ~modemGhost'.late PROVE RecoveryInv' BY <1>1, <2>1, <2>6 DEF RecoveryInv, VersionPending
  <2>7. ASSUME ~modemGhost'.late PROVE AwaitInv' BY <1>1, <2>1, <2>7 DEF AwaitInv, VersionPending
  <2>8. ASSUME ~modemGhost'.late PROVE MapInv' /\ StartedInv' BY <1>1, <2>1, <2>8 DEF MapInv, StartedInv
  <2> QED BY <2>2, <2>3, <2>4, <2>5, <2>6, <2>7, <2>8
<1>4. CASE m = "BSPREADY" /\ fw.state \in {"booting", "up"}
  <2>1. /\ m = "BSPREADY" /\ fw.state \in {"booting", "up"}
        /\ UNCHANGED <<cp_state, service_state_map, download_done, except_mutex, except_work, rx, hostAssert, caller,
                       modemGhost>>
        /\ Asked(Version)
    BY <1>1, <1>4 DEF RxTakes, m, Asked, Answers, Version
  <2>2. /\ fw' \in FwRec /\ fw'.state = fw.state /\ fw'.services = fw.services
        /\ Of(fw'.inbox) \subseteq Of(fw.inbox) \cup {Version}
        /\ Then(fw.inbox, {Version} \cup Answered, {Assert}) /\ ({Version} \cup Answered) \cap Of(fw.inbox) = {}
           => Then(fw'.inbox, {Version} \cup Answered, {Assert})
    BY <2>1, AskedFirmware, Different
  <2>3. m # "trunk_W" /\ m \notin Answers BY <2>1, Different
  <2>4. ModemTypes' BY <1>1, <2>1, <2>2
  <2>5. CallerInv' /\ ModemOneRecovery' BY <1>1, <2>1, <2>2 DEF CallerInv, ModemOneRecovery
  <2>6. ASSUME ~modemGhost'.late PROVE QueueInv'
    BY <1>1, <2>1, <2>2, <2>3, <2>6, Different DEF QueueInv, EpochInv, AwaitInv, VersionPending
  <2>7. ASSUME ~modemGhost'.late PROVE EpochInv'
    BY <1>1, <2>1, <2>2, <2>3, <2>7, Different DEF EpochInv, VersionPending, QueueInv
  <2>8. ASSUME ~modemGhost'.late PROVE RecoveryInv' BY <1>1, <2>1, <2>2, <2>8 DEF RecoveryInv, VersionPending
  <2>9. ASSUME ~modemGhost'.late PROVE AwaitInv'
    BY <1>1, <2>1, <2>2, <2>3, <2>9, Different DEF AwaitInv, Call, Reply, VersionPending, QueueInv
  <2>10. ASSUME ~modemGhost'.late PROVE MapInv' /\ StartedInv'
    <3>1. MapInv /\ StartedInv BY <2>1, <2>10
    <3>2. \A t \in Services : Stop(t) \in Of(fw'.inbox) => Stop(t) \in Of(fw.inbox) BY <2>2, Different
    <3>3. service_state_map \subseteq Services OBVIOUS
    <3>4. MapInv' BY ONLY <2>1, <2>2, <3>1, <3>2, <3>3 DEF MapInv, Fine
    <3>5. StartedInv' BY ONLY <2>1, <2>2, <3>1 DEF StartedInv, Fine
    <3> QED BY <3>4, <3>5
  <2> QED BY <2>4, <2>5, <2>6, <2>7, <2>8, <2>9, <2>10
<1>5. CASE m = "trunk_W"
  <2>1. /\ m = "trunk_W"
        /\ UNCHANGED <<cp_state, service_state_map, download_done, except_mutex, except_work, hostAssert, caller, fw,
                       modemGhost>>
    BY <1>1, <1>5 DEF RxTakes, m, Answers
  <2>2. rx' \in RxRec /\ rx'.pc = "version"
    BY <1>1, <1>5 DEF RxTakes, m, Answers, Messages
  <2>3. ModemTypes' BY <1>1, <2>1, <2>2
  <2>4. CallerInv' /\ ModemOneRecovery' BY <1>1, <2>2 DEF CallerInv, ModemOneRecovery
  <2>5. ASSUME ~modemGhost'.late PROVE QueueInv' BY <1>1, <2>1, <2>5 DEF QueueInv
  <2>6. ASSUME ~modemGhost'.late PROVE EpochInv' BY <1>1, <2>1, <2>6 DEF EpochInv, VersionPending
  <2>7. ASSUME ~modemGhost'.late PROVE RecoveryInv' BY <1>1, <2>1, <2>2, <2>7 DEF RecoveryInv, VersionPending
  <2>8. ASSUME ~modemGhost'.late PROVE AwaitInv' BY <1>1, <2>1, <2>8 DEF AwaitInv, VersionPending
  <2>9. ASSUME ~modemGhost'.late PROVE MapInv' /\ StartedInv' BY <1>1, <2>1, <2>9 DEF MapInv, StartedInv
  <2> QED BY <2>3, <2>4, <2>5, <2>6, <2>7, <2>8, <2>9
<1>6. CASE m = "BSPASSERT"
  <2>1. /\ m = "BSPASSERT"
        /\ UNCHANGED <<cp_state, service_state_map, download_done, except_mutex, hostAssert, caller, fw, modemGhost>>
    BY <1>1, <1>6 DEF RxTakes, m, Answers
  <2>2. /\ rx' \in RxRec /\ rx'.pc = "assert"
        /\ except_work' = except_work \/ (except_work = "idle" /\ except_work' = "queued")
    BY <1>1, <1>6 DEF RxTakes, m, Answers, Messages
  <2>3. ModemTypes' BY <1>1, <2>1, <2>2
  <2>4. CallerInv' /\ ModemOneRecovery' BY <1>1, <2>2 DEF CallerInv, ModemOneRecovery
  <2>5. ASSUME ~modemGhost'.late PROVE QueueInv' BY <1>1, <2>1, <2>5 DEF QueueInv
  <2>6. ASSUME ~modemGhost'.late PROVE EpochInv' BY <1>1, <2>1, <2>2, <2>6 DEF EpochInv, VersionPending
  <2>7. ASSUME ~modemGhost'.late PROVE RecoveryInv' BY <1>1, <2>1, <2>2, <2>7 DEF RecoveryInv, VersionPending
  <2>8. ASSUME ~modemGhost'.late PROVE AwaitInv' BY <1>1, <2>1, <2>2, <2>8 DEF AwaitInv, VersionPending
  <2>9. ASSUME ~modemGhost'.late PROVE MapInv' /\ StartedInv' BY <1>1, <2>1, <2>9 DEF MapInv, StartedInv
  <2> QED BY <2>3, <2>4, <2>5, <2>6, <2>7, <2>8, <2>9
<1>7. CASE m = "DUMPDONE"
  <2>1. /\ m = "DUMPDONE"
        /\ UNCHANGED <<cp_state, service_state_map, download_done, except_mutex, except_work, hostAssert, caller, fw,
                       modemGhost>>
    BY <1>1, <1>7 DEF RxTakes, m, Answers
  <2>2. rx' \in RxRec /\ rx'.pc = "dumpdone"
    BY <1>1, <1>7 DEF RxTakes, m, Answers, Messages
  <2>3. ModemTypes' BY <1>1, <2>1, <2>2
  <2>4. CallerInv' /\ ModemOneRecovery' BY <1>1, <2>2 DEF CallerInv, ModemOneRecovery
  <2>5. ASSUME ~modemGhost'.late PROVE QueueInv' BY <1>1, <2>1, <2>5 DEF QueueInv
  <2>6. ASSUME ~modemGhost'.late PROVE EpochInv' BY <1>1, <2>1, <2>2, <2>6 DEF EpochInv, VersionPending
  <2>7. ASSUME ~modemGhost'.late PROVE RecoveryInv'
    BY <1>1, <2>1, <2>2, <2>7 DEF RecoveryInv, QueueInv, VersionPending
  <2>8. ASSUME ~modemGhost'.late PROVE AwaitInv' BY <1>1, <2>1, <2>2, <2>8 DEF AwaitInv, VersionPending
  <2>9. ASSUME ~modemGhost'.late PROVE MapInv' /\ StartedInv' BY <1>1, <2>1, <2>9 DEF MapInv, StartedInv
  <2> QED BY <2>3, <2>4, <2>5, <2>6, <2>7, <2>8, <2>9
<1> QED BY <1>1, <1>2, <1>3, <1>5, <1>6, <1>7, <1>4 DEF Messages, Answers

LEMMA FirmwareFailsStep == ASSUME ModemInv, FirmwareFails PROVE ModemInv'
<1> USE DEF ModemInv, ModemTypes, ModemRest, FwRec, RxRec, CallerRec, GhostRec, Fine, Except, DumpDone, Blocked
<1>1. CASE fw.state \in {"booting", "up"} /\ Says("BSPASSERT") /\ fw' = [fw EXCEPT !.state = "dumping"]
  <2>1. /\ fw.state \in {"booting", "up"}
        /\ fw' \in FwRec /\ fw'.state = "dumping" /\ fw'.services = fw.services /\ fw'.inbox = fw.inbox
        /\ UNCHANGED <<cp_state, service_state_map, download_done, except_mutex, except_work, rx, hostAssert, caller>>
    BY <1>1 DEF FirmwareFails, FwUnchanged, Platform, Actors
  <2>2. modemGhost' \in GhostRec /\ modemGhost'.late = modemGhost.late /\ modemGhost'.started = modemGhost.started
    BY <1>1 DEF FirmwareFails
  <2>3. /\ toHost' \in Seq(Messages) /\ toHost' # <<>> /\ Of(toHost') = Of(toHost) \cup {"BSPASSERT"}
        /\ HostOrder(toHost) /\ "DUMPDONE" \notin Of(toHost) /\ "BSPASSERT" \notin Of(toHost) => HostOrder(toHost')
    BY <1>1, SaysMessage DEF Says, Messages
  <2>4. ModemTypes' BY <2>1, <2>2, <2>3
  <2>5. CallerInv' /\ ModemOneRecovery' BY <2>1, <2>2 DEF CallerInv, ModemOneRecovery
  <2>6. ASSUME ~modemGhost'.late PROVE QueueInv' BY <2>1, <2>2, <2>3, <2>6 DEF QueueInv
  <2>7. ASSUME ~modemGhost'.late PROVE EpochInv' BY <2>1, <2>2, <2>3, <2>7, Different DEF EpochInv, VersionPending
  <2>8. ASSUME ~modemGhost'.late PROVE RecoveryInv' BY <2>1, <2>2, <2>3, <2>8 DEF RecoveryInv, VersionPending
  <2>9. ASSUME ~modemGhost'.late PROVE AwaitInv'
    BY <2>1, <2>2, <2>3, <2>9, Different DEF AwaitInv, Call, Reply, VersionPending
  <2>10. ASSUME ~modemGhost'.late PROVE MapInv' /\ StartedInv' BY <2>1, <2>2, <2>10 DEF MapInv, StartedInv
  <2> QED BY <2>4, <2>5, <2>6, <2>7, <2>8, <2>9, <2>10
<1>2. CASE fw.state \in {"booting", "up", "dumping"} /\ fw' = [fw EXCEPT !.state = "hung"]
  <2>1. /\ fw.state \in {"booting", "up", "dumping"}
        /\ fw' \in FwRec /\ fw'.state = "hung" /\ fw'.services = fw.services /\ fw'.inbox = fw.inbox
        /\ UNCHANGED <<cp_state, service_state_map, download_done, except_mutex, except_work, rx, hostAssert, caller>>
    BY <1>2 DEF FirmwareFails, FwUnchanged, Platform, Actors
  <2>2. modemGhost' \in GhostRec /\ modemGhost'.late = modemGhost.late /\ modemGhost'.started = modemGhost.started
          /\ toHost' = toHost
    BY <1>2 DEF FirmwareFails
  <2>3. ModemTypes' BY <2>1, <2>2
  <2>4. CallerInv' /\ ModemOneRecovery' BY <2>1 DEF CallerInv, ModemOneRecovery
  <2>5. ASSUME ~modemGhost'.late PROVE QueueInv' BY <2>1, <2>2, <2>5 DEF QueueInv
  <2>6. ASSUME ~modemGhost'.late PROVE EpochInv' BY <2>1, <2>2, <2>6 DEF EpochInv, VersionPending
  <2>7. ASSUME ~modemGhost'.late PROVE RecoveryInv' BY <2>1, <2>2, <2>7 DEF RecoveryInv, VersionPending
  <2>8. ASSUME ~modemGhost'.late PROVE AwaitInv' BY <2>1, <2>2, <2>8 DEF AwaitInv, Call, Reply, VersionPending
  <2>9. ASSUME ~modemGhost'.late PROVE MapInv' /\ StartedInv' BY <2>1, <2>2, <2>9 DEF MapInv, StartedInv
  <2> QED BY <2>3, <2>4, <2>5, <2>6, <2>7, <2>8, <2>9
<1> QED BY <1>1, <1>2 DEF FirmwareFails

LEMMA RxVersionStep == ASSUME ModemInv, RxVersion PROVE ModemInv'
<1> USE DEF ModemInv, ModemTypes, ModemRest, FwRec, RxRec, CallerRec, GhostRec, Fine, Except, DumpDone, Blocked
<1>1. /\ rx.pc = "version" /\ cp_state' = Fine /\ rx' \in RxRec /\ rx'.pc = "idle"
      /\ download_done' = IF cp_state = Fine THEN download_done + 1 ELSE download_done
      /\ UNCHANGED <<service_state_map, except_mutex, except_work, hostAssert, caller, fw, toHost, modemGhost>>
  BY DEF RxVersion, RxAt, RxDone, Resting
<1>2. ModemTypes' BY <1>1
<1>3. CallerInv' /\ ModemOneRecovery' BY <1>1 DEF CallerInv, ModemOneRecovery
<1>4. ASSUME ~modemGhost'.late PROVE QueueInv' BY <1>1, <1>4 DEF QueueInv
<1>5. ASSUME ~modemGhost'.late PROVE EpochInv' BY <1>1, <1>5 DEF EpochInv, VersionPending, QueueInv
<1>6. ASSUME ~modemGhost'.late PROVE RecoveryInv' BY <1>1, <1>6 DEF RecoveryInv, EpochInv, VersionPending
<1>7. ASSUME ~modemGhost'.late PROVE AwaitInv' BY <1>1, <1>7 DEF AwaitInv, VersionPending
<1>8. ASSUME ~modemGhost'.late PROVE MapInv' /\ StartedInv'
  BY <1>1, <1>8 DEF MapInv, StartedInv, EpochInv, VersionPending
<1> QED BY <1>2, <1>3, <1>4, <1>5, <1>6, <1>7, <1>8

LEMMA RxAssertStep == ASSUME ModemInv, RxAssert PROVE ModemInv'
<1> USE DEF ModemInv, ModemTypes, ModemRest, FwRec, RxRec, CallerRec, GhostRec, Fine, Except, DumpDone, Blocked
<1>1. /\ rx.pc = "assert" /\ except_mutex = "free"
      /\ UNCHANGED <<service_state_map, download_done, except_mutex, except_work, hostAssert, caller, fw, toHost,
                     modemGhost>>
      /\ \/ cp_state = Blocked /\ cp_state' = cp_state /\ rx' \in RxRec /\ rx'.pc = "idle"
         \/ cp_state # Blocked /\ cp_state' = Except /\ rx' \in RxRec /\ rx'.pc = "asserted"
  BY DEF RxAssert, RxAt, RxDone, RxGoes, Resting, Platform, Actors, World
<1>2. ModemTypes' BY <1>1
<1>3. CallerInv' /\ ModemOneRecovery' BY <1>1 DEF CallerInv, ModemOneRecovery
<1>4. ASSUME ~modemGhost'.late PROVE QueueInv' BY <1>1, <1>4 DEF QueueInv
<1>5. ASSUME ~modemGhost'.late PROVE EpochInv' BY <1>1, <1>5 DEF EpochInv, VersionPending
<1>6. ASSUME ~modemGhost'.late PROVE RecoveryInv' BY <1>1, <1>6 DEF RecoveryInv, VersionPending, CallerInv
<1>7. ASSUME ~modemGhost'.late PROVE AwaitInv' BY <1>1, <1>7 DEF AwaitInv, Call, Reply, VersionPending
<1>8. ASSUME ~modemGhost'.late PROVE MapInv' /\ StartedInv' BY <1>1, <1>8 DEF MapInv, StartedInv
<1> QED BY <1>2, <1>3, <1>4, <1>5, <1>6, <1>7, <1>8

LEMMA RxAssertedStep == ASSUME ModemInv, RxAsserted PROVE ModemInv'
<1> USE DEF ModemInv, ModemTypes, ModemRest, FwRec, RxRec, CallerRec, GhostRec, Fine, Except, DumpDone, Blocked
<1>1. /\ rx.pc = "asserted" /\ service_state_map' = {} /\ rx' \in RxRec /\ rx'.pc = "idle"
      /\ UNCHANGED <<cp_state, download_done, except_mutex, except_work, hostAssert, caller, fw, toHost, modemGhost>>
  BY DEF RxAsserted, RxAt, RxDone, Resting
<1>2. ModemTypes' BY <1>1
<1>3. CallerInv' /\ ModemOneRecovery' BY <1>1 DEF CallerInv, ModemOneRecovery
<1>4. ASSUME ~modemGhost'.late PROVE QueueInv' BY <1>1, <1>4 DEF QueueInv
<1>5. ASSUME ~modemGhost'.late PROVE EpochInv' BY <1>1, <1>5 DEF EpochInv, VersionPending
<1>6. ASSUME ~modemGhost'.late PROVE RecoveryInv' BY <1>1, <1>6 DEF RecoveryInv, VersionPending
<1>7. ASSUME ~modemGhost'.late PROVE AwaitInv' BY <1>1, <1>7 DEF AwaitInv, RecoveryInv
<1>8. ASSUME ~modemGhost'.late PROVE MapInv' /\ StartedInv' BY <1>1, <1>8 DEF MapInv, StartedInv, RecoveryInv
<1> QED BY <1>2, <1>3, <1>4, <1>5, <1>6, <1>7, <1>8

LEMMA RxDumpDoneStep == ASSUME ModemInv, RxDumpDone PROVE ModemInv'
<1> USE DEF ModemInv, ModemTypes, ModemRest, FwRec, RxRec, CallerRec, GhostRec, Fine, Except, DumpDone, Blocked
<1>1. /\ rx.pc = "dumpdone" /\ except_mutex = "free"
      /\ UNCHANGED <<service_state_map, download_done, except_mutex, except_work, hostAssert, caller, fw, toHost,
                     modemGhost>>
      /\ \/ cp_state = Blocked /\ cp_state' = cp_state /\ rx' \in RxRec /\ rx'.pc = "idle"
         \/ cp_state # Blocked /\ cp_state' = DumpDone /\ rx' \in RxRec /\ rx'.pc = "cancel"
  BY DEF RxDumpDone, RxAt, RxDone, RxGoes, Resting, Platform, Actors, World
<1>2. ModemTypes' BY <1>1
<1>3. CallerInv' /\ ModemOneRecovery' BY <1>1 DEF CallerInv, ModemOneRecovery
<1>4. ASSUME ~modemGhost'.late PROVE QueueInv' BY <1>1, <1>4 DEF QueueInv
<1>5. ASSUME ~modemGhost'.late PROVE EpochInv' BY <1>1, <1>5 DEF EpochInv, VersionPending
<1>6. ASSUME ~modemGhost'.late PROVE RecoveryInv' BY <1>1, <1>6 DEF RecoveryInv, VersionPending, CallerInv
<1>7. ASSUME ~modemGhost'.late PROVE AwaitInv' BY <1>1, <1>7 DEF AwaitInv, Call, Reply, VersionPending
<1>8. ASSUME ~modemGhost'.late PROVE MapInv' /\ StartedInv' BY <1>1, <1>8 DEF MapInv, StartedInv
<1> QED BY <1>2, <1>3, <1>4, <1>5, <1>6, <1>7, <1>8

LEMMA RxCancelsStep == ASSUME ModemInv, RxCancels PROVE ModemInv'
<1> USE DEF ModemInv, ModemTypes, ModemRest, FwRec, RxRec, CallerRec, GhostRec, Fine, Except, DumpDone, Blocked
<1>1. /\ rx.pc = "cancel" /\ except_work \in {"idle", "queued"} /\ except_work' = "idle" /\ rx' \in RxRec
      /\ rx'.pc = "reset"
      /\ UNCHANGED <<cp_state, service_state_map, download_done, except_mutex, hostAssert, caller, fw, toHost,
                     modemGhost>>
  BY DEF RxCancels, RxAt, RxGoes, Platform, Actors, World
<1>2. ModemTypes' BY <1>1
<1>3. CallerInv' /\ ModemOneRecovery' BY <1>1 DEF CallerInv, ModemOneRecovery
<1>4. ASSUME ~modemGhost'.late PROVE QueueInv' BY <1>1, <1>4 DEF QueueInv
<1>5. ASSUME ~modemGhost'.late PROVE EpochInv' BY <1>1, <1>5 DEF EpochInv, VersionPending
<1>6. ASSUME ~modemGhost'.late PROVE RecoveryInv' BY <1>1, <1>6 DEF RecoveryInv
<1>7. ASSUME ~modemGhost'.late PROVE AwaitInv' BY <1>1, <1>7 DEF AwaitInv, Call, Reply, VersionPending
<1>8. ASSUME ~modemGhost'.late PROVE MapInv' /\ StartedInv' BY <1>1, <1>8 DEF MapInv, StartedInv
<1> QED BY <1>2, <1>3, <1>4, <1>5, <1>6, <1>7, <1>8

LEMMA RxRecoversStep == ASSUME ModemInv, RxRecovers PROVE ModemInv'
<1> USE DEF ModemInv, ModemTypes, ModemRest, FwRec, RxRec, CallerRec, GhostRec, Fine, Except, DumpDone, Blocked
<1>1. /\ UNCHANGED <<cp_state, service_state_map, download_done, except_mutex, except_work, hostAssert, caller>>
      /\ modemGhost' \in GhostRec /\ modemGhost'.late = modemGhost.late /\ modemGhost'.started = modemGhost.started
  BY DEF RxRecovers, skw_sdio_cp_reset, skw_sdio_boot_cp, GivenUp, Platform, Actors, World
<1>2. CASE rx.pc \in {"reset", "load"} /\ rx' \in RxRec /\ rx'.pc = "idle" /\ fw' = fw /\ toHost' = toHost
  <2>1. rx.pc \in {"reset", "load"} /\ rx' \in RxRec /\ rx'.pc = "idle" /\ fw' = fw /\ toHost' = toHost
    BY <1>1, <1>2
  <2>2. ModemTypes' BY <1>1, <2>1
  <2>3. CallerInv' /\ ModemOneRecovery' BY <1>1, <2>1 DEF CallerInv, ModemOneRecovery
  <2>4. ASSUME ~modemGhost'.late PROVE QueueInv' BY <1>1, <2>1, <2>4 DEF QueueInv
  <2>5. ASSUME ~modemGhost'.late PROVE EpochInv' BY <1>1, <2>1, <2>5 DEF EpochInv, VersionPending
  <2>6. ASSUME ~modemGhost'.late PROVE RecoveryInv' BY <1>1, <2>1, <2>6 DEF RecoveryInv, VersionPending
  <2>7. ASSUME ~modemGhost'.late PROVE AwaitInv' BY <1>1, <2>1, <2>7 DEF AwaitInv, Call, Reply, VersionPending
  <2>8. ASSUME ~modemGhost'.late PROVE MapInv' /\ StartedInv' BY <1>1, <2>1, <2>8 DEF MapInv, StartedInv
  <2> QED BY <2>2, <2>3, <2>4, <2>5, <2>6, <2>7, <2>8
<1>3. CASE rx.pc = "reset" /\ cp_state # Blocked /\ rx' \in RxRec /\ rx'.pc = "load" /\ fw' \in FwRec
        /\ fw'.state = "off" /\ fw'.services = {} /\ fw'.inbox = <<>> /\ toHost' = <<>>
  <2>1. rx.pc = "reset" /\ cp_state # Blocked /\ rx' \in RxRec /\ rx'.pc = "load" /\ fw' \in FwRec
          /\ fw'.state = "off" /\ fw'.services = {} /\ fw'.inbox = <<>> /\ toHost' = <<>>
    BY <1>1, <1>3
  <2>2. ModemTypes' BY <1>1, <2>1
  <2>3. CallerInv' /\ ModemOneRecovery' BY <1>1, <2>1 DEF CallerInv, ModemOneRecovery
  <2>4. ASSUME ~modemGhost'.late PROVE QueueInv' BY <1>1, <2>1, <2>4, OfEmpty DEF QueueInv
  <2>5. ASSUME ~modemGhost'.late PROVE EpochInv' BY <1>1, <2>1, <2>5, OfEmpty DEF EpochInv, RecoveryInv
  <2>6. ASSUME ~modemGhost'.late PROVE RecoveryInv' BY <1>1, <2>1, <2>6 DEF RecoveryInv
  <2>7. ASSUME ~modemGhost'.late PROVE AwaitInv' BY <1>1, <2>1, <2>7, OfEmpty DEF AwaitInv, VersionPending
  <2>8. ASSUME ~modemGhost'.late PROVE MapInv' /\ StartedInv' BY <1>1, <2>1, <2>8 DEF MapInv, StartedInv, RecoveryInv
  <2> QED BY <2>2, <2>3, <2>4, <2>5, <2>6, <2>7, <2>8
<1>4. CASE rx.pc = "load" /\ rx' \in RxRec /\ rx'.pc = "idle" /\ fw' = [fw EXCEPT !.state = "loaded"]
        /\ toHost' = toHost
  <2>1. /\ rx.pc = "load" /\ rx' \in RxRec /\ rx'.pc = "idle" /\ toHost' = toHost
        /\ fw' \in FwRec /\ fw'.state = "loaded" /\ fw'.services = fw.services /\ fw'.inbox = fw.inbox
    BY <1>1, <1>4
  <2>2. ModemTypes' BY <1>1, <2>1
  <2>3. CallerInv' /\ ModemOneRecovery' BY <1>1, <2>1 DEF CallerInv, ModemOneRecovery
  <2>4. ASSUME ~modemGhost'.late PROVE QueueInv' BY <1>1, <2>1, <2>4 DEF QueueInv, RecoveryInv
  <2>5. ASSUME ~modemGhost'.late PROVE EpochInv' BY <1>1, <2>1, <2>5, OfEmpty DEF EpochInv, QueueInv, RecoveryInv
  <2>6. ASSUME ~modemGhost'.late PROVE RecoveryInv' BY <1>1, <2>1, <2>6 DEF RecoveryInv
  <2>7. ASSUME ~modemGhost'.late PROVE AwaitInv' BY <1>1, <2>1, <2>7 DEF AwaitInv, RecoveryInv
  <2>8. ASSUME ~modemGhost'.late PROVE MapInv' /\ StartedInv' BY <1>1, <2>1, <2>8 DEF MapInv, StartedInv
  <2> QED BY <2>2, <2>3, <2>4, <2>5, <2>6, <2>7, <2>8
<1>5. \/ rx.pc \in {"reset", "load"} /\ rx' \in RxRec /\ rx'.pc = "idle" /\ fw' = fw /\ toHost' = toHost
      \/ rx.pc = "reset" /\ cp_state # Blocked /\ rx' \in RxRec /\ rx'.pc = "load" /\ fw' \in FwRec
           /\ fw'.state = "off" /\ fw'.services = {} /\ fw'.inbox = <<>> /\ toHost' = <<>>
      \/ rx.pc = "load" /\ rx' \in RxRec /\ rx'.pc = "idle" /\ fw' = [fw EXCEPT !.state = "loaded"]
           /\ toHost' = toHost
  <2>1. CASE RxAt("reset") /\ cp_state = Blocked /\ RxDone /\ UNCHANGED <<fw, toHost>>
    BY <2>1 DEF RxAt, RxDone, Resting
  <2>2. CASE RxAt("reset") /\ cp_state # Blocked /\ skw_sdio_cp_reset(RxGoes("load"), RxDone)
    <3>1. CASE RxGoes("load") /\ fw' = [state |-> "off", services |-> {}, inbox |-> <<>>] /\ toHost' = <<>>
      <4>1. rx' \in RxRec /\ rx'.pc = "load" BY <3>1 DEF RxGoes
      <4> QED BY <2>2, <3>1, <4>1, ResetFirmware DEF RxAt
    <3>2. CASE RxDone /\ UNCHANGED <<fw, toHost>> BY <2>2, <3>2 DEF RxAt, RxDone, Resting
    <3> QED BY <2>2, <3>1, <3>2 DEF skw_sdio_cp_reset
  <2>3. CASE RxAt("load") /\ skw_sdio_boot_cp(RxDone, RxDone) /\ UNCHANGED toHost
    BY <2>3 DEF RxAt, RxDone, Resting, skw_sdio_boot_cp
  <2> QED BY <2>1, <2>2, <2>3 DEF RxRecovers
<1> QED BY <1>2, <1>3, <1>4, <1>5

LEMMA WorkRunsStep == ASSUME ModemInv, WorkRuns PROVE ModemInv'
<1> USE DEF ModemInv, ModemTypes, ModemRest, FwRec, RxRec, CallerRec, GhostRec, Fine, Except, DumpDone, Blocked
<1>1. /\ except_work = "queued" /\ except_mutex = "free" /\ ~UnderWay
      /\ UNCHANGED <<service_state_map, download_done, except_mutex, rx, hostAssert, caller, fw, toHost, modemGhost>>
      /\ \/ cp_state = Except /\ cp_state' = Blocked /\ except_work' = "blocked"
         \/ cp_state # Except /\ cp_state' = cp_state /\ except_work' = "idle"
  BY DEF WorkRuns, Platform, Actors, World
<1>2. hostAssert = "idle" /\ rx.pc \notin {"reset", "load", "version"} /\ fw.state \notin {"loaded", "booting"}
        /\ "trunk_W" \notin Of(toHost)
  BY <1>1 DEF UnderWay, Of
<1>3. ModemTypes' BY <1>1
<1>4. CallerInv' /\ ModemOneRecovery' BY <1>1, <1>2 DEF CallerInv, ModemOneRecovery
<1>5. ASSUME ~modemGhost'.late PROVE QueueInv' BY <1>1, <1>5 DEF QueueInv
<1>6. ASSUME ~modemGhost'.late PROVE EpochInv' BY <1>1, <1>6 DEF EpochInv, VersionPending
<1>7. ASSUME ~modemGhost'.late PROVE RecoveryInv' BY <1>1, <1>2, <1>7 DEF RecoveryInv, VersionPending, CallerInv
<1>8. ASSUME ~modemGhost'.late PROVE AwaitInv' BY <1>1, <1>8 DEF AwaitInv, Call, Reply, VersionPending
<1>9. ASSUME ~modemGhost'.late PROVE MapInv' /\ StartedInv' BY <1>1, <1>9 DEF MapInv, StartedInv
<1> QED BY <1>3, <1>4, <1>5, <1>6, <1>7, <1>8, <1>9

LEMMA WorkBlockedStep == ASSUME ModemInv, WorkBlocked PROVE ModemInv'
<1> USE DEF ModemInv, ModemTypes, ModemRest, FwRec, RxRec, CallerRec, GhostRec, Fine, Except, DumpDone, Blocked
<1>0. /\ except_work = "blocked"
      /\ \/ except_work' = "reset" /\ service_state_map' = {} /\ modemGhost' = modemGhost
         \/ except_work' = "idle" /\ service_state_map' = service_state_map
            /\ modemGhost' = [modemGhost EXCEPT !.lost = TRUE]
      /\ UNCHANGED <<cp_state, download_done, except_mutex, rx, hostAssert, caller, fw, toHost>>
  BY ONLY WorkBlocked DEF WorkBlocked, GivenUp
<1>1. /\ except_work = "blocked"
      /\ \/ except_work' = "reset" /\ service_state_map' = {}
         \/ except_work' = "idle" /\ service_state_map' = service_state_map
      /\ modemGhost' \in GhostRec /\ modemGhost'.late = modemGhost.late /\ modemGhost'.started = modemGhost.started
      /\ UNCHANGED <<cp_state, download_done, except_mutex, rx, hostAssert, caller, fw, toHost>>
  <2>1. modemGhost \in GhostRec OBVIOUS
  <2> QED BY ONLY <1>0, <2>1 DEF GhostRec
<1>2. ModemTypes' BY <1>1
<1>3. CallerInv' /\ ModemOneRecovery' BY <1>1 DEF CallerInv, ModemOneRecovery
<1>4. ASSUME ~modemGhost'.late PROVE QueueInv' BY <1>1, <1>4 DEF QueueInv
<1>5. ASSUME ~modemGhost'.late PROVE EpochInv' BY <1>1, <1>5 DEF EpochInv, VersionPending
<1>6. ASSUME ~modemGhost'.late PROVE RecoveryInv' BY <1>1, <1>6 DEF RecoveryInv, VersionPending
<1>7. ASSUME ~modemGhost'.late PROVE AwaitInv' BY <1>1, <1>7 DEF AwaitInv, RecoveryInv
<1>8. ASSUME ~modemGhost'.late PROVE MapInv' /\ StartedInv' BY <1>1, <1>8 DEF MapInv, StartedInv, RecoveryInv
<1> QED BY <1>2, <1>3, <1>4, <1>5, <1>6, <1>7, <1>8

LEMMA WorkRecoversStep == ASSUME ModemInv, WorkRecovers PROVE ModemInv'
<1> USE DEF ModemInv, ModemTypes, ModemRest, FwRec, RxRec, CallerRec, GhostRec, Fine, Except, DumpDone, Blocked
<1>1. /\ UNCHANGED <<cp_state, service_state_map, download_done, except_mutex, rx, hostAssert, caller>>
      /\ modemGhost' \in GhostRec /\ modemGhost'.late = modemGhost.late /\ modemGhost'.started = modemGhost.started
  BY DEF WorkRecovers, skw_sdio_cp_reset, skw_sdio_boot_cp, GivenUp, Platform, Actors, World
<1>2. CASE except_work \in {"reset", "load"} /\ except_work' = "idle" /\ fw' = fw /\ toHost' = toHost
  <2>1. except_work \in {"reset", "load"} /\ except_work' = "idle" /\ fw' = fw /\ toHost' = toHost
    BY <1>1, <1>2
  <2>2. ModemTypes' BY <1>1, <2>1
  <2>3. CallerInv' /\ ModemOneRecovery' BY <1>1, <2>1 DEF CallerInv, ModemOneRecovery
  <2>4. ASSUME ~modemGhost'.late PROVE QueueInv' BY <1>1, <2>1, <2>4 DEF QueueInv
  <2>5. ASSUME ~modemGhost'.late PROVE EpochInv' BY <1>1, <2>1, <2>5 DEF EpochInv, VersionPending
  <2>6. ASSUME ~modemGhost'.late PROVE RecoveryInv' BY <1>1, <2>1, <2>6 DEF RecoveryInv
  <2>7. ASSUME ~modemGhost'.late PROVE AwaitInv' BY <1>1, <2>1, <2>7 DEF AwaitInv, Call, Reply, VersionPending
  <2>8. ASSUME ~modemGhost'.late PROVE MapInv' /\ StartedInv' BY <1>1, <2>1, <2>8 DEF MapInv, StartedInv
  <2> QED BY <2>2, <2>3, <2>4, <2>5, <2>6, <2>7, <2>8
<1>3. CASE except_work = "reset" /\ except_work' = "load" /\ fw' \in FwRec /\ fw'.state = "off"
        /\ fw'.services = {} /\ fw'.inbox = <<>> /\ toHost' = <<>>
  <2>1. except_work = "reset" /\ except_work' = "load" /\ fw' \in FwRec /\ fw'.state = "off" /\ fw'.services = {}
          /\ fw'.inbox = <<>> /\ toHost' = <<>>
    BY <1>1, <1>3
  <2>2. HostOrder(<<>>) /\ Then(<<>>, {Version} \cup Answered, {Assert})
    BY OfEmpty
  <2>3. ModemTypes' BY <1>1, <2>1
  <2>4. CallerInv' /\ ModemOneRecovery' BY <1>1, <2>1 DEF CallerInv, ModemOneRecovery
  <2>5. ASSUME ~modemGhost'.late PROVE QueueInv'
    BY <1>1, <2>1, <2>5, OfEmpty DEF QueueInv, RecoveryInv, VersionPending
  <2>6. ASSUME ~modemGhost'.late PROVE EpochInv' BY <1>1, <2>1, <2>6, OfEmpty DEF EpochInv, RecoveryInv
  <2>7. ASSUME ~modemGhost'.late PROVE RecoveryInv' BY <1>1, <2>1, <2>7, OfEmpty DEF RecoveryInv, VersionPending
  <2>8. ASSUME ~modemGhost'.late PROVE AwaitInv' BY <1>1, <2>1, <2>8, OfEmpty DEF AwaitInv, VersionPending
  <2>9. ASSUME ~modemGhost'.late PROVE MapInv' /\ StartedInv' BY <1>1, <2>1, <2>9 DEF MapInv, StartedInv, RecoveryInv
  <2> QED BY <2>3, <2>4, <2>5, <2>6, <2>7, <2>8, <2>9
<1>4. CASE except_work = "load" /\ except_work' = "idle" /\ fw' = [fw EXCEPT !.state = "loaded"] /\ toHost' = toHost
  <2>1. /\ except_work = "load" /\ except_work' = "idle" /\ toHost' = toHost
        /\ fw' \in FwRec /\ fw'.state = "loaded" /\ fw'.services = fw.services /\ fw'.inbox = fw.inbox
    BY <1>1, <1>4
  <2>2. ModemTypes' BY <1>1, <2>1
  <2>3. CallerInv' /\ ModemOneRecovery' BY <1>1, <2>1 DEF CallerInv, ModemOneRecovery
  <2>4. ASSUME ~modemGhost'.late PROVE QueueInv' BY <1>1, <2>1, <2>4 DEF QueueInv, RecoveryInv
  <2>5. ASSUME ~modemGhost'.late PROVE EpochInv' BY <1>1, <2>1, <2>5, OfEmpty DEF EpochInv, QueueInv, RecoveryInv
  <2>6. ASSUME ~modemGhost'.late PROVE RecoveryInv' BY <1>1, <2>1, <2>6 DEF RecoveryInv
  <2>7. ASSUME ~modemGhost'.late PROVE AwaitInv' BY <1>1, <2>1, <2>7 DEF AwaitInv, RecoveryInv
  <2>8. ASSUME ~modemGhost'.late PROVE MapInv' /\ StartedInv' BY <1>1, <2>1, <2>8 DEF MapInv, StartedInv
  <2> QED BY <2>2, <2>3, <2>4, <2>5, <2>6, <2>7, <2>8
<1>5. \/ except_work \in {"reset", "load"} /\ except_work' = "idle" /\ fw' = fw /\ toHost' = toHost
      \/ except_work = "reset" /\ except_work' = "load" /\ fw' \in FwRec /\ fw'.state = "off" /\ fw'.services = {}
           /\ fw'.inbox = <<>> /\ toHost' = <<>>
      \/ except_work = "load" /\ except_work' = "idle" /\ fw' = [fw EXCEPT !.state = "loaded"] /\ toHost' = toHost
  <2>1. CASE except_work = "reset" /\ skw_sdio_cp_reset(WorkGoes("load"), WorkGoes("idle"))
    BY <2>1, ResetFirmware DEF WorkGoes, skw_sdio_cp_reset
  <2>2. CASE except_work = "load" /\ skw_sdio_boot_cp(WorkGoes("idle"), WorkGoes("idle")) /\ UNCHANGED toHost
    BY <2>2 DEF WorkGoes, skw_sdio_boot_cp
  <2> QED BY <2>1, <2>2 DEF WorkRecovers
<1> QED BY <1>2, <1>3, <1>4, <1>5

LEMMA HostDecidesStep == ASSUME ModemInv, HostDecides PROVE ModemInv'
<1> USE DEF ModemInv, ModemTypes, ModemRest, FwRec, RxRec, CallerRec, GhostRec, Fine, Except, DumpDone, Blocked
<1>1. /\ bound /\ hostAssert = "idle" /\ hostAssert' = IF cp_state = Fine THEN "decided" ELSE "idle"
      /\ UNCHANGED <<cp_state, service_state_map, download_done, except_mutex, except_work, rx, caller, fw, toHost,
                     modemGhost>>
  BY DEF HostDecides, Platform
<1>2. ModemTypes' BY <1>1
<1>3. CallerInv' /\ ModemOneRecovery' BY <1>1 DEF CallerInv, ModemOneRecovery
<1>4. ASSUME ~modemGhost'.late PROVE QueueInv' BY <1>1, <1>4 DEF QueueInv
<1>5. ASSUME ~modemGhost'.late PROVE EpochInv' BY <1>1, <1>5 DEF EpochInv, VersionPending
<1>6. ASSUME ~modemGhost'.late PROVE RecoveryInv' BY <1>1, <1>6 DEF RecoveryInv, VersionPending
<1>7. ASSUME ~modemGhost'.late PROVE AwaitInv' BY <1>1, <1>7 DEF AwaitInv, Call, Reply, VersionPending
<1>8. ASSUME ~modemGhost'.late PROVE MapInv' /\ StartedInv' BY <1>1, <1>8 DEF MapInv, StartedInv
<1> QED BY <1>2, <1>3, <1>4, <1>5, <1>6, <1>7, <1>8

LEMMA AssertCommandStep == ASSUME ModemInv, send_modem_assert_command PROVE ModemInv'
<1> USE DEF ModemInv, ModemTypes, ModemRest, FwRec, RxRec, CallerRec, GhostRec, Fine, Except, DumpDone, Blocked
<1>1. /\ hostAssert = "decided" /\ hostAssert' = "idle" /\ cp_state' = Except
      /\ except_work' = IF except_work = "idle" THEN "queued" ELSE except_work
      /\ UNCHANGED <<service_state_map, download_done, except_mutex, rx, caller, toHost, modemGhost>>
      /\ Call' = Call /\ Reply' = Reply
  BY DEF Call, Reply, send_modem_assert_command, Asked, Assert, Platform
<1>2. CASE fw' = fw
  <2>1. fw' = fw
    BY <1>1, <1>2
  <2>2. ModemTypes' BY <1>1, <2>1
  <2>3. CallerInv' /\ ModemOneRecovery' BY <1>1 DEF CallerInv, ModemOneRecovery
  <2>4. ASSUME ~modemGhost'.late PROVE QueueInv' BY <1>1, <2>1, <2>4 DEF QueueInv
  <2>5. ASSUME ~modemGhost'.late PROVE EpochInv' BY <1>1, <2>1, <2>5 DEF EpochInv, VersionPending
  <2>6. ASSUME ~modemGhost'.late PROVE RecoveryInv' BY <1>1, <2>1, <2>6 DEF RecoveryInv
  <2>7. ASSUME ~modemGhost'.late PROVE AwaitInv' BY <1>1, <2>1, <2>7 DEF AwaitInv, VersionPending
  <2>8. ASSUME ~modemGhost'.late PROVE MapInv' /\ StartedInv' BY <1>1, <2>8 DEF MapInv, StartedInv
  <2> QED BY <2>2, <2>3, <2>4, <2>5, <2>6, <2>7, <2>8
<1>3. CASE fw.state \in {"booting", "up"} /\ fw' = [fw EXCEPT !.inbox = Append(@, Assert)]
  <2>1. /\ fw.state \in {"booting", "up"}
        /\ fw.inbox \in Seq(Commands) /\ Assert \in Commands /\ fw'.inbox = Append(fw.inbox, Assert)
    BY <1>1, <1>3, Different
  <2>2. /\ fw'.inbox \in Seq(Commands) /\ Of(fw'.inbox) = Of(fw.inbox) \cup {Assert}
        /\ Then(fw.inbox, {Version} \cup Answered, {Assert}) => Then(fw'.inbox, {Version} \cup Answered, {Assert})
    BY ONLY <2>1, PutsCommand
  <2>3. fw' \in FwRec /\ fw'.state = fw.state /\ fw'.services = fw.services
    BY <1>1, <1>3, <2>1, <2>2
  <2>4. VersionPending' = VersionPending /\ (caller.pc = "await" => Call # Assert)
    BY <1>1, <2>1, <2>3 DEF VersionPending, CallerInv, Call, Assert
  <2>5. ModemTypes' BY <1>1, <2>1, <2>3
  <2>6. CallerInv' /\ ModemOneRecovery' BY <1>1, <2>1, <2>3 DEF CallerInv, ModemOneRecovery
  <2>7. ASSUME ~modemGhost'.late PROVE QueueInv' BY <1>1, <2>1, <2>2, <2>3, <2>7, Different DEF QueueInv
  <2>8. ASSUME ~modemGhost'.late PROVE EpochInv' BY <1>1, <2>2, <2>3, <2>4, <2>8 DEF EpochInv
  <2>9. ASSUME ~modemGhost'.late PROVE RecoveryInv' BY <1>1, <2>1, <2>3, <2>9 DEF RecoveryInv
  <2>10. ASSUME ~modemGhost'.late PROVE AwaitInv' BY <1>1, <2>2, <2>3, <2>4, <2>10, Different DEF AwaitInv
  <2>11. ASSUME ~modemGhost'.late PROVE MapInv' /\ StartedInv' BY <1>1, <2>1, <2>3, <2>11 DEF MapInv, StartedInv
  <2> QED BY <2>5, <2>6, <2>7, <2>8, <2>9, <2>10, <2>11
<1> QED BY <1>1, <1>2, <1>3 DEF send_modem_assert_command, Asked, Assert, Platform

LEMMA FirstLoadsStep == ASSUME ModemInv, FirstLoads PROVE ModemInv'
<1> USE DEF ModemInv, ModemTypes, ModemRest, FwRec, RxRec, CallerRec, GhostRec, Fine, Except, DumpDone, Blocked
<1>1. /\ caller.op = "first" /\ caller.pc = "load"
      /\ UNCHANGED <<cp_state, service_state_map, download_done, except_mutex, except_work, rx, hostAssert, toHost>>
      /\ modemGhost' \in GhostRec /\ modemGhost'.late = modemGhost.late /\ modemGhost'.started = modemGhost.started
  BY DEF FirstLoads, skw_sdio_boot_cp, Platform, Actors, World
<1>2. CASE CallerGoes("wait") /\ fw' = [fw EXCEPT !.state = "loaded"]
  <2>1. caller' \in CallerRec /\ caller'.pc = "wait" /\ caller'.op = caller.op /\ caller'.s = caller.s
    BY <1>1, <1>2 DEF CallerGoes
  <2>2. fw' \in FwRec /\ fw'.state = "loaded" /\ fw'.services = fw.services /\ fw'.inbox = fw.inbox
    BY <1>1, <1>2
  <2>3. ModemTypes' BY <1>1, <2>1, <2>2
  <2>4. CallerInv' /\ ModemOneRecovery' BY <1>1, <2>1 DEF CallerInv, ModemOneRecovery
  <2>5. ASSUME ~modemGhost'.late PROVE QueueInv' BY <1>1, <2>2, <2>5 DEF QueueInv, CallerInv
  <2>6. ASSUME ~modemGhost'.late PROVE EpochInv' BY <1>1, <2>1, <2>2, <2>6, OfEmpty DEF EpochInv, QueueInv, CallerInv
  <2>7. ASSUME ~modemGhost'.late PROVE RecoveryInv' BY <1>1, <2>2, <2>7 DEF RecoveryInv, CallerInv
  <2>8. ASSUME ~modemGhost'.late PROVE AwaitInv' BY <1>1, <2>1, <2>2, <2>8 DEF AwaitInv
  <2>9. ASSUME ~modemGhost'.late PROVE MapInv' /\ StartedInv' BY <1>1, <2>2, <2>9 DEF MapInv, StartedInv
  <2> QED BY <2>3, <2>4, <2>5, <2>6, <2>7, <2>8, <2>9
<1>3. CASE CallerGoes("booted") /\ fw' = fw
  <2>1. caller' \in CallerRec /\ caller'.pc = "booted" /\ caller'.op = caller.op /\ caller'.s = caller.s /\ fw' = fw
    BY <1>1, <1>3 DEF CallerGoes
  <2>2. ModemTypes' BY <1>1, <2>1
  <2>3. CallerInv' /\ ModemOneRecovery' BY <1>1, <2>1 DEF CallerInv, ModemOneRecovery
  <2>4. ASSUME ~modemGhost'.late PROVE QueueInv' BY <1>1, <2>1, <2>4 DEF QueueInv
  <2>5. ASSUME ~modemGhost'.late PROVE EpochInv' BY <1>1, <2>1, <2>5 DEF EpochInv, VersionPending
  <2>6. ASSUME ~modemGhost'.late PROVE RecoveryInv' BY <1>1, <2>1, <2>6 DEF RecoveryInv, CallerInv
  <2>7. ASSUME ~modemGhost'.late PROVE AwaitInv' BY <1>1, <2>1, <2>7 DEF AwaitInv
  <2>8. ASSUME ~modemGhost'.late PROVE MapInv' /\ StartedInv' BY <1>1, <2>1, <2>8 DEF MapInv, StartedInv
  <2> QED BY <2>2, <2>3, <2>4, <2>5, <2>6, <2>7, <2>8
<1> QED BY <1>1, <1>2, <1>3 DEF FirstLoads, skw_sdio_boot_cp

LEMMA FirstWaitsStep == ASSUME ModemInv, FirstWaits PROVE ModemInv'
<1> USE DEF ModemInv, ModemTypes, ModemRest, FwRec, RxRec, CallerRec, GhostRec, Fine, Except, DumpDone, Blocked
<1>1. /\ caller.op = "first" /\ caller.pc = "wait" /\ caller' \in CallerRec /\ caller'.pc = "booted"
      /\ caller'.op = caller.op /\ caller'.s = caller.s
      /\ UNCHANGED <<cp_state, service_state_map, except_mutex, except_work, rx, hostAssert, fw, toHost>>
      /\ modemGhost' \in GhostRec /\ modemGhost'.started = modemGhost.started
      /\ \/ download_done > 0 /\ download_done' = download_done - 1 /\ modemGhost' = modemGhost
         \/ download_done = 0 /\ download_done' = 0 /\ modemGhost'.late
  BY DEF FirstWaits, CallerGoes
<1>2. ModemTypes' BY <1>1
<1>3. CallerInv' /\ ModemOneRecovery' BY <1>1 DEF CallerInv, ModemOneRecovery
<1>4. ASSUME ~modemGhost'.late PROVE QueueInv' BY <1>1, <1>4 DEF QueueInv
<1>5. ASSUME ~modemGhost'.late PROVE EpochInv' BY <1>1, <1>5 DEF EpochInv, VersionPending
<1>6. ASSUME ~modemGhost'.late PROVE RecoveryInv' BY <1>1, <1>6 DEF RecoveryInv, VersionPending
<1>7. ASSUME ~modemGhost'.late PROVE AwaitInv' BY <1>1, <1>7 DEF AwaitInv
<1>8. ASSUME ~modemGhost'.late PROVE MapInv' /\ StartedInv' BY <1>1, <1>8 DEF MapInv, StartedInv
<1> QED BY <1>2, <1>3, <1>4, <1>5, <1>6, <1>7, <1>8

LEMMA FirstDoneStep == ASSUME ModemInv, FirstDone PROVE ModemInv'
<1> USE DEF ModemInv, ModemTypes, ModemRest, FwRec, RxRec, CallerRec, GhostRec, Fine, Except, DumpDone, Blocked
<1>1. /\ caller.pc = "booted" /\ caller' \in CallerRec /\ caller'.pc = "idle" /\ caller'.op = "none"
      /\ UNCHANGED <<cp_state, service_state_map, download_done, except_mutex, except_work, rx, hostAssert, fw,
                     toHost, modemGhost>>
  BY DEF FirstDone, Idle, Services, Platform, Actors, World
<1>2. ModemTypes' BY <1>1
<1>3. CallerInv' /\ ModemOneRecovery' BY <1>1 DEF CallerInv, ModemOneRecovery
<1>4. ASSUME ~modemGhost'.late PROVE QueueInv' BY <1>1, <1>4 DEF QueueInv
<1>5. ASSUME ~modemGhost'.late PROVE EpochInv' BY <1>1, <1>5 DEF EpochInv, VersionPending
<1>6. ASSUME ~modemGhost'.late PROVE RecoveryInv' BY <1>1, <1>6 DEF RecoveryInv, VersionPending
<1>7. ASSUME ~modemGhost'.late PROVE AwaitInv' BY <1>1, <1>7 DEF AwaitInv
<1>8. ASSUME ~modemGhost'.late PROVE MapInv' /\ StartedInv' BY <1>1, <1>8 DEF MapInv, StartedInv
<1> QED BY <1>2, <1>3, <1>4, <1>5, <1>6, <1>7, <1>8

LEMMA ServiceBeginsStep == ASSUME ModemInv, ServiceBegins PROVE ModemInv'
<1> USE DEF ModemInv, ModemTypes, ModemRest, FwRec, RxRec, CallerRec, GhostRec, Fine, Except, DumpDone, Blocked
<1>0. PICK s \in Services, o \in {"start", "stop"} : caller' = Begun(o, s)
  BY ONLY ServiceBegins DEF ServiceBegins
<1>1. /\ caller.pc = "idle" /\ caller' \in CallerRec /\ modemGhost' \in GhostRec
      /\ modemGhost'.late = modemGhost.late /\ modemGhost'.started = "none"
      /\ \/ caller'.pc = "settle" /\ caller'.op = "start"
         \/ caller'.pc = "lock" /\ caller'.op \in {"start", "stop"}
      /\ UNCHANGED <<cp_state, service_state_map, download_done, except_mutex, except_work, rx, hostAssert, fw,
                     toHost>>
  <2>1. /\ caller.pc = "idle" /\ modemGhost' = [modemGhost EXCEPT !.started = "none"]
        /\ UNCHANGED <<cp_state, service_state_map, download_done, except_mutex, except_work, rx, hostAssert, fw,
                       toHost>>
    BY DEF ServiceBegins, Platform
  <2>2. modemGhost' \in GhostRec /\ modemGhost'.late = modemGhost.late /\ modemGhost'.started = "none"
    BY <2>1
  <2>3. caller' = [pc |-> IF o = "start" THEN "settle" ELSE "lock", op |-> o, s |-> s, ret |-> 0]
    BY ONLY <1>0 DEF Idle, Begun
  <2>4. caller' \in CallerRec BY ONLY <2>3, o \in {"start", "stop"}, s \in Services DEF CallerRec
  <2>5. caller'.op = o /\ caller'.pc = IF o = "start" THEN "settle" ELSE "lock" BY ONLY <2>3
  <2> QED BY <2>1, <2>2, <2>4, <2>5
<1>2. ModemTypes' BY <1>1
<1>3. CallerInv' /\ ModemOneRecovery' BY <1>1 DEF CallerInv, ModemOneRecovery
<1>4. ASSUME ~modemGhost'.late PROVE QueueInv' BY <1>1, <1>4 DEF QueueInv
<1>5. ASSUME ~modemGhost'.late PROVE EpochInv' BY <1>1, <1>5 DEF EpochInv, VersionPending
<1>6. ASSUME ~modemGhost'.late PROVE RecoveryInv' BY <1>1, <1>6 DEF RecoveryInv, VersionPending
<1>7. ASSUME ~modemGhost'.late PROVE AwaitInv' BY <1>1, <1>7 DEF AwaitInv
<1>8. ASSUME ~modemGhost'.late PROVE MapInv' /\ StartedInv' BY <1>1, <1>8 DEF MapInv, StartedInv
<1> QED BY <1>2, <1>3, <1>4, <1>5, <1>6, <1>7, <1>8

LEMMA ServiceSettlesStep == ASSUME ModemInv, ServiceSettles PROVE ModemInv'
<1> USE DEF ModemInv, ModemTypes, ModemRest, FwRec, RxRec, CallerRec, GhostRec, Fine, Except, DumpDone, Blocked
<1>1. /\ caller.pc = "settle" /\ caller.s \in Services /\ modemGhost' \in GhostRec
      /\ modemGhost'.late = modemGhost.late
      /\ \/ caller' \in CallerRec /\ caller'.pc = "idle" /\ caller'.op = "none" /\ modemGhost'.started = caller.s
           /\ caller.s \in service_state_map
         \/ caller' \in CallerRec /\ caller'.pc = "lock" /\ caller'.op = caller.op /\ caller'.s = caller.s
              /\ modemGhost' = modemGhost
      /\ UNCHANGED <<cp_state, service_state_map, download_done, except_mutex, except_work, rx, hostAssert, fw,
                     toHost>>
  BY DEF ServiceSettles, CallerGoes, Idle, Platform, Services
<1>2. ModemTypes' BY <1>1
<1>3. CallerInv' /\ ModemOneRecovery' BY <1>1 DEF CallerInv, ModemOneRecovery
<1>4. ASSUME ~modemGhost'.late PROVE QueueInv' BY <1>1, <1>4 DEF QueueInv
<1>5. ASSUME ~modemGhost'.late PROVE EpochInv' BY <1>1, <1>5 DEF EpochInv, VersionPending
<1>6. ASSUME ~modemGhost'.late PROVE RecoveryInv' BY <1>1, <1>6 DEF RecoveryInv, VersionPending
<1>7. ASSUME ~modemGhost'.late PROVE AwaitInv' BY <1>1, <1>7 DEF AwaitInv
<1>8. ASSUME ~modemGhost'.late PROVE MapInv' /\ StartedInv' BY <1>1, <1>8 DEF MapInv, StartedInv
<1> QED BY <1>2, <1>3, <1>4, <1>5, <1>6, <1>7, <1>8

LEMMA ServiceLocksStep == ASSUME ModemInv, ServiceLocks PROVE ModemInv'
<1> USE DEF ModemInv, ModemTypes, ModemRest, FwRec, RxRec, CallerRec, GhostRec, Fine, Except, DumpDone, Blocked
<1>1. /\ caller.pc = "lock" /\ except_mutex = "free" /\ except_mutex' = "caller" /\ caller' \in CallerRec
      /\ caller'.pc = "send" /\ caller'.op = caller.op /\ caller'.s = caller.s
      /\ UNCHANGED <<cp_state, service_state_map, download_done, except_work, rx, hostAssert, fw, toHost, modemGhost>>
  BY DEF ServiceLocks, CallerGoes, World
<1>2. ModemTypes' BY <1>1
<1>3. CallerInv' /\ ModemOneRecovery' BY <1>1 DEF CallerInv, ModemOneRecovery
<1>4. ASSUME ~modemGhost'.late PROVE QueueInv' BY <1>1, <1>4 DEF QueueInv
<1>5. ASSUME ~modemGhost'.late PROVE EpochInv' BY <1>1, <1>5 DEF EpochInv, VersionPending
<1>6. ASSUME ~modemGhost'.late PROVE RecoveryInv' BY <1>1, <1>6 DEF RecoveryInv, VersionPending
<1>7. ASSUME ~modemGhost'.late PROVE AwaitInv' BY <1>1, <1>7 DEF AwaitInv
<1>8. ASSUME ~modemGhost'.late PROVE MapInv' /\ StartedInv' BY <1>1, <1>8 DEF MapInv, StartedInv
<1> QED BY <1>2, <1>3, <1>4, <1>5, <1>6, <1>7, <1>8

LEMMA StartSendsStep == ASSUME ModemInv, StartSends PROVE ModemInv'
<1> USE DEF ModemInv, ModemTypes, ModemRest, FwRec, RxRec, CallerRec, GhostRec, Fine, Except, DumpDone, Blocked
<1>1. /\ caller.pc = "send" /\ caller.op = "start" /\ caller.s \in Services /\ download_done' = 0
      /\ UNCHANGED <<cp_state, service_state_map, except_work, rx, hostAssert, toHost, modemGhost>>
  BY DEF StartSends
<1>2. CASE cp_state # Fine
  <2>1. cp_state # Fine /\ except_mutex' = "free" /\ fw' = fw /\ caller' \in CallerRec /\ caller'.pc = "idle"
          /\ caller'.op = "none"
    BY <1>1, <1>2 DEF StartSends, Idle, Services
  <2>2. ModemTypes' BY <1>1, <2>1
  <2>3. CallerInv' /\ ModemOneRecovery' BY <1>1, <2>1 DEF CallerInv, ModemOneRecovery
  <2>4. ASSUME ~modemGhost'.late PROVE QueueInv' BY <1>1, <2>1, <2>4 DEF QueueInv
  <2>5. ASSUME ~modemGhost'.late PROVE EpochInv' BY <1>1, <2>1, <2>5 DEF EpochInv, VersionPending
  <2>6. ASSUME ~modemGhost'.late PROVE RecoveryInv' BY <1>1, <2>1, <2>6 DEF RecoveryInv, VersionPending
  <2>7. ASSUME ~modemGhost'.late PROVE AwaitInv' BY <1>1, <2>1, <2>7 DEF AwaitInv
  <2>8. ASSUME ~modemGhost'.late PROVE MapInv' /\ StartedInv' BY <1>1, <2>1, <2>8 DEF MapInv, StartedInv
  <2> QED BY <2>2, <2>3, <2>4, <2>5, <2>6, <2>7, <2>8
<1>3. CASE cp_state = Fine /\ fw.state \notin {"booting", "up"}
  <2>1. /\ cp_state = Fine /\ fw.state \notin {"booting", "up"} /\ fw' = fw
        /\ caller' \in CallerRec /\ caller'.pc = "await" /\ caller'.op = caller.op /\ caller'.s = caller.s
    BY <1>1, <1>3 DEF StartSends, Asked, CallerGoes
  <2>2. Call' = Start(caller.s) /\ Reply' = Ready[caller.s] /\ except_mutex' = except_mutex
    BY <1>1, <1>3, <2>1 DEF StartSends, Call, Reply, Start
  <2>3. ~modemGhost.late
        => ~VersionPending /\ Answered \cap Of(fw.inbox) = {} /\ Answers \cap Of(toHost) = {}
          /\ Start(caller.s) \in Answered /\ Ready[caller.s] \in Answers
    BY <1>1, <1>3, Different DEF EpochInv, AwaitInv
  <2>4. ModemTypes' BY <1>1, <2>1, <2>2
  <2>5. CallerInv' /\ ModemOneRecovery' BY <1>1, <2>1, <2>2 DEF CallerInv, ModemOneRecovery
  <2>6. ASSUME ~modemGhost'.late PROVE QueueInv' BY <1>1, <2>1, <2>2, <2>6 DEF QueueInv
  <2>7. ASSUME ~modemGhost'.late PROVE EpochInv' BY <1>1, <2>1, <2>2, <2>7 DEF EpochInv, VersionPending
  <2>8. ASSUME ~modemGhost'.late PROVE RecoveryInv' BY <1>1, <2>1, <2>2, <2>8 DEF RecoveryInv
  <2>9. ASSUME ~modemGhost'.late PROVE AwaitInv' BY <1>1, <2>1, <2>2, <2>3, <2>9 DEF AwaitInv, VersionPending
  <2>10. ASSUME ~modemGhost'.late PROVE MapInv' /\ StartedInv' BY <1>1, <2>1, <2>2, <2>10 DEF MapInv, StartedInv
  <2> QED BY <2>4, <2>5, <2>6, <2>7, <2>8, <2>9, <2>10
<1>4. CASE cp_state = Fine /\ fw.state \in {"booting", "up"}
  <2>1. /\ cp_state = Fine /\ fw.state \in {"booting", "up"}
        /\ caller' \in CallerRec /\ caller'.pc = "await" /\ caller'.op = caller.op /\ caller'.s = caller.s
        /\ Asked(Start(caller.s))
    BY <1>1, <1>4 DEF StartSends, CallerGoes, Start
  <2>2. /\ cp_state = Fine /\ fw.state \in {"booting", "up"}
        /\ caller' \in CallerRec /\ caller'.pc = "await" /\ caller'.op = caller.op /\ caller'.s = caller.s
    BY <2>1
  <2>3. Call' = Start(caller.s) /\ Reply' = Ready[caller.s] /\ except_mutex' = except_mutex
    BY <1>1, <1>4, <2>2 DEF StartSends, Call, Reply, Start
  <2>4. /\ fw' \in FwRec /\ fw'.state = fw.state /\ fw'.services = fw.services
        /\ Of(fw'.inbox) \subseteq Of(fw.inbox) \cup {Start(caller.s)}
             /\ (fw.state \notin {"booting", "up"} => fw'.inbox = fw.inbox)
        /\ Then(fw.inbox, {Version} \cup Answered, {Assert})
             /\ (fw.state \in {"booting", "up"} => ({Version} \cup Answered) \cap Of(fw.inbox) = {})
            => Then(fw'.inbox, {Version} \cup Answered, {Assert})
    <3>1. fw \in FwRec /\ Start(caller.s) \in Commands BY <1>1, Different
    <3> QED BY ONLY <2>1, <3>1, AskedFirmware
  <2>5. ~modemGhost.late
        => ~VersionPending /\ ({Version} \cup Answered) \cap Of(fw.inbox) = {} /\ Answers \cap Of(toHost) = {}
          /\ Start(caller.s) \in Answered /\ Ready[caller.s] \in Answers
    BY <1>1, <1>4, <2>2, Different DEF EpochInv, QueueInv, AwaitInv, VersionPending
  <2>6. ModemTypes' BY <1>1, <2>2, <2>3, <2>4
  <2>7. CallerInv' /\ ModemOneRecovery' BY <1>1, <2>2, <2>3, <2>4 DEF CallerInv, ModemOneRecovery
  <2>8. ASSUME ~modemGhost'.late PROVE QueueInv' BY <1>1, <2>2, <2>4, <2>5, <2>8, Different DEF QueueInv
  <2>9. ASSUME ~modemGhost'.late PROVE EpochInv' BY <1>1, <2>2, <2>4, <2>9 DEF EpochInv, VersionPending
  <2>10. ASSUME ~modemGhost'.late PROVE RecoveryInv' BY <1>1, <2>2, <2>4, <2>10 DEF RecoveryInv
  <2>11. ASSUME ~modemGhost'.late PROVE AwaitInv' BY <1>1, <2>2, <2>3, <2>4, <2>5, <2>11 DEF AwaitInv, VersionPending
  <2>12. ASSUME ~modemGhost'.late PROVE MapInv' /\ StartedInv'
    BY <1>1, <2>2, <2>4, <2>5, <2>12, Kinds, Different DEF MapInv, StartedInv, AwaitInv
  <2> QED BY <2>6, <2>7, <2>8, <2>9, <2>10, <2>11, <2>12
<1> QED BY <1>2, <1>3, <1>4

LEMMA StopSendsStep == ASSUME ModemInv, StopSends PROVE ModemInv'
<1> USE DEF ModemInv, ModemTypes, ModemRest, FwRec, RxRec, CallerRec, GhostRec, Fine, Except, DumpDone, Blocked
<1> DEFINE asks == caller.s \in service_state_map /\ (caller.s = "BT" => cp_state = Fine)
           sends == asks /\ cp_state = Fine
<1>1. /\ caller.pc = "send" /\ caller.op = "stop" /\ caller.s \in Services
      /\ service_state_map' = IF asks THEN service_state_map \ {caller.s} ELSE service_state_map
      /\ UNCHANGED <<cp_state, except_work, rx, hostAssert, toHost, modemGhost>>
  BY DEF StopSends
<1>2. CASE ~sends
  <2>1. except_mutex' = "free" /\ fw' = fw /\ download_done' = download_done /\ caller' \in CallerRec
          /\ caller'.pc = "idle" /\ caller'.op = "none"
    BY <1>1, <1>2 DEF StopSends, Idle, Services
  <2>2. ModemTypes' BY <1>1, <2>1
  <2>3. CallerInv' /\ ModemOneRecovery' BY <1>1, <2>1 DEF CallerInv, ModemOneRecovery
  <2>4. ASSUME ~modemGhost'.late PROVE QueueInv' BY <1>1, <2>1, <2>4 DEF QueueInv
  <2>5. ASSUME ~modemGhost'.late PROVE EpochInv' BY <1>1, <2>1, <2>5 DEF EpochInv, VersionPending
  <2>6. ASSUME ~modemGhost'.late PROVE RecoveryInv' BY <1>1, <2>1, <2>6, Kinds DEF RecoveryInv, VersionPending
  <2>7. ASSUME ~modemGhost'.late PROVE AwaitInv' BY <1>1, <2>1, <2>7 DEF AwaitInv
  <2>8. ASSUME ~modemGhost'.late PROVE MapInv' /\ StartedInv' BY <1>1, <2>1, <2>8 DEF MapInv, StartedInv
  <2> QED BY <2>2, <2>3, <2>4, <2>5, <2>6, <2>7, <2>8
<1>3. CASE sends /\ caller.s = "WIFI"
  <2>1. Asked(Stop("WIFI"))
    BY <1>1, <1>3 DEF StopSends, Stop
  <2>2. cp_state = Fine /\ caller.s = "WIFI" /\ except_mutex' = "free" /\ download_done' = download_done
          /\ service_state_map' = service_state_map \ {"WIFI"}
          /\ caller' \in CallerRec /\ caller'.pc = "idle" /\ caller'.op = "none"
    BY <1>1, <1>3 DEF StopSends, Idle, Services
  <2>3. /\ fw' \in FwRec /\ fw'.state = fw.state /\ fw'.services = fw.services
        /\ Of(fw'.inbox) \subseteq Of(fw.inbox) \cup {Stop("WIFI")}
             /\ (fw.state \notin {"booting", "up"} => fw'.inbox = fw.inbox)
        /\ Then(fw.inbox, {Version} \cup Answered, {Assert})
             /\ (fw.state \in {"booting", "up"} => ({Version} \cup Answered) \cap Of(fw.inbox) = {})
            => Then(fw'.inbox, {Version} \cup Answered, {Assert})
    <3>1. fw \in FwRec /\ Stop("WIFI") \in Commands BY <1>1, Different
    <3> QED BY ONLY <2>1, <3>1, AskedFirmware
  <2>4. ~modemGhost.late
        => ~VersionPending /\ Answered \cap Of(fw.inbox) = {} /\ Answers \cap Of(toHost) = {}
          /\ (fw.state \in {"booting", "up"} => Version \notin Of(fw.inbox)) /\ Stop("WIFI") \notin Answered
    BY <1>1, <1>3, <2>2, Different DEF EpochInv, QueueInv, AwaitInv, VersionPending
  <2>5. ModemTypes' BY <1>1, <2>2, <2>3
  <2>6. CallerInv' /\ ModemOneRecovery' BY <1>1, <2>2, <2>3 DEF CallerInv, ModemOneRecovery
  <2>7. ASSUME ~modemGhost'.late PROVE QueueInv' BY <1>1, <2>3, <2>4, <2>7, Different DEF QueueInv
  <2>8. ASSUME ~modemGhost'.late PROVE EpochInv' BY <1>1, <2>2, <2>3, <2>8 DEF EpochInv, VersionPending
  <2>9. ASSUME ~modemGhost'.late PROVE RecoveryInv' BY <1>1, <2>2, <2>3, <2>9 DEF RecoveryInv
  <2>10. ASSUME ~modemGhost'.late PROVE AwaitInv' BY <1>1, <2>2, <2>3, <2>4, <2>10 DEF AwaitInv
  <2>11. ASSUME ~modemGhost'.late PROVE MapInv' /\ StartedInv'
    BY <1>1, <2>2, <2>3, <2>11, Different DEF MapInv, StartedInv
  <2> QED BY <2>5, <2>6, <2>7, <2>8, <2>9, <2>10, <2>11
<1>4. CASE sends /\ caller.s = "BT"
  <2>1. Asked(Stop("BT"))
    BY <1>1, <1>4 DEF StopSends, Stop
  <2>2. cp_state = Fine /\ caller.s = "BT" /\ except_mutex' = except_mutex /\ download_done' = 0
          /\ service_state_map' = service_state_map \ {"BT"}
          /\ caller' \in CallerRec /\ caller'.pc = "await" /\ caller'.op = caller.op /\ caller'.s = caller.s
    BY <1>1, <1>4 DEF StopSends, CallerGoes
  <2>3. Call' = Stop("BT") /\ Reply' = "BTEXIT"
    BY <1>1, <2>2 DEF Call, Reply, Stop
  <2>4. /\ fw' \in FwRec /\ fw'.state = fw.state /\ fw'.services = fw.services
        /\ Of(fw'.inbox) \subseteq Of(fw.inbox) \cup {Stop("BT")}
             /\ (fw.state \notin {"booting", "up"} => fw'.inbox = fw.inbox)
        /\ Then(fw.inbox, {Version} \cup Answered, {Assert})
             /\ (fw.state \in {"booting", "up"} => ({Version} \cup Answered) \cap Of(fw.inbox) = {})
            => Then(fw'.inbox, {Version} \cup Answered, {Assert})
    <3>1. fw \in FwRec /\ Stop("BT") \in Commands BY <1>1, Different
    <3> QED BY ONLY <2>1, <3>1, AskedFirmware
  <2>5. ~modemGhost.late
        => ~VersionPending /\ Answered \cap Of(fw.inbox) = {} /\ Answers \cap Of(toHost) = {}
          /\ (fw.state \in {"booting", "up"} => Version \notin Of(fw.inbox)) /\ Stop("BT") \in Answered
               /\ "BTEXIT" \in Answers
    BY <1>1, <1>4, <2>2, Different DEF EpochInv, QueueInv, AwaitInv, VersionPending
  <2>6. ModemTypes' BY <1>1, <2>2, <2>4
  <2>7. CallerInv' /\ ModemOneRecovery' BY <1>1, <2>2, <2>4 DEF CallerInv, ModemOneRecovery
  <2>8. ASSUME ~modemGhost'.late PROVE QueueInv' BY <1>1, <2>2, <2>4, <2>5, <2>8, Different DEF QueueInv
  <2>9. ASSUME ~modemGhost'.late PROVE EpochInv' BY <1>1, <2>2, <2>4, <2>9 DEF EpochInv, VersionPending
  <2>10. ASSUME ~modemGhost'.late PROVE RecoveryInv' BY <1>1, <2>2, <2>4, <2>10 DEF RecoveryInv
  <2>11. ASSUME ~modemGhost'.late PROVE AwaitInv' BY <1>1, <2>2, <2>3, <2>4, <2>5, <2>11 DEF AwaitInv, VersionPending
  <2>12. ASSUME ~modemGhost'.late PROVE MapInv' /\ StartedInv'
    BY <1>1, <2>2, <2>4, <2>12, Different DEF MapInv, StartedInv
  <2> QED BY <2>6, <2>7, <2>8, <2>9, <2>10, <2>11, <2>12
<1> QED BY <1>1, <1>2, <1>3, <1>4 DEF Services

LEMMA ServiceWaitsStep == ASSUME ModemInv, ServiceWaits PROVE ModemInv'
<1> USE DEF ModemInv, ModemTypes, ModemRest, FwRec, RxRec, CallerRec, GhostRec, Fine, Except, DumpDone, Blocked
<1>1. /\ caller.pc = "await" /\ caller' \in CallerRec /\ caller'.pc = "idle" /\ caller'.op = "none"
      /\ except_mutex' = "free"
      /\ modemGhost' \in GhostRec
      /\ \/ download_done > 0 /\ download_done' = download_done - 1 /\ modemGhost'.late = modemGhost.late
           /\ modemGhost'.started = (IF caller.op = "start" THEN caller.s ELSE modemGhost.started)
         \/ download_done = 0 /\ download_done' = 0 /\ modemGhost'.late
      /\ UNCHANGED <<cp_state, service_state_map, except_work, rx, hostAssert, fw, toHost>>
  BY DEF ServiceWaits, Idle, Services
<1>2. ~modemGhost'.late => download_done > 0 /\ Answers \cap Of(toHost) = {} /\ Answered \cap Of(fw.inbox) = {}
  BY <1>1 DEF AwaitInv
<1>3. ModemTypes' BY <1>1
<1>4. CallerInv' /\ ModemOneRecovery' BY <1>1 DEF CallerInv, ModemOneRecovery
<1>5. ASSUME ~modemGhost'.late PROVE QueueInv' BY <1>1, <1>5 DEF QueueInv
<1>6. ASSUME ~modemGhost'.late PROVE EpochInv' BY <1>1, <1>6 DEF EpochInv, VersionPending
<1>7. ASSUME ~modemGhost'.late PROVE RecoveryInv' BY <1>1, <1>7 DEF RecoveryInv
<1>8. ASSUME ~modemGhost'.late PROVE AwaitInv' BY <1>1, <1>8 DEF AwaitInv
<1>9. ASSUME ~modemGhost'.late PROVE MapInv' /\ StartedInv' BY <1>1, <1>9 DEF MapInv, StartedInv, AwaitInv
<1> QED BY <1>3, <1>4, <1>5, <1>6, <1>7, <1>8, <1>9

LEMMA ModemKept ==
    ASSUME ModemInv,
           UNCHANGED <<cp_state, service_state_map, download_done, except_mutex, except_work, rx, hostAssert,
                       caller, bound, fw, toHost, modemGhost>>
    PROVE  ModemInv'
<1> USE DEF ModemInv
<1>1. ModemTypes' BY DEF ModemTypes
<1>2. CallerInv' /\ ModemOneRecovery' BY DEF CallerInv, ModemOneRecovery
<1>3. QueueInv' <=> QueueInv BY DEF QueueInv
<1>4. EpochInv' <=> EpochInv BY DEF EpochInv, VersionPending
<1>5. RecoveryInv' <=> RecoveryInv BY DEF RecoveryInv, VersionPending
<1>6. AwaitInv' <=> AwaitInv BY DEF AwaitInv, VersionPending, Call, Reply
<1>7. MapInv' /\ StartedInv' <=> MapInv /\ StartedInv BY DEF MapInv, StartedInv
<1> QED BY <1>1, <1>2, <1>3, <1>4, <1>5, <1>6, <1>7 DEF ModemRest

LEMMA RecoveryDebugStep == ASSUME ModemInv, skw_sdio_recovery_debug PROVE ModemInv'
<1>1. UNCHANGED <<cp_state, service_state_map, download_done, except_mutex, except_work, rx, hostAssert, caller,
                  bound, fw, toHost, modemGhost>>
  BY DEF skw_sdio_recovery_debug, Platform, Actors
<1> QED BY <1>1, ModemKept

LEMMA ModemInitInv == ModemInit => ModemInv
<1> SUFFICES ASSUME ModemInit PROVE ModemInv OBVIOUS
<1> USE DEF ModemInit, Idle, Resting
<1>1. <<>> \in Seq(Commands) /\ <<>> \in Seq(Messages) BY EmptySeq
<1>2. ModemTypes
  BY <1>1 DEF ModemTypes, FwRec, RxRec, CallerRec, GhostRec, Services, Fine, Except, DumpDone, Blocked
<1>3. CallerInv /\ ModemOneRecovery BY DEF CallerInv, ModemOneRecovery
<1>4. QueueInv /\ EpochInv BY OfEmpty DEF QueueInv, EpochInv, VersionPending
<1>5. RecoveryInv /\ AwaitInv /\ MapInv /\ StartedInv
  BY OfEmpty DEF RecoveryInv, AwaitInv, MapInv, StartedInv, Fine, Blocked
<1> QED BY <1>2, <1>3, <1>4, <1>5 DEF ModemInv, ModemRest

LEMMA ModemStep == ModemInv /\ [ModemNext]_ModemVars => ModemInv'
<1> SUFFICES ASSUME ModemInv, [ModemNext]_ModemVars PROVE ModemInv' OBVIOUS
<1>1. CASE Caller
  BY <1>1, FirstLoadsStep, FirstWaitsStep, FirstDoneStep, ServiceSettlesStep, ServiceLocksStep, StartSendsStep,
     StopSendsStep, ServiceWaitsStep DEF Caller
<1>2. CASE ServiceBegins BY <1>2, ServiceBeginsStep
<1>3. CASE Receiver
  BY <1>3, RxTakesStep, RxVersionStep, RxAssertStep, RxAssertedStep, RxDumpDoneStep, RxCancelsStep,
     RxRecoversStep DEF Receiver
<1>4. CASE Work BY <1>4, WorkRunsStep, WorkBlockedStep, WorkRecoversStep DEF Work
<1>5. CASE HostDecides \/ send_modem_assert_command BY <1>5, HostDecidesStep, AssertCommandStep
<1>6. CASE Firmware \/ FirmwareFails
  BY <1>6, FirmwareBootsStep, FirmwareAnswersStep, FirmwareDumpsStep, FirmwareFailsStep DEF Firmware
<1>7. CASE skw_sdio_recovery_debug BY <1>7, RecoveryDebugStep
<1>8. CASE UNCHANGED ModemVars BY <1>8, ModemKept DEF ModemVars
<1> QED BY <1>1, <1>2, <1>3, <1>4, <1>5, <1>6, <1>7, <1>8 DEF ModemNext

LEMMA ModemInvSafe == ModemInv => ModemSafe
<1> SUFFICES ASSUME ModemInv PROVE ModemSafe OBVIOUS
<1> USE DEF ModemInv, ModemRest
<1>1. ModemServices BY DEF ModemServices, MapInv, ModemTypes
<1>2. ModemStartMeansReady BY DEF ModemStartMeansReady, StartedInv
<1> QED BY <1>1, <1>2 DEF ModemSafe

(* The chip is recovered by one thread at a time, and as long as no wait was given up the
   driver's map names only services of the firmware that runs, and a start that reported
   success has its service: whatever the threads, the callers and the firmware do, and
   however often it dies. *)
THEOREM ModemSafety == ModemSpec => []ModemSafe
<1>1. ModemSpec => []ModemInv
  <2>1. ModemInv /\ [ModemNext]_ModemVars => ModemInv' BY ModemStep
  <2> QED BY ModemInitInv, <2>1, PTL DEF ModemSpec
<1> QED BY <1>1, ModemInvSafe, PTL

-----------------------------------------------------------------------------
(* SkwPort: the ring between the receive thread and a reader.  Between its *)
(* pointers lie the bytes accepted and not yet read, in order.             *)

(* Positions and bytes are counted modulo the size of the ring: what one step adds wraps at
   most once. *)
LEMMA Wraps == ASSUME NEW a \in 0 .. 2 * Length - 1 PROVE a % Length = IF a < Length THEN a ELSE a - Length
<1>1. Length \in Nat \ {0} BY PortConstants
<1>2. CASE a < Length BY <1>1, <1>2
<1>3. CASE a >= Length BY <1>1, <1>3
<1> QED BY <1>1, <1>2, <1>3

(* How far a is ahead of b on the ring. *)
Ahead(a, b) == (Length + a - b) % Length

LEMMA AheadIs ==
    ASSUME NEW a \in 0 .. Length - 1, NEW b \in 0 .. Length - 1
    PROVE  Ahead(a, b) \in 0 .. Length - 1 /\ Ahead(a, b) = IF a < b THEN Length + a - b ELSE a - b
<1>1. Length \in Nat \ {0} /\ Length + a - b \in 0 .. 2 * Length - 1 BY PortConstants
<1>2. (Length + a - b) % Length = IF Length + a - b < Length THEN Length + a - b ELSE Length + a - b - Length
  BY ONLY <1>1, Wraps
<1> QED BY <1>1, <1>2 DEF Ahead

(* A position moved on, and the number of the byte accepted there. *)
LEMMA OnIs ==
    ASSUME NEW a \in 0 .. Length - 1, NEW k \in 0 .. Length - 1
    PROVE  /\ (a + k) % Length \in 0 .. Length - 1
           /\ (a + k) % Length = IF a + k < Length THEN a + k ELSE a + k - Length
<1>1. Length \in Nat \ {0} /\ a + k \in 0 .. 2 * Length - 1 BY PortConstants
<1>2. (a + k) % Length = IF a + k < Length THEN a + k ELSE a + k - Length BY ONLY <1>1, Wraps
<1> QED BY <1>1, <1>2

LEMMA NumberIs ==
    ASSUME NEW a \in 0 .. Length - 1, NEW k \in 0 .. Length - 1
    PROVE  /\ Number(a + k) \in 1 .. Length
           /\ Number(a + k) = (IF a + k < Length THEN a + k ELSE a + k - Length) + 1
<1>1. Length \in Nat BY PortConstants
<1>2. /\ (a + k) % Length \in 0 .. Length - 1
      /\ (a + k) % Length = IF a + k < Length THEN a + k ELSE a + k - Length
  BY OnIs
<1> QED BY <1>1, <1>2 DEF Number

(* A pointer moved on: the front adds to the distance, the back gives it up. *)
LEMMA FrontMoves ==
    ASSUME NEW a \in 0 .. Length - 1, NEW b \in 0 .. Length - 1, NEW n \in 0 .. Length - 1,
           Ahead(a, b) + n < Length
    PROVE  Ahead((a + n) % Length, b) = Ahead(a, b) + n
<1> DEFINE c == (a + n) % Length
<1>1. Length \in Nat \ {0} BY PortConstants
<1>2. c \in 0 .. Length - 1 /\ c = IF a + n < Length THEN a + n ELSE a + n - Length BY OnIs
<1>3. Ahead(a, b) = IF a < b THEN Length + a - b ELSE a - b BY AheadIs
<1> HIDE DEF c
<1>4. Ahead(c, b) = IF c < b THEN Length + c - b ELSE c - b BY <1>2, AheadIs
<1> QED BY <1>1, <1>2, <1>3, <1>4 DEF c

LEMMA BackMoves ==
    ASSUME NEW a \in 0 .. Length - 1, NEW b \in 0 .. Length - 1, NEW n \in 0 .. Ahead(a, b)
    PROVE  /\ (b + n) % Length \in 0 .. Length - 1
           /\ Ahead(a, (b + n) % Length) = Ahead(a, b) - n
           /\ (b + n) % Length = a <=> n = Ahead(a, b)
<1> DEFINE c == (b + n) % Length
<1>1. Length \in Nat \ {0} BY PortConstants
<1>3. Ahead(a, b) = IF a < b THEN Length + a - b ELSE a - b BY AheadIs
<1>2. n \in 0 .. Length - 1 BY <1>1, <1>3
<1>4. c \in 0 .. Length - 1 /\ c = IF b + n < Length THEN b + n ELSE b + n - Length BY <1>2, OnIs
<1> HIDE DEF c
<1>5. Ahead(a, c) = IF a < c THEN Length + a - c ELSE a - c BY <1>4, AheadIs
<1>6. Ahead(a, c) = Ahead(a, b) - n /\ (c = a <=> n = Ahead(a, b)) BY <1>1, <1>2, <1>3, <1>4, <1>5
<1> QED BY <1>4, <1>6 DEF c

(* The k-th place behind the read pointer, as the writer sees it: what is still to be read lies
   behind the write pointer, what is free before it. *)
LEMMA PutReads ==
    ASSUME NEW w \in 0 .. Length - 1, NEW r \in 0 .. Length - 1, NEW k \in 0 .. Length - 1
    PROVE  k < Ahead(w, r) => Ahead((r + k) % Length, w) = Length + k - Ahead(w, r)
<1> DEFINE c == (r + k) % Length
<1>1. Length \in Nat \ {0} BY PortConstants
<1>2. c \in 0 .. Length - 1 /\ c = IF r + k < Length THEN r + k ELSE r + k - Length BY OnIs
<1>3. Ahead(w, r) = IF w < r THEN Length + w - r ELSE w - r BY AheadIs
<1> HIDE DEF c
<1>4. Ahead(c, w) = IF c < w THEN Length + c - w ELSE c - w BY <1>2, AheadIs
<1>5. k < Ahead(w, r) => Ahead(c, w) = Length + k - Ahead(w, r) BY <1>1, <1>2, <1>3, <1>4
<1> QED BY <1>5 DEF c

LEMMA PutWrites ==
    ASSUME NEW w \in 0 .. Length - 1, NEW r \in 0 .. Length - 1, NEW k \in 0 .. Length - 1, k >= Ahead(w, r)
    PROVE  Ahead((r + k) % Length, w) = k - Ahead(w, r)
<1> DEFINE c == (r + k) % Length
<1>1. Length \in Nat \ {0} BY PortConstants
<1>2. c \in 0 .. Length - 1 /\ c = IF r + k < Length THEN r + k ELSE r + k - Length BY OnIs
<1>3. Ahead(w, r) = IF w < r THEN Length + w - r ELSE w - r BY AheadIs
<1> HIDE DEF c
<1>4. Ahead(c, w) = IF c < w THEN Length + c - w ELSE c - w BY <1>2, AheadIs
<1>5. Ahead(c, w) = k - Ahead(w, r) BY <1>1, <1>2, <1>3, <1>4
<1> QED BY <1>5 DEF c

PortRec == [state : {"IDLE", "OPEN", "CLSE", "ASST"}, wp : 0 .. Length - 1, rp : 0 .. Length - 1,
            flow : BOOLEAN, seqno : Nat, tx_flow : Int]
ReaderRec == [pc : {"idle", "entered", "arm", "test", "copy", "wait", "leave"}, user : Seq(0 .. Length)]
UcomRec == [open : Nat, removal : {"no", "waits", "gone"}]
ChipRec == [ftl : BOOLEAN, late : 0 .. InFlight, seq : Nat, links : Int]
CountRec == [in : 0 .. Length - 1, out : 0 .. Length - 1]
PortGhostRec == [missed : BOOLEAN, raced : BOOLEAN, skewed : BOOLEAN]

PortTypes ==
    /\ port \in PortRec /\ read_buffer \in [0 .. Length - 1 -> 0 .. Length] /\ reader \in ReaderRec
    /\ ucom \in UcomRec /\ chip \in ChipRec /\ count \in CountRec /\ portGhost \in PortGhostRec
    /\ rx_done \in BOOLEAN

(* The ring, between rp and wp, is the bytes from count.out to count.in. *)
RingInv ==
    /\ Ahead(count.in, count.out) = Used
    /\ \A k \in 0 .. Used - 1 : read_buffer[(port.rp + k) % Length] = Number(count.out + k)

(* What a reader got is a run of consecutive bytes. *)
UserInv == \A i \in DOMAIN reader.user : reader.user[i] = Number(reader.user[1] + i - 2)

(* A removal that found a reader has closed the port and completed it, so the one that waits
   will be woken; a buffer is gone only when nobody has the device open. *)
BufferInv ==
    /\ ucom.removal = "gone" => ucom.open = 0
    /\ ucom.removal # "gone" /\ ucom.open = 0 => reader.pc = "idle"
    /\ reader.pc \in {"arm", "test", "copy", "wait"} /\ ~portGhost.missed => port.state # "IDLE"
    /\ ucom.removal = "waits" /\ ~portGhost.raced =>
        /\ port.state \in {"IDLE", "CLSE"}
        /\ reader.pc = "wait" /\ ~portGhost.missed => rx_done
    /\ PortBufferSafe

PortInv == PortTypes /\ RingInv /\ UserInv /\ BufferInv /\ PortFlow

(* Where the pointers, the counts and the slots lie. *)
LEMMA Ranges ==
    ASSUME PortTypes
    PROVE  /\ Length \in Nat \ {0} /\ port.wp \in 0 .. Length - 1 /\ port.rp \in 0 .. Length - 1
           /\ count.in \in 0 .. Length - 1 /\ count.out \in 0 .. Length - 1
           /\ read_buffer \in [0 .. Length - 1 -> 0 .. Length]
<1>1. Length \in Nat \ {0} BY PortConstants
<1>2. port \in PortRec /\ count \in CountRec /\ read_buffer \in [0 .. Length - 1 -> 0 .. Length]
  BY DEF PortTypes
<1>3. port.wp \in 0 .. Length - 1 /\ port.rp \in 0 .. Length - 1 BY ONLY <1>2 DEF PortRec
<1>4. count.in \in 0 .. Length - 1 /\ count.out \in 0 .. Length - 1 BY ONLY <1>2 DEF CountRec
<1> QED BY ONLY <1>1, <1>2, <1>3, <1>4

(* What the ring holds is the distance of its pointers. *)
LEMMA UsedIs == ASSUME PortTypes
    PROVE /\ Used = Ahead(port.wp, port.rp) /\ Used \in 0 .. Length - 1 /\ Free = Length - 1 - Used
          /\ Used = IF port.wp < port.rp THEN Length + port.wp - port.rp ELSE port.wp - port.rp
<1>1. port.wp \in 0 .. Length - 1 /\ port.rp \in 0 .. Length - 1 /\ Length \in Nat \ {0}
  BY Ranges
<1>2. Ahead(port.wp, port.rp) = IF port.wp < port.rp THEN Length + port.wp - port.rp ELSE port.wp - port.rp
  BY <1>1, AheadIs
<1> QED BY <1>1, <1>2 DEF Used, Free, Ahead

(* What a packet leaves in the slots. *)
LEMMA PutIs ==
    ASSUME PortTypes, NEW n \in 1 .. Length - 1
    PROVE  /\ Put(n) \in [0 .. Length - 1 -> 0 .. Length]
           /\ \A i \in 0 .. Length - 1 :
                Put(n)[i] = IF Ahead(i, port.wp) < n THEN Number(count.in + Ahead(i, port.wp)) ELSE read_buffer[i]
<1>1. /\ port.wp \in 0 .. Length - 1 /\ count.in \in 0 .. Length - 1 /\ Length \in Nat \ {0}
      /\ read_buffer \in [0 .. Length - 1 -> 0 .. Length]
  BY Ranges
<1>2. ASSUME NEW i \in 0 .. Length - 1
      PROVE  /\ Ahead(i, port.wp) \in 0 .. Length - 1 /\ read_buffer[i] \in 0 .. Length
             /\ Number(count.in + Ahead(i, port.wp)) \in 0 .. Length
  <2>1. Ahead(i, port.wp) \in 0 .. Length - 1 BY <1>1, AheadIs
  <2>2. Number(count.in + Ahead(i, port.wp)) \in 0 .. Length BY <1>1, <2>1, NumberIs
  <2> QED BY <1>1, <2>1, <2>2
<1>3. Put(n) = [i \in 0 .. Length - 1 |->
                  IF Ahead(i, port.wp) < n THEN Number(count.in + Ahead(i, port.wp)) ELSE read_buffer[i]]
  BY DEF Put, Ahead
<1> QED BY <1>2, <1>3

(* The register takes the bit, or is not reached and port and chip part. *)
LEMMA RegisterIs ==
    ASSUME PortTypes, NEW c \in ChipRec, NEW on \in BOOLEAN, skw_sdio_rx_port_follow_ctl(c, on)
    PROVE  /\ chip' \in ChipRec /\ portGhost' \in PortGhostRec
           /\ portGhost'.missed = portGhost.missed /\ portGhost'.raced = portGhost.raced
           /\ \/ /\ portGhost' = portGhost /\ chip'.ftl = on /\ chip'.late = (IF on THEN c.late ELSE InFlight)
                 /\ chip' = [c EXCEPT !.ftl = on, !.late = IF on THEN @ ELSE InFlight]
              \/ portGhost'.skewed
<1>1. InFlight \in Nat BY PortConstants
<1>2. CASE chip' = [c EXCEPT !.ftl = on, !.late = IF on THEN @ ELSE InFlight] /\ portGhost' = portGhost
  <2>1. chip' = [ftl |-> on, late |-> IF on THEN c.late ELSE InFlight, seq |-> c.seq, links |-> c.links]
    BY ONLY <1>2, c \in ChipRec DEF ChipRec
  <2>2. c.late \in 0 .. InFlight /\ c.seq \in Nat /\ c.links \in Int BY ONLY c \in ChipRec DEF ChipRec
  <2>3. chip' \in ChipRec /\ chip'.ftl = on /\ chip'.late = (IF on THEN c.late ELSE InFlight)
    BY ONLY <1>1, <2>1, <2>2, on \in BOOLEAN DEF ChipRec
  <2> QED BY <1>2, <2>3 DEF PortTypes
<1>3. CASE chip' = c /\ RegisterFails
  <2>1. portGhost \in PortGhostRec /\ portGhost' = [portGhost EXCEPT !.skewed = TRUE]
    BY <1>3 DEF RegisterFails, PortTypes
  <2>2. /\ portGhost' \in PortGhostRec /\ portGhost'.skewed
        /\ portGhost'.missed = portGhost.missed /\ portGhost'.raced = portGhost.raced
    BY ONLY <2>1 DEF PortGhostRec
  <2> QED BY <1>3, <2>2
<1> QED BY <1>2, <1>3 DEF skw_sdio_rx_port_follow_ctl

(* The same of a read that lets the chip go. *)
LEMMA ReleaseIs ==
    ASSUME PortTypes, skw_sdio_rx_port_follow_ctl(chip, FALSE)
    PROVE  /\ chip' \in ChipRec /\ portGhost' \in PortGhostRec
           /\ portGhost'.missed = portGhost.missed /\ portGhost'.raced = portGhost.raced
           /\ \/ portGhost' = portGhost /\ ~chip'.ftl /\ chip'.late = InFlight
              \/ portGhost'.skewed
<1>1. chip \in ChipRec BY DEF PortTypes
<1>2. /\ chip' \in ChipRec /\ portGhost' \in PortGhostRec
      /\ portGhost'.missed = portGhost.missed /\ portGhost'.raced = portGhost.raced
      /\ \/ portGhost' = portGhost /\ chip'.ftl = FALSE /\ chip'.late = (IF FALSE THEN chip.late ELSE InFlight)
         \/ portGhost'.skewed
  BY ONLY <1>1, FALSE \in BOOLEAN, PortTypes, skw_sdio_rx_port_follow_ctl(chip, FALSE), RegisterIs, Zenon
<1> QED BY ONLY <1>2

(* What a stored packet does to the chip. *)
LEMMA StoreTells ==
    ASSUME PortTypes, NEW n, Sent \in ChipRec, Store(n)
    PROVE  /\ chip' \in ChipRec /\ portGhost' \in PortGhostRec
           /\ portGhost'.missed = portGhost.missed /\ portGhost'.raced = portGhost.raced
           /\ ~portGhost'.skewed => /\ portGhost' = portGhost /\ chip'.ftl = (Sent.ftl \/ Stopped(n))
                                    /\ chip'.late = Sent.late
<1>1. CASE Stopped(n)
  <2>1. skw_sdio_rx_port_follow_ctl(Sent, TRUE) BY <1>1 DEF Store
  <2>2. /\ chip' \in ChipRec /\ portGhost' \in PortGhostRec
        /\ portGhost'.missed = portGhost.missed /\ portGhost'.raced = portGhost.raced
        /\ \/ portGhost' = portGhost /\ chip'.ftl = TRUE /\ chip'.late = (IF TRUE THEN Sent.late ELSE InFlight)
           \/ portGhost'.skewed
    BY ONLY <2>1, TRUE \in BOOLEAN, PortTypes, Sent \in ChipRec, RegisterIs, Zenon
  <2>3. (Sent.ftl \/ Stopped(n)) = TRUE BY <1>1
  <2> QED BY ONLY <2>2, <2>3
<1>2. CASE ~Stopped(n)
  <2>1. chip' = Sent /\ portGhost' = portGhost BY <1>2 DEF Store
  <2>2. Sent.ftl \in BOOLEAN BY DEF ChipRec
  <2> QED BY <1>2, <2>1, <2>2 DEF PortTypes
<1> QED BY <1>1, <1>2

(* A packet that fits lengthens the run of bytes the ring holds. *)
LEMMA StoreStep ==
    ASSUME PortTypes, RingInv, NEW n \in 1 .. Length - 1, n <= Free, Store(n)
    PROVE  /\ port'.wp \in 0 .. Length - 1 /\ port'.rp = port.rp /\ count' \in CountRec
           /\ read_buffer' \in [0 .. Length - 1 -> 0 .. Length]
           /\ Used' = Used + n /\ count'.in # count.in /\ RingInv'
<1> DEFINE w == port.wp
           r == port.rp
           ci == count.in
           co == count.out
<1>1. /\ Length \in Nat \ {0} /\ w \in 0 .. Length - 1 /\ r \in 0 .. Length - 1
      /\ ci \in 0 .. Length - 1 /\ co \in 0 .. Length - 1
  BY Ranges
<1>2. /\ port'.wp = (w + n) % Length /\ port'.rp = r
      /\ count'.in = (ci + n) % Length /\ count'.out = co /\ count' = [count EXCEPT !.in = (ci + n) % Length]
      /\ read_buffer' = Put(n)
  <2>1. port' = [port EXCEPT !.seqno = NextSeq(@), !.wp = (@ + n) % Length, !.flow = @ \/ Stopped(n)]
    BY DEF Store
  <2>2. count' = [count EXCEPT !.in = (@ + n) % Length] /\ read_buffer' = Put(n) BY DEF Store
  <2>3. port'.wp = (port.wp + n) % Length /\ port'.rp = port.rp BY <2>1 DEF PortTypes, PortRec
  <2>4. count'.in = (count.in + n) % Length /\ count'.out = count.out BY <2>2 DEF PortTypes, CountRec
  <2> QED BY <2>2, <2>3, <2>4
<1>3. /\ (w + n) % Length \in 0 .. Length - 1 /\ (ci + n) % Length \in 0 .. Length - 1
      /\ (ci + n) % Length # ci
  <2>1. n \in 0 .. Length - 1 BY <1>1
  <2>2. /\ (ci + n) % Length \in 0 .. Length - 1
        /\ (ci + n) % Length = IF ci + n < Length THEN ci + n ELSE ci + n - Length
    BY <1>1, <2>1, OnIs
  <2>3. (w + n) % Length \in 0 .. Length - 1 BY <1>1, <2>1, OnIs
  <2>4. ci + n < Length => ci + n # ci BY <1>1
  <2>5. ci + n - Length # ci BY <1>1
  <2> QED BY <2>2, <2>3, <2>4, <2>5
<1>4. Used = Ahead(w, r) /\ Used \in 0 .. Length - 1 /\ Used + n < Length /\ Ahead(ci, co) = Used
  BY <1>1, UsedIs DEF RingInv
<1>5. Used' = Ahead(port'.wp, port'.rp) BY DEF Used, Ahead
<1>6. Used' = Used + n BY <1>1, <1>2, <1>4, <1>5, FrontMoves
<1>7. Ahead(count'.in, count'.out) = Used' BY <1>1, <1>2, <1>4, <1>6, FrontMoves
<1>8. ASSUME NEW k \in 0 .. Used' - 1 PROVE read_buffer'[(r + k) % Length] = Number(co + k)
  <2> DEFINE i == (r + k) % Length
  <2>1. k \in 0 .. Length - 1 BY <1>1, <1>4, <1>6
  <2>2. i \in 0 .. Length - 1 BY <1>1, <2>1, OnIs
  <2>3. read_buffer'[i] = IF Ahead(i, w) < n THEN Number(ci + Ahead(i, w)) ELSE read_buffer[i]
    BY <1>2, <2>2, PutIs
  <2>4. CASE k < Used
    <3>1. Ahead(i, w) = Length + k - Used BY <1>1, <1>4, <2>1, <2>4, PutReads
    <3>2. ~(Ahead(i, w) < n)
      <4> HIDE DEF i
      <4> QED BY <1>1, <1>4, <2>1, <3>1
    <3>3. read_buffer[i] = Number(co + k) BY <1>4, <2>1, <2>4 DEF RingInv
    <3> QED BY <2>3, <3>2, <3>3
  <2>5. CASE k >= Used
    <3>1. Ahead(i, w) = k - Used BY <1>1, <1>4, <2>1, <2>5, PutWrites
    <3>2. k - Used < n /\ k - Used \in 0 .. Length - 1
      <4> HIDE DEF i, w, r, ci, co
      <4> QED BY <1>1, <1>4, <1>6, <2>1, <2>5
    <3>3. Used = IF ci < co THEN Length + ci - co ELSE ci - co BY <1>1, <1>4, AheadIs
    <3>4. /\ Number(ci + (k - Used)) =
                (IF ci + (k - Used) < Length THEN ci + (k - Used) ELSE ci + (k - Used) - Length) + 1
          /\ Number(co + k) = (IF co + k < Length THEN co + k ELSE co + k - Length) + 1
      BY <1>1, <2>1, <3>2, NumberIs
    <3>5. Number(ci + (k - Used)) = Number(co + k) BY <1>1, <1>4, <2>1, <2>5, <3>2, <3>3, <3>4
    <3> QED BY <2>3, <3>1, <3>2, <3>5
  <2> QED BY <1>4, <2>1, <2>4, <2>5
<1>9. count' \in CountRec BY <1>1, <1>2, <1>3 DEF PortTypes, CountRec
<1>10. RingInv' BY <1>2, <1>7, <1>8 DEF RingInv
<1> QED BY <1>2, <1>3, <1>6, <1>9, <1>10, PutIs

LEMMA OneBelow ==
    ASSUME NEW i \in Int, NEW k \in Int, NEW u \in Int, NEW l \in Int, NEW q \in Int, i >= 1, i <= k, k <= u, u <= l
    PROVE  i - 1 \in 0 .. u - 1 /\ i - 1 \in 0 .. l - 1 /\ q + i - 1 = q + (i - 1)
OBVIOUS

(* A read takes its front, in order, and lets the chip go above two thirds. *)
LEMMA CopyStep ==
    ASSUME PortTypes, RingInv, ReaderCopies, Used # 0
    PROVE  /\ PortTypes' /\ RingInv' /\ UserInv' /\ reader'.pc = "leave"
           /\ port'.state = port.state /\ Used' \in 0 .. Used - 1
           /\ UNCHANGED <<rx_done, ucom>>
           /\ portGhost'.missed = portGhost.missed /\ portGhost'.raced = portGhost.raced
           /\ \/ /\ port'.flow = port.flow /\ UNCHANGED <<chip, portGhost>>
                 /\ port.flow => Length - 1 - Used' <= (Length * 2) \div 3
              \/ /\ port.flow /\ ~port'.flow /\ ~chip'.ftl /\ chip'.late = InFlight /\ portGhost' = portGhost
                 /\ Length - 1 - Used' > (Length * 2) \div 3
              \/ portGhost'.skewed
<1> DEFINE n == Lowest(ReadSize, Used)
           w == port.wp
           r == port.rp
           ci == count.in
           co == count.out
           p == (r + n) % Length
           empty == p = w
           rp1 == IF empty THEN 0 ELSE p
           wp1 == IF empty THEN 0 ELSE w
           resume == port.flow /\ Resumed(rp1, wp1)
<1>1. /\ Length \in Nat \ {0} /\ w \in 0 .. Length - 1 /\ r \in 0 .. Length - 1
      /\ ci \in 0 .. Length - 1 /\ co \in 0 .. Length - 1
      /\ read_buffer \in [0 .. Length - 1 -> 0 .. Length]
  BY Ranges
<1>2. /\ reader' = [pc |-> "leave", user |-> Take(n)]
      /\ read_buffer' = [i \in DOMAIN read_buffer |->
                           IF (Length + i - port.rp) % Length < n THEN 0 ELSE read_buffer[i]]
      /\ count' = IF empty THEN Fresh ELSE [count EXCEPT !.out = (@ + n) % Length]
      /\ port' = [port EXCEPT !.rp = rp1, !.wp = wp1, !.flow = @ /\ ~resume]
      /\ IF resume THEN skw_sdio_rx_port_follow_ctl(chip, FALSE) ELSE UNCHANGED <<chip, portGhost>>
      /\ UNCHANGED <<rx_done, ucom>>
  BY DEF ReaderCopies
<1>3. Used = Ahead(w, r) /\ Used \in 1 .. Length - 1 /\ Ahead(ci, co) = Used BY <1>1, UsedIs DEF RingInv
<1>4. n \in 1 .. Used
  <2>1. ReadSize \in Nat \ {0} BY PortConstants
  <2>2. Used \in Int /\ Used >= 1 BY <1>1, <1>3
  <2> QED BY ONLY <2>1, <2>2 DEF Lowest, n
<1> HIDE DEF n
<1>5. p \in 0 .. Length - 1 /\ Ahead(w, p) = Used - n /\ (empty <=> n = Used)
  <2>1. n \in 0 .. Ahead(w, r) BY <1>3, <1>4
  <2>2. w \in 0 .. Length - 1 /\ r \in 0 .. Length - 1 /\ Used = Ahead(w, r) BY <1>1, <1>3
  <2>3. p \in 0 .. Length - 1 /\ Ahead(w, p) = Ahead(w, r) - n /\ (p = w <=> n = Ahead(w, r))
    <3> HIDE DEF w, r
    <3> QED BY ONLY <2>1, <2>2, BackMoves
  <2> QED BY <2>2, <2>3
<1>6. /\ (co + n) % Length \in 0 .. Length - 1 /\ Ahead(ci, (co + n) % Length) = Used - n
  <2>1. n \in 0 .. Ahead(ci, co) BY <1>3, <1>4
  <2> HIDE DEF ci, co
  <2> QED BY <1>1, <1>3, <2>1, BackMoves
<1>7. port'.rp = rp1 /\ port'.wp = wp1 /\ port'.flow = (port.flow /\ ~resume) /\ port'.state = port.state
  BY <1>2 DEF PortTypes, PortRec
<1>8. Used' = Ahead(wp1, rp1) BY <1>7 DEF Used, Ahead
<1>9. Ahead(0, 0) = 0 BY <1>1, AheadIs
<1>10. Used' = Used - n BY <1>3, <1>4, <1>5, <1>8, <1>9
<1>11. Used' \in 0 .. Used - 1 BY <1>3, <1>4, <1>10
<1>12. ASSUME NEW k \in 0 .. Used - 1
       PROVE /\ (r + k) % Length \in 0 .. Length - 1 /\ Ahead((r + k) % Length, r) = k
             /\ read_buffer[(r + k) % Length] = Number(co + k)
             /\ Number(co + k) = (IF co + k < Length THEN co + k ELSE co + k - Length) + 1
  <2>1. k \in 0 .. Length - 1 BY <1>1, <1>3
  <2>2. Ahead(r, r) = 0
    <3> HIDE DEF r, w
    <3> QED BY <1>1, AheadIs
  <2>3. Ahead((r + k) % Length, r) = k
    <3> HIDE DEF r, w, ci, co
    <3>1. r \in 0 .. Length - 1 /\ Length \in Nat /\ k >= Ahead(r, r) BY <1>1, <2>1, <2>2
    <3>2. Ahead((r + k) % Length, r) = k - Ahead(r, r) BY ONLY <2>1, <3>1, PutWrites
    <3> QED BY ONLY <2>1, <2>2, <3>1, <3>2
  <2> QED BY <1>1, <2>1, <2>3, OnIs, NumberIs DEF RingInv
<1>13. read_buffer' \in [0 .. Length - 1 -> 0 .. Length] BY <1>1, <1>2
<1>14. ASSUME NEW i \in 0 .. Length - 1, ~(Ahead(i, r) < n) PROVE read_buffer'[i] = read_buffer[i]
  BY <1>1, <1>2, <1>14 DEF Ahead
<1>15. count' \in CountRec /\ Ahead(count'.in, count'.out) = Used'
  <2>1. CASE empty BY <1>1, <1>2, <1>5, <1>9, <1>10, <1>3, <2>1 DEF Fresh, CountRec
  <2>2. CASE ~empty
    <3>1. count' \in CountRec /\ count'.in = ci /\ count'.out = (co + n) % Length
      BY <1>2, <1>6, <2>2 DEF PortTypes, CountRec
    <3> QED BY <3>1, <1>6, <1>10
  <2> QED BY <2>1, <2>2
<1>16. ASSUME NEW k \in 0 .. Used' - 1
       PROVE  read_buffer'[(port'.rp + k) % Length] = Number(count'.out + k)
  <2>1. ~empty /\ k + n \in 0 .. Used - 1 /\ k \in 0 .. Length - 1 /\ ~(k + n < n)
    <3>1. k \in 0 .. (Used - n) - 1 BY <1>10
    <3>2. k + n \in 0 .. Used - 1 /\ k \in 0 .. Length - 1 /\ ~(k + n < n) /\ n # Used
      <4>1. Used \in 1 .. Length - 1 /\ n \in 1 .. Used /\ Length \in Nat BY <1>1, <1>3, <1>4
      <4> QED BY ONLY <3>1, <4>1
    <3> QED BY <1>5, <3>2
  <2>2. port'.rp = p /\ count'.out = (co + n) % Length BY <1>2, <1>7, <2>1 DEF PortTypes, CountRec
  <2>3. n \in 0 .. Length - 1 BY <1>1, <1>3, <1>4
  <2>4. p = IF r + n < Length THEN r + n ELSE r + n - Length BY <1>1, <2>3, OnIs
  <2>5. (p + k) % Length = IF p + k < Length THEN p + k ELSE p + k - Length BY <1>5, <2>1, OnIs
  <2>6. (r + (k + n)) % Length = IF r + (k + n) < Length THEN r + (k + n) ELSE r + (k + n) - Length
    <3>1. k + n \in 0 .. Length - 1 BY <1>1, <1>3, <2>1
    <3> QED BY <1>1, <3>1, OnIs
  <2>7. (p + k) % Length = (r + (k + n)) % Length
    <3>1. /\ Length \in Nat /\ r \in 0 .. Length - 1 /\ p \in 0 .. Length - 1
          /\ n \in 0 .. Length - 1 /\ k \in 0 .. Length - 1
      BY <1>1, <1>5, <2>1, <2>3
    <3> HIDE DEF p, r
    <3>2. (IF p + k < Length THEN p + k ELSE p + k - Length)
            = (IF r + (k + n) < Length THEN r + (k + n) ELSE r + (k + n) - Length)
      <4>1. k + n < Length BY <1>1, <1>3, <2>1
      <4>2. CASE r + n < Length BY ONLY <2>4, <3>1, <4>1, <4>2
      <4>3. CASE ~(r + n < Length) BY ONLY <2>4, <3>1, <4>1, <4>3
      <4> QED BY <4>2, <4>3
    <3> QED BY ONLY <2>5, <2>6, <3>2
  <2> DEFINE c == (co + n) % Length
  <2>8. c \in 0 .. Length - 1 /\ c = IF co + n < Length THEN co + n ELSE co + n - Length BY <1>1, <2>3, OnIs
  <2>9. Number(c + k) = (IF c + k < Length THEN c + k ELSE c + k - Length) + 1 BY <2>1, <2>8, NumberIs
  <2>10. Number(co + (k + n)) = (IF co + (k + n) < Length THEN co + (k + n) ELSE co + (k + n) - Length) + 1
    BY <1>12, <2>1
  <2>11. Number(c + k) = Number(co + (k + n))
    <3>1. co \in 0 .. Length - 1 /\ Length \in Nat /\ k + n < Length BY <1>1, <1>3, <2>1
    <3> HIDE DEF c, co
    <3>2. CASE co + n < Length
      <4>1. c + k = co + (k + n) BY ONLY <2>1, <2>3, <2>8, <3>1, <3>2
      <4> QED BY <4>1
    <3>3. CASE ~(co + n < Length)
      <4>1. c + k = co + (k + n) - Length /\ c + k < Length /\ ~(co + (k + n) < Length)
        BY ONLY <2>1, <2>3, <2>8, <3>1, <3>3
      <4> QED BY <2>9, <2>10, <4>1
    <3> QED BY <3>2, <3>3
  <2>12. read_buffer'[(r + (k + n)) % Length] = Number(co + (k + n)) BY <1>12, <1>14, <2>1
  <2> QED BY <2>2, <2>7, <2>11, <2>12
<1>17. RingInv' BY <1>15, <1>16 DEF RingInv
<1>18. Take(n) \in Seq(0 .. Length) /\ DOMAIN Take(n) = 1 .. n
       /\ \A i \in 1 .. n : Take(n)[i] = Number(co + (i - 1))
  <2>1. ASSUME NEW i \in 1 .. n
        PROVE  /\ read_buffer[(r + i - 1) % Length] = Number(co + (i - 1))
               /\ Number(co + (i - 1)) \in 0 .. Length
    <3>4. i \in Int /\ i >= 1 /\ i <= n BY <1>4
    <3>5. r \in Int /\ Used \in Int /\ n <= Used /\ Used <= Length /\ Length \in Int BY <1>1, <1>3, <1>4
    <3>1. i - 1 \in 0 .. Used - 1 /\ i - 1 \in 0 .. Length - 1 /\ r + i - 1 = r + (i - 1)
      <4> HIDE DEF ci, co, w, r, p, empty, rp1, wp1, resume
      <4>1. n \in Int BY <1>4
      <4> QED BY ONLY <3>4, <3>5, <4>1, OneBelow
    <3>2. Number(co + (i - 1)) \in 1 .. Length BY <1>1, <3>1, NumberIs
    <3>3. read_buffer[(r + (i - 1)) % Length] = Number(co + (i - 1)) BY <1>12, <3>1
    <3>6. \A x \in 1 .. Length : x \in 0 .. Length BY <1>1
    <3> HIDE DEF ci, co, w, r
    <3> QED BY ONLY <3>1, <3>2, <3>3, <3>6
  <2>2. Take(n) = [i \in 1 .. n |-> read_buffer[(r + i - 1) % Length]] BY DEF Take
  <2>3. n \in Nat /\ Take(n) \in [1 .. n -> 0 .. Length] BY <1>3, <1>4, <2>1, <2>2
  <2> QED BY <2>1, <2>2, <2>3
<1>19. UserInv'
  <2> SUFFICES ASSUME NEW i \in DOMAIN reader'.user PROVE reader'.user[i] = Number(reader'.user[1] + i - 2)
    BY DEF UserInv
  <2>1. reader'.user = Take(n) /\ i \in 1 .. n /\ 1 \in 1 .. n BY <1>2, <1>3, <1>4, <1>18
  <2>2. reader'.user[i] = Number(co + (i - 1)) /\ reader'.user[1] = Number(co + 0) BY <1>18, <2>1
  <2>3. Number(co + 0) = co + 1
    <3> HIDE DEF ci, co, w, r
    <3>1. 0 \in 0 .. Used - 1 BY <1>3
    <3>2. Number(co + 0) = (IF co + 0 < Length THEN co + 0 ELSE co + 0 - Length) + 1 BY <1>12, <3>1
    <3>3. co \in 0 .. Length - 1 /\ Length \in Nat BY <1>1
    <3> QED BY ONLY <3>2, <3>3
  <2>4. co + 1 + i - 2 = co + (i - 1)
    <3>1. co \in Int /\ i \in Int BY <1>1, <1>3, <1>4, <2>1
    <3> HIDE DEF ci, co, w, r
    <3> QED BY ONLY <3>1
  <2> QED BY <2>2, <2>3, <2>4
<1>20. port' \in PortRec
  <2>1. rp1 \in 0 .. Length - 1 /\ wp1 \in 0 .. Length - 1 BY <1>1, <1>5
  <2>2. (port.flow /\ ~resume) \in BOOLEAN OBVIOUS
  <2> HIDE DEF rp1, wp1, resume
  <2> QED BY <1>2, <2>1, <2>2 DEF PortTypes, PortRec
<1>21. Resumed(rp1, wp1) <=> Length - 1 - Used' > (Length * 2) \div 3 BY <1>8 DEF Resumed, Ahead
<1>22. resume => /\ chip' \in ChipRec /\ portGhost' \in PortGhostRec
                 /\ portGhost'.missed = portGhost.missed /\ portGhost'.raced = portGhost.raced
                 /\ \/ /\ port.flow /\ ~port'.flow /\ ~chip'.ftl /\ chip'.late = InFlight /\ portGhost' = portGhost
                       /\ Length - 1 - Used' > (Length * 2) \div 3
                    \/ portGhost'.skewed
  <2> HAVE resume
  <2>1. skw_sdio_rx_port_follow_ctl(chip, FALSE) BY <1>2
  <2>3. /\ chip' \in ChipRec /\ portGhost' \in PortGhostRec
        /\ portGhost'.missed = portGhost.missed /\ portGhost'.raced = portGhost.raced
        /\ \/ portGhost' = portGhost /\ ~chip'.ftl /\ chip'.late = InFlight
           \/ portGhost'.skewed
    <3> HIDE DEF resume, rp1, wp1, p, n, w, r, ci, co
    <3> QED BY ONLY <2>1, PortTypes, ReleaseIs
  <2>5. port.flow /\ ~port'.flow BY <1>7
  <2>6. Length - 1 - Used' > (Length * 2) \div 3 BY <1>21
  <2> HIDE DEF resume, rp1, wp1, p, n, w, r, ci, co
  <2> QED BY ONLY <2>3, <2>5, <2>6
<1>23. ~resume => /\ port'.flow = port.flow /\ UNCHANGED <<chip, portGhost>> /\ chip' \in ChipRec
                  /\ portGhost' \in PortGhostRec
                  /\ portGhost'.missed = portGhost.missed /\ portGhost'.raced = portGhost.raced
                  /\ port.flow => Length - 1 - Used' <= (Length * 2) \div 3
  <2> HAVE ~resume
  <2>1. UNCHANGED <<chip, portGhost>> /\ chip \in ChipRec /\ portGhost \in PortGhostRec BY <1>2 DEF PortTypes
  <2>2. port'.flow = port.flow BY <1>7 DEF PortTypes, PortRec
  <2>3. port.flow => Length - 1 - Used' <= (Length * 2) \div 3
    <3>1. port.flow => ~(Length - 1 - Used' > (Length * 2) \div 3) BY <1>21
    <3>2. Length - 1 - Used' \in Int /\ (Length * 2) \div 3 \in Int BY <1>1, <1>3, <1>4, <1>10
    <3> QED BY <3>1, <3>2
  <2> QED BY <2>1, <2>2, <2>3
<1>24. reader' \in ReaderRec /\ reader'.pc = "leave" BY <1>2, <1>18 DEF ReaderRec
<1>25. PortTypes' BY <1>2, <1>13, <1>15, <1>20, <1>22, <1>23, <1>24 DEF PortTypes
<1> QED BY <1>2, <1>7, <1>11, <1>17, <1>19, <1>22, <1>23, <1>24, <1>25

LEMMA RingStays ==
    ASSUME RingInv, port'.wp = port.wp, port'.rp = port.rp, UNCHANGED <<read_buffer, count>>
    PROVE  RingInv' /\ Used' = Used
<1>1. Used' = Used BY DEF Used
<1> QED BY <1>1 DEF RingInv

LEMMA PacketSent == ASSUME PortInv, PacketArrives PROVE Sent \in ChipRec /\ Sent.ftl = chip.ftl
<1>1. (chip.ftl => chip.late > 0) /\ chip \in ChipRec BY DEF PacketArrives, PortInv, PortTypes
<1>2. SeqMod \in Nat \ {0} /\ InFlight \in Nat BY PortConstants
<1>3. NextSeq(chip.seq) \in Nat /\ (IF chip.ftl THEN chip.late - 1 ELSE chip.late) \in 0 .. InFlight
  BY <1>1, <1>2 DEF ChipRec, NextSeq
<1> QED BY ONLY <1>1, <1>3 DEF Sent, ChipRec

LEMMA PacketArrivesStep == ASSUME PortInv, PacketArrives PROVE PortInv'
<1> USE DEF PortInv
<1>1. /\ chip.ftl => chip.late > 0
      /\ UNCHANGED <<rx_done, reader, ucom>>
  BY DEF PacketArrives, Users
<1>2. PICK n \in PacketSizes : skw_sdio_handle_packet(n) BY DEF PacketArrives
<1>3. n \in 1 .. Length /\ Length \in Nat \ 0 .. 3 /\ SeqMod \in Nat \ {0} /\ InFlight \in Nat BY PortConstants
<1>4. \A q \in Nat : NextSeq(q) \in Nat BY <1>3 DEF NextSeq
<1>5. Sent \in ChipRec /\ Sent.ftl = chip.ftl BY PacketSent
<1>6. CASE /\ chip' = Sent /\ UNCHANGED <<read_buffer, count, portGhost>>
           /\ port' \in {port, [port EXCEPT !.seqno = NextSeq(@)]}
  <2>1. /\ port' \in PortRec /\ port'.wp = port.wp /\ port'.rp = port.rp /\ port'.state = port.state
        /\ port'.flow = port.flow
    BY <1>4, <1>6 DEF PortTypes, PortRec
  <2>2. RingInv' /\ Used' = Used BY <1>6, <2>1, RingStays
  <2>3. PortTypes' BY <1>1, <1>5, <1>6, <2>1 DEF PortTypes
  <2>4. UserInv' BY <1>1 DEF UserInv, Number
  <2>5. BufferInv' BY <1>1, <1>6, <2>1 DEF BufferInv, PortBufferSafe, Inside
  <2>6. PortFlow' BY <1>1, <1>5, <1>6, <2>1, <2>2 DEF PortFlow
  <2> QED BY <2>2, <2>3, <2>4, <2>5, <2>6
<1>7. CASE ~(Free < n) /\ Store(n)
  <2>1. n \in 1 .. Length - 1 /\ n <= Free /\ Used \in 0 .. Length - 1 BY <1>3, <1>7, UsedIs
  <2>2. /\ port'.wp \in 0 .. Length - 1 /\ port'.rp = port.rp /\ count' \in CountRec
        /\ read_buffer' \in [0 .. Length - 1 -> 0 .. Length] /\ Used' = Used + n /\ RingInv'
    BY <1>7, <2>1, StoreStep
  <2>3. port' = [port EXCEPT !.seqno = NextSeq(@), !.wp = (@ + n) % Length, !.flow = @ \/ Stopped(n)]
    BY <1>7 DEF Store
  <2>4. /\ port' \in PortRec /\ port'.state = port.state /\ port'.flow = (port.flow \/ Stopped(n))
    <3>1. port'.wp = (port.wp + n) % Length /\ (port.flow \/ Stopped(n)) \in BOOLEAN BY <2>3 DEF PortTypes, PortRec
    <3> QED BY <1>4, <2>2, <2>3, <3>1 DEF PortTypes, PortRec
  <2>5. /\ chip' \in ChipRec /\ portGhost' \in PortGhostRec
        /\ portGhost'.missed = portGhost.missed /\ portGhost'.raced = portGhost.raced
        /\ ~portGhost'.skewed => portGhost' = portGhost /\ chip'.ftl = (chip.ftl \/ Stopped(n))
    BY <1>5, <1>7, StoreTells
  <2>6. PortTypes' BY <1>1, <2>2, <2>4, <2>5 DEF PortTypes
  <2>7. UserInv' BY <1>1 DEF UserInv, Number
  <2>8. BufferInv' BY <1>1, <2>4, <2>5 DEF BufferInv, PortBufferSafe, Inside
  <2>9. Used' > 0 BY <2>1, <2>2
  <2>10. PortFlow' BY <1>1, <2>4, <2>5, <2>9 DEF PortFlow
  <2> QED BY <2>2, <2>6, <2>7, <2>8, <2>10
<1> QED BY <1>2, <1>6, <1>7 DEF skw_sdio_handle_packet

(* Whatever moves no byte and leaves both flow-control bits alone. *)
LEMMA QuietStep ==
    ASSUME PortInv, port' \in PortRec, port'.wp = port.wp, port'.rp = port.rp, port'.flow = port.flow,
           chip' \in ChipRec, chip'.ftl = chip.ftl, reader' \in ReaderRec, reader'.user \in {reader.user, <<>>},
           ucom' \in UcomRec, portGhost' \in PortGhostRec, portGhost'.skewed = portGhost.skewed, rx_done' \in BOOLEAN,
           UNCHANGED <<read_buffer, count>>, BufferInv'
    PROVE  PortInv'
<1>1. RingInv' /\ Used' = Used BY RingStays DEF PortInv
<1>2. PortTypes' BY DEF PortInv, PortTypes
<1>3. PortFlow' BY <1>1 DEF PortInv, PortFlow
<1>4. UserInv' BY DEF PortInv, UserInv, Number
<1> QED BY <1>1, <1>2, <1>3, <1>4 DEF PortInv

LEMMA UserEmpty == <<>> \in Seq(0 .. Length) OBVIOUS

LEMMA ReaderStep ==
    ASSUME PortInv, \/ ucom_read \/ recv_data \/ ReaderArms \/ ReaderTests \/ ReaderWakes \/ ReaderInterrupted
                    \/ ReaderLeaves \/ (ReaderCopies /\ Used = 0)
    PROVE  PortInv'
<1> USE DEF PortInv, PortOnly, Chip, ReaderGoes, BufferInv, PortBufferSafe, Inside, PortTypes, PortRec, ReaderRec,
            UcomRec, PortGhostRec
<1>1. CASE ucom_read
  <2>1. /\ port' = port /\ rx_done' = rx_done /\ portGhost' = portGhost /\ chip' = chip /\ ucom' = ucom
        /\ UNCHANGED <<read_buffer, count>> /\ reader' = [pc |-> "entered", user |-> <<>>]
        /\ reader.pc = "idle" /\ ucom.open > 0
    BY <1>1 DEF ucom_read
  <2>2. reader' \in ReaderRec /\ reader'.pc = "entered" /\ reader'.user = <<>> BY <2>1, UserEmpty
  <2>3. BufferInv' BY <2>1, <2>2
  <2> QED BY <2>1, <2>2, <2>3, QuietStep
<1>2. CASE recv_data
  <2>1. /\ port' = [port EXCEPT !.state = IF @ = "CLSE" THEN "IDLE" ELSE @] /\ reader.pc = "entered"
        /\ rx_done' = rx_done /\ portGhost' = portGhost /\ chip' = chip /\ ucom' = ucom
        /\ UNCHANGED <<read_buffer, count>>
        /\ \/ reader' = [reader EXCEPT !.pc = "leave"]
           \/ reader' = [reader EXCEPT !.pc = "arm"] /\ port.state \notin {"IDLE", "CLSE"}
    BY <1>2 DEF recv_data
  <2>2. /\ port' \in PortRec /\ port'.wp = port.wp /\ port'.rp = port.rp /\ port'.flow = port.flow
        /\ port'.state = IF port.state = "CLSE" THEN "IDLE" ELSE port.state
    BY <2>1
  <2>3. /\ reader' \in ReaderRec /\ reader'.user = reader.user
        /\ reader'.pc = "leave" \/ (reader'.pc = "arm" /\ port.state \notin {"IDLE", "CLSE"})
    BY <2>1
  <2>4. BufferInv' BY <2>1, <2>2, <2>3
  <2> QED BY <2>1, <2>2, <2>3, <2>4, QuietStep
<1>3. CASE ReaderArms \/ ReaderTests \/ (ReaderCopies /\ Used = 0)
  <2>1. /\ port' = port /\ portGhost' = portGhost /\ chip' = chip /\ ucom' = ucom
        /\ UNCHANGED <<read_buffer, count>> /\ rx_done' \in BOOLEAN
        /\ \/ reader' = [reader EXCEPT !.pc = "test"] /\ reader.pc = "arm"
           \/ reader' = [reader EXCEPT !.pc = "copy"] /\ reader.pc = "test" /\ rx_done' = rx_done
           \/ reader' = [reader EXCEPT !.pc = "leave"] /\ reader.pc = "test" /\ rx_done' = rx_done
           \/ reader' = [reader EXCEPT !.pc = "wait"] /\ reader.pc = "test" /\ rx_done' = rx_done /\ port.state # "CLSE"
           \/ reader' = [reader EXCEPT !.pc = "arm"] /\ reader.pc = "copy" /\ rx_done' = rx_done
    BY <1>3 DEF ReaderArms, ReaderTests, ReaderCopies
  <2>2. /\ reader' \in ReaderRec /\ reader'.user = reader.user
        /\ \/ reader'.pc = "test" /\ reader.pc = "arm"
           \/ reader'.pc = "copy" /\ reader.pc = "test"
           \/ reader'.pc = "leave" /\ reader.pc = "test"
           \/ reader'.pc = "wait" /\ reader.pc = "test" /\ port.state # "CLSE"
           \/ reader'.pc = "arm" /\ reader.pc = "copy"
    BY <2>1
  <2>3. BufferInv' BY <2>1, <2>2
  <2> QED BY <2>1, <2>2, <2>3, QuietStep
<1>4. CASE ReaderWakes
  <2>1. /\ port' = [port EXCEPT !.state = IF @ = "CLSE" THEN "IDLE" ELSE @] /\ reader.pc = "wait"
        /\ rx_done' = FALSE /\ portGhost' = portGhost /\ chip' = chip /\ ucom' = ucom
        /\ UNCHANGED <<read_buffer, count>>
        /\ \/ reader' = [reader EXCEPT !.pc = "leave"]
           \/ reader' = [reader EXCEPT !.pc = "copy"] /\ port.state # "CLSE"
    BY <1>4 DEF ReaderWakes
  <2>2. /\ port' \in PortRec /\ port'.wp = port.wp /\ port'.rp = port.rp /\ port'.flow = port.flow
        /\ port'.state = IF port.state = "CLSE" THEN "IDLE" ELSE port.state
    BY <2>1
  <2>3. /\ reader' \in ReaderRec /\ reader'.user = reader.user
        /\ reader'.pc = "leave" \/ (reader'.pc = "copy" /\ port.state # "CLSE")
    BY <2>1
  <2>4. BufferInv' BY <2>1, <2>2, <2>3
  <2> QED BY <2>1, <2>2, <2>3, <2>4, QuietStep
<1>5. CASE ReaderInterrupted
  <2>1. /\ port' = port /\ rx_done' = rx_done /\ portGhost' = portGhost /\ chip' = chip /\ ucom' = ucom
        /\ UNCHANGED <<read_buffer, count>> /\ reader' = [reader EXCEPT !.pc = "leave"] /\ reader.pc = "wait"
    BY <1>5 DEF ReaderInterrupted
  <2>2. reader' \in ReaderRec /\ reader'.pc = "leave" /\ reader'.user = reader.user BY <2>1
  <2>3. BufferInv' BY <2>1, <2>2
  <2> QED BY <2>1, <2>2, <2>3, QuietStep
<1>6. CASE ReaderLeaves
  <2>1. /\ port' = port /\ rx_done' = rx_done /\ chip' = chip /\ ucom' = ucom
        /\ UNCHANGED <<read_buffer, count>> /\ reader' = [pc |-> "idle", user |-> <<>>]
        /\ portGhost' = [portGhost EXCEPT !.missed = FALSE]
    BY <1>6 DEF ReaderLeaves
  <2>2. reader' \in ReaderRec /\ reader'.pc = "idle" /\ reader'.user = <<>> BY <2>1, UserEmpty
  <2>3. portGhost' \in PortGhostRec /\ portGhost'.skewed = portGhost.skewed /\ portGhost'.raced = portGhost.raced
    BY <2>1
  <2>4. BufferInv' BY <2>1, <2>2, <2>3
  <2> QED BY <2>1, <2>2, <2>3, <2>4, QuietStep
<1> QED BY <1>1, <1>2, <1>3, <1>4, <1>5, <1>6

LEMMA ReaderCopiesStep == ASSUME PortInv, ReaderCopies PROVE PortInv'
<1>1. CASE Used = 0 BY <1>1, ReaderStep
<1>2. CASE Used # 0
  <2>1. PortTypes /\ RingInv /\ BufferInv /\ PortFlow BY DEF PortInv
  <2>2. /\ PortTypes' /\ RingInv' /\ UserInv' /\ reader'.pc = "leave"
        /\ port'.state = port.state /\ Used' \in 0 .. Used - 1
        /\ UNCHANGED <<rx_done, ucom>>
        /\ portGhost'.missed = portGhost.missed /\ portGhost'.raced = portGhost.raced
        /\ \/ /\ port'.flow = port.flow /\ UNCHANGED <<chip, portGhost>>
              /\ port.flow => Length - 1 - Used' <= (Length * 2) \div 3
           \/ port.flow /\ ~port'.flow /\ ~chip'.ftl
           \/ portGhost'.skewed
    BY <1>2, <2>1, CopyStep
  <2>3. reader.pc = "copy" BY DEF ReaderCopies
  <2>4. BufferInv' BY <2>1, <2>2, <2>3 DEF BufferInv, PortBufferSafe, Inside
  <2>5. ~(Length - 1 - 0 <= (Length * 2) \div 3) BY PortConstants
  <2>6. Used' # 0 => Used' > 0 BY <2>2, PortConstants
  <2>7. ASSUME port'.flow = port.flow, UNCHANGED <<chip, portGhost>>,
               port.flow => Length - 1 - Used' <= (Length * 2) \div 3
        PROVE  PortFlow'
    <3>1. port'.flow => Used' # 0 BY <2>5, <2>7
    <3>2. chip'.ftl = chip.ftl /\ portGhost'.skewed = portGhost.skewed /\ port'.flow = port.flow BY <2>7
    <3>3. port'.flow => Used' > 0 BY <2>6, <3>1
    <3> QED BY ONLY <2>1, <3>2, <3>3 DEF PortFlow
  <2>8. PortFlow'
    <3>1. CASE ~port'.flow /\ ~chip'.ftl
      <4>1. port' \in PortRec /\ chip' \in ChipRec BY <2>2 DEF PortTypes
      <4>2. port'.flow = FALSE /\ chip'.ftl = FALSE BY <3>1, <4>1 DEF PortRec, ChipRec
      <4> QED BY <4>2 DEF PortFlow
    <3>2. CASE portGhost'.skewed BY <3>2 DEF PortFlow
    <3> QED BY <2>2, <2>7, <3>1, <3>2
  <2> QED BY <2>2, <2>4, <2>8 DEF PortInv
<1> QED BY <1>1, <1>2

LEMMA WriterStep == ASSUME PortInv, LinkMessage \/ ucom_write \/ send_data \/ ReceiverSignals PROVE PortInv'
<1> USE DEF PortInv, BufferInv, PortBufferSafe, Inside, PortTypes, PortRec, ReaderRec, UcomRec, PortGhostRec,
            ChipRec, Chip, Users
<1>0. port \in PortRec /\ chip \in ChipRec OBVIOUS
<1>1. CASE LinkMessage
  <2>1. /\ chip' = [chip EXCEPT !.links = @ - 1] /\ port' \in {port, [port EXCEPT !.tx_flow = @ - 1]}
        /\ UNCHANGED <<read_buffer, rx_done, reader, ucom, count, portGhost>>
    BY <1>1 DEF LinkMessage
  <2>2. /\ port' \in PortRec /\ port'.wp = port.wp /\ port'.rp = port.rp /\ port'.flow = port.flow
        /\ port'.state = port.state
    BY ONLY <1>0, <2>1 DEF PortRec
  <2>3. chip' \in ChipRec /\ chip'.ftl = chip.ftl BY ONLY <1>0, <2>1 DEF ChipRec
  <2>4. BufferInv' BY <2>1, <2>2
  <2>5. /\ reader' \in ReaderRec /\ reader'.user = reader.user /\ ucom' \in UcomRec /\ rx_done' \in BOOLEAN
        /\ portGhost' \in PortGhostRec /\ portGhost'.skewed = portGhost.skewed
    BY <2>1
  <2> QED BY ONLY PortInv, <2>1, <2>2, <2>3, <2>4, <2>5, QuietStep
<1>2. CASE ucom_write
  <2>1. /\ portGhost' = [portGhost EXCEPT !.missed = @ \/ (port.state = "CLSE" /\ Inside)]
        /\ UNCHANGED <<read_buffer, rx_done, reader, ucom, count>> /\ ucom.open > 0 /\ ucom.removal # "gone"
        /\ \/ /\ port.state \in {"IDLE", "CLSE"} /\ port' = [port EXCEPT !.state = "IDLE"] /\ chip' = chip
           \/ /\ port.state \notin {"IDLE", "CLSE"} /\ port' = [port EXCEPT !.tx_flow = @ + 1]
              /\ chip' = [chip EXCEPT !.links = @ + 1]
           \/ port.state \notin {"IDLE", "CLSE"} /\ port' = port /\ chip' = chip
    BY <1>2 DEF ucom_write
  <2>2. /\ port' \in PortRec /\ port'.wp = port.wp /\ port'.rp = port.rp /\ port'.flow = port.flow
        /\ port'.state = IF port.state \in {"IDLE", "CLSE"} THEN "IDLE" ELSE port.state
    BY ONLY <1>0, <2>1 DEF PortRec
  <2>3. chip' \in ChipRec /\ chip'.ftl = chip.ftl BY ONLY <1>0, <2>1 DEF ChipRec
  <2>4. /\ portGhost' \in PortGhostRec /\ portGhost'.skewed = portGhost.skewed /\ portGhost'.raced = portGhost.raced
        /\ portGhost'.missed = (portGhost.missed \/ (port.state = "CLSE" /\ Inside))
    BY <2>1
  <2>5. BufferInv' BY <2>1, <2>2, <2>4
  <2> QED BY <2>1, <2>2, <2>3, <2>4, <2>5, QuietStep
<1>3. CASE send_data
  <2>1. /\ port' \in {port, [port EXCEPT !.tx_flow = IF @ # 0 THEN @ - 1 ELSE @]} /\ chip' = chip
        /\ UNCHANGED <<read_buffer, rx_done, reader, ucom, count, portGhost>>
    BY <1>3 DEF send_data
  <2>2. /\ port' \in PortRec /\ port'.wp = port.wp /\ port'.rp = port.rp /\ port'.flow = port.flow
        /\ port'.state = port.state
    BY <2>1
  <2>3. BufferInv' BY <2>1, <2>2
  <2> QED BY <2>1, <2>2, <2>3, QuietStep
<1>4. CASE ReceiverSignals
  <2>1. rx_done' = TRUE /\ UNCHANGED <<port, chip, read_buffer, reader, ucom, count, portGhost>>
    BY <1>4 DEF ReceiverSignals
  <2>2. BufferInv' BY <2>1
  <2> QED BY <2>1, <2>2, QuietStep
<1> QED BY <1>1, <1>2, <1>3, <1>4

LEMMA OpenStep == ASSUME PortInv, ucom_open PROVE PortInv'
<1> USE DEF PortInv
<1>1. /\ ucom.removal = "no" /\ ucom' = [ucom EXCEPT !.open = @ + 1] /\ UNCHANGED <<chip, reader>> /\ open_sdio_port
  BY DEF ucom_open, Chip
<1>2. ucom' \in UcomRec /\ ucom'.removal = "no" /\ ucom'.open # 0
  BY <1>1 DEF PortTypes, UcomRec
<1>3. CASE port.state = "OPEN"
  <2>1. UNCHANGED <<port, read_buffer, rx_done, count, portGhost>> BY <1>1, <1>3 DEF open_sdio_port
  <2>2. BufferInv' BY <1>1, <1>2, <2>1 DEF BufferInv, PortBufferSafe, Inside
  <2>3. PortTypes BY DEF PortTypes
  <2> QED BY <1>1, <1>2, <2>1, <2>2, <2>3, QuietStep DEF PortTypes
<1>4. CASE port.state # "OPEN"
  <2>1. /\ port' = [state |-> "OPEN", wp |-> 0, rp |-> 0, flow |-> FALSE, seqno |-> 1, tx_flow |-> 0]
        /\ rx_done' = FALSE /\ read_buffer' = [i \in DOMAIN read_buffer |-> 0] /\ count' = Fresh
        /\ portGhost' = [portGhost EXCEPT !.skewed = @ \/ chip.ftl \/ chip.seq # 1 \/ receiver # "idle"]
    BY <1>1, <1>4 DEF open_sdio_port
  <2>2. Length \in Nat \ {0} BY PortConstants
  <2>3. port' \in PortRec /\ count' \in CountRec /\ read_buffer' \in [0 .. Length - 1 -> 0 .. Length]
    BY <2>1, <2>2 DEF PortTypes, PortRec, CountRec, Fresh
  <2>4. /\ portGhost' \in PortGhostRec /\ portGhost'.missed = portGhost.missed /\ portGhost'.raced = portGhost.raced
        /\ ~portGhost'.skewed => ~portGhost.skewed /\ ~chip.ftl
    BY <2>1 DEF PortTypes, PortGhostRec
  <2>5. PortTypes' BY <1>1, <1>2, <2>1, <2>3, <2>4 DEF PortTypes
  <2>6. Ahead(0, 0) = 0 BY <2>2, AheadIs
  <2>7. Used' = 0 BY <2>1, <2>6 DEF Used, Ahead
  <2>8. RingInv' BY <2>1, <2>6, <2>7 DEF RingInv, Fresh
  <2>9. UserInv' BY <1>1 DEF UserInv, Number
  <2>10. BufferInv' BY <1>1, <1>2, <2>1, <2>4 DEF BufferInv, PortBufferSafe, Inside
  <2>11. PortFlow' BY <1>1, <2>1, <2>4 DEF PortFlow, PortTypes, ChipRec
  <2> QED BY <2>5, <2>8, <2>9, <2>10, <2>11
<1> QED BY <1>3, <1>4

LEMMA CloseIs ==
    ASSUME PortTypes, close_sdio_port
    PROVE  /\ port' \in PortRec /\ port'.wp = port.wp /\ port'.rp = port.rp /\ port'.flow = port.flow
           /\ port'.state \in {"IDLE", "CLSE"} /\ (port'.state = "IDLE" <=> port.state = "IDLE")
           /\ rx_done' \in BOOLEAN /\ (rx_done => rx_done') /\ (port.state # "IDLE" => rx_done')
BY DEF close_sdio_port, PortTypes, PortRec

LEMMA CloseStep == ASSUME PortInv, ucom_release \/ RemovalBegins \/ skw_ucom_remove PROVE PortInv'
<1> USE DEF PortInv, BufferInv, PortBufferSafe, Inside, PortTypes, ReaderRec, UcomRec, PortGhostRec, Chip
<1>1. CASE ucom_release
  <2>1. /\ ucom.open > 0 /\ ucom.removal # "gone" /\ (ucom.open = 1 => reader.pc = "idle")
        /\ ucom' = [ucom EXCEPT !.open = @ - 1] /\ close_sdio_port
        /\ UNCHANGED <<read_buffer, chip, reader, count, portGhost>>
    BY <1>1 DEF ucom_release
  <2>2. /\ port' \in PortRec /\ port'.wp = port.wp /\ port'.rp = port.rp /\ port'.flow = port.flow
        /\ port'.state \in {"IDLE", "CLSE"} /\ (port'.state = "IDLE" <=> port.state = "IDLE")
        /\ rx_done' \in BOOLEAN /\ (rx_done => rx_done') /\ (port.state # "IDLE" => rx_done')
    BY ONLY <2>1, PortInv, CloseIs DEF PortInv
  <2>3. ucom' \in UcomRec /\ ucom'.removal = ucom.removal /\ (ucom'.open = 0 => reader.pc = "idle") BY <2>1
  <2>4. BufferInv' BY <2>1, <2>2, <2>3
  <2> QED BY <2>1, <2>2, <2>3, <2>4, QuietStep
<1>2. CASE RemovalBegins
  <2>1. /\ ucom.removal = "no" /\ ucom' = [ucom EXCEPT !.removal = "waits"]
        /\ IF reader.pc # "idle" THEN close_sdio_port ELSE UNCHANGED <<port, rx_done>>
        /\ portGhost' = [portGhost EXCEPT !.raced = reader.pc = "idle"]
        /\ UNCHANGED <<read_buffer, chip, reader, count>>
    BY <1>2 DEF RemovalBegins
  <2>2. ucom' \in UcomRec /\ ucom'.removal = "waits" /\ ucom'.open = ucom.open BY <2>1
  <2>3. /\ portGhost' \in PortGhostRec /\ portGhost'.skewed = portGhost.skewed /\ portGhost'.missed = portGhost.missed
        /\ portGhost'.raced <=> reader.pc = "idle"
    BY <2>1
  <2>4. CASE reader.pc = "idle"
    <3>1. BufferInv' BY <2>1, <2>2, <2>3, <2>4
    <3> QED BY <2>1, <2>2, <2>3, <2>4, <3>1, QuietStep
  <2>5. CASE reader.pc # "idle"
    <3>1. /\ port' \in PortRec /\ port'.wp = port.wp /\ port'.rp = port.rp /\ port'.flow = port.flow
          /\ port'.state \in {"IDLE", "CLSE"} /\ (port'.state = "IDLE" <=> port.state = "IDLE")
          /\ rx_done' \in BOOLEAN /\ (rx_done => rx_done') /\ (port.state # "IDLE" => rx_done')
      BY ONLY <2>1, <2>5, PortInv, CloseIs DEF PortInv
    <3>2. BufferInv' BY <2>1, <2>2, <2>3, <2>5, <3>1
    <3> QED BY <2>1, <2>2, <2>3, <3>1, <3>2, QuietStep
  <2> QED BY <2>4, <2>5
<1>3. CASE skw_ucom_remove
  <2>1. /\ ucom.removal = "waits" /\ (ucom.open = 0 \/ reader.pc = "idle" \/ (reader.pc = "wait" /\ ~rx_done))
        /\ ucom' = [open |-> 0, removal |-> "gone"]
        /\ UNCHANGED <<port, read_buffer, rx_done, chip, reader, count, portGhost>>
    BY <1>3 DEF skw_ucom_remove
  <2>2. ucom' \in UcomRec /\ ucom'.removal = "gone" /\ ucom'.open = 0 BY <2>1
  <2>3. BufferInv' BY <2>1, <2>2
  <2> QED BY <2>1, <2>2, <2>3, QuietStep
<1> QED BY <1>1, <1>2, <1>3

LEMMA ChipStep == ASSUME PortInv, ChipAsserts \/ ServicesGone \/ ChipRecovers PROVE PortInv'
<1> USE DEF PortInv, Users
<1>1. CASE ChipAsserts
  <2>1. /\ UNCHANGED <<read_buffer, chip, reader, ucom, count>>
        /\ \/ port.state \in {"IDLE", "CLSE"} /\ UNCHANGED <<port, rx_done, portGhost>>
           \/ /\ port.state \notin {"IDLE", "CLSE"} /\ port' = [port EXCEPT !.state = "ASST"] /\ rx_done' = TRUE
              /\ portGhost' = [portGhost EXCEPT !.missed = @ \/ reader.pc \in {"arm", "copy"}]
    BY <1>1 DEF ChipAsserts
  <2>2. /\ port' \in PortRec /\ port'.wp = port.wp /\ port'.rp = port.rp /\ port'.flow = port.flow
        /\ \/ port.state \in {"IDLE", "CLSE"} /\ port'.state = port.state
           \/ port.state \notin {"IDLE", "CLSE"} /\ port'.state = "ASST"
    BY <2>1 DEF PortTypes, PortRec
  <2>3. /\ portGhost' \in PortGhostRec /\ portGhost'.skewed = portGhost.skewed /\ portGhost'.raced = portGhost.raced
        /\ portGhost.missed => portGhost'.missed
    BY <2>1 DEF PortTypes, PortGhostRec
  <2>4. rx_done' \in BOOLEAN /\ (rx_done => rx_done') BY <2>1 DEF PortTypes
  <2>5. BufferInv' BY <2>1, <2>2, <2>3, <2>4 DEF BufferInv, PortBufferSafe, Inside
  <2> QED BY <2>1, <2>2, <2>3, <2>4, <2>5, QuietStep DEF PortTypes
<1>2. CASE ServicesGone
  <2>1. UNCHANGED <<port, read_buffer, rx_done, chip, reader, ucom, count, portGhost>> BY <1>2 DEF ServicesGone
  <2>2. BufferInv' BY <2>1 DEF BufferInv, PortBufferSafe, Inside
  <2> QED BY <2>1, <2>2, QuietStep DEF PortTypes
<1>3. CASE ChipRecovers
  <2>1. /\ chip' = [ftl |-> FALSE, late |-> InFlight, seq |-> 1, links |-> 0]
        /\ portGhost' = [portGhost EXCEPT !.skewed = @ \/ port.seqno # 1 \/ port.flow]
        /\ UNCHANGED <<port, read_buffer, rx_done, reader, ucom, count>>
    BY <1>3 DEF ChipRecovers
  <2>2. InFlight \in Nat BY PortConstants
  <2>3. chip' \in ChipRec /\ ~chip'.ftl BY <2>1, <2>2 DEF ChipRec
  <2>4. /\ portGhost' \in PortGhostRec /\ portGhost'.missed = portGhost.missed /\ portGhost'.raced = portGhost.raced
        /\ ~portGhost'.skewed => ~portGhost.skewed /\ ~port.flow
    BY <2>1 DEF PortTypes, PortGhostRec
  <2>5. PortTypes' BY <2>1, <2>3, <2>4 DEF PortTypes
  <2>6. RingInv' /\ Used' = Used BY <2>1, RingStays
  <2>7. UserInv' BY <2>1 DEF UserInv, Number
  <2>8. BufferInv' BY <2>1, <2>4 DEF BufferInv, PortBufferSafe, Inside
  <2>9. PortFlow'
    <3>1. ~portGhost'.skewed => port'.flow = FALSE /\ chip'.ftl = FALSE
      BY <2>1, <2>3, <2>4 DEF PortTypes, PortRec, ChipRec
    <3> QED BY <3>1 DEF PortFlow
  <2> QED BY <2>5, <2>6, <2>7, <2>8, <2>9
<1> QED BY <1>1, <1>2, <1>3

LEMMA PortInitInv == PortInit => PortInv
<1> SUFFICES ASSUME PortInit PROVE PortInv OBVIOUS
<1>1. Length \in Nat \ {0} /\ InFlight \in Nat BY PortConstants
<1>2. PortTypes
  <2>1. port \in PortRec BY <1>1 DEF PortInit, PortRec
  <2>2. read_buffer \in [0 .. Length - 1 -> 0 .. Length] BY <1>1 DEF PortInit
  <2>3. reader \in ReaderRec BY UserEmpty DEF PortInit, ReaderRec
  <2>4. ucom \in UcomRec /\ portGhost \in PortGhostRec BY DEF PortInit, UcomRec, PortGhostRec
  <2>5. chip \in ChipRec /\ count \in CountRec BY <1>1 DEF PortInit, ChipRec, CountRec, Fresh
  <2> QED BY <2>1, <2>2, <2>3, <2>4, <2>5 DEF PortTypes, PortInit
<1>3. Ahead(0, 0) = 0 BY <1>1, AheadIs
<1>4. Used = 0 BY <1>3 DEF PortInit, Used, Ahead
<1>5. RingInv BY <1>3, <1>4 DEF RingInv, PortInit, Fresh
<1>6. UserInv BY DEF UserInv, PortInit
<1>7. BufferInv BY DEF BufferInv, PortBufferSafe, Inside, PortInit
<1>8. PortFlow BY DEF PortFlow, PortInit
<1> QED BY <1>2, <1>5, <1>6, <1>7, <1>8 DEF PortInv

LEMMA PortStays == ASSUME PortInv, UNCHANGED PortVars PROVE PortInv'
<1>1. Used' = Used BY DEF Used, PortVars
<1> QED BY <1>1 DEF PortVars, PortInv, PortTypes, RingInv, UserInv, BufferInv, PortBufferSafe, Inside, PortFlow, Number

LEMMA PortStep == PortInv /\ [PortNext]_PortVars => PortInv'
<1> SUFFICES ASSUME PortInv, [PortNext]_PortVars PROVE PortInv' OBVIOUS
<1>1. CASE PacketArrives BY <1>1, PacketArrivesStep
<1>2. CASE ReceiverSignals \/ LinkMessage \/ ucom_write \/ send_data BY <1>2, WriterStep
<1>3. CASE ucom_read \/ Reading \/ ReaderInterrupted BY <1>3, ReaderStep, ReaderCopiesStep DEF Reading
<1>4. CASE ucom_open BY <1>4, OpenStep
<1>5. CASE ucom_release \/ RemovalBegins \/ skw_ucom_remove BY <1>5, CloseStep
<1>6. CASE ChipAsserts \/ ServicesGone \/ ChipRecovers BY <1>6, ChipStep
<1>7. CASE UNCHANGED PortVars BY <1>7, PortStays
<1> QED BY <1>1, <1>2, <1>3, <1>4, <1>5, <1>6, <1>7 DEF PortNext

LEMMA PortInvSafe == PortInv => PortVerbatim /\ PortFlow /\ PortBufferSafe
BY DEF PortInv, RingInv, UserInv, BufferInv, PortVerbatim, Ahead

(* What is still on its way when the chip is told to stop fits into the third that is kept free. *)
RoomFor(m) == m \in Nat /\ (InFlight + 1) * m <= Length \div 3 /\ \A n \in PacketSizes : n <= m

(* As long as port and chip agree: a third is free while the chip may send, and after it was
   stopped room for each packet still on its way. *)
RoomInv(m) ==
    ~portGhost.skewed =>
        /\ ~port.flow => Free >= Length \div 3
        /\ port.flow => Free >= chip.late * m

(* l packets of m bytes leave room for one more in the third that is kept free. *)
LateFits(l, m) ==
    /\ l * m \in Nat /\ l * m <= Length \div 3 - m
    /\ l > 0 => m <= l * m /\ (l - 1) * m = l * m - m

LEMMA Rooms ==
    ASSUME NEW m \in Nat, (InFlight + 1) * m <= Length \div 3
    PROVE  /\ Length \div 3 \in Nat /\ m <= Length \div 3
           /\ \A l \in 0 .. InFlight : LateFits(l, m)
<1>1. InFlight \in Nat /\ Length \in Nat BY PortConstants
<1>2. Length \div 3 \in Nat BY <1>1
<1>3. (InFlight + 1) * m = InFlight * m + m /\ InFlight * m \in Nat BY <1>1
<1>4. ASSUME NEW l \in 0 .. InFlight
      PROVE  l * m \in Nat /\ l * m <= InFlight * m /\ (l > 0 => m <= l * m /\ (l - 1) * m = l * m - m)
  <2>1. l * m \in Nat BY <1>1
  <2>2. (InFlight - l) * m = InFlight * m - l * m /\ (InFlight - l) * m \in Nat BY <1>1
  <2>3. l * m <= InFlight * m BY <1>3, <2>1, <2>2
  <2>4. l > 0 => (l - 1) * m = l * m - m /\ (l - 1) * m \in Nat BY <1>1
  <2>5. l > 0 => m <= l * m BY <2>1, <2>4
  <2> QED BY <2>1, <2>3, <2>4, <2>5
<1>5. ASSUME NEW l \in 0 .. InFlight PROVE LateFits(l, m)
  <2>1. l * m \in Nat /\ l * m <= InFlight * m /\ (l > 0 => m <= l * m /\ (l - 1) * m = l * m - m) BY <1>4
  <2>2. l * m <= Length \div 3 - m BY ONLY <1>2, <1>3, <2>1, m \in Nat, (InFlight + 1) * m <= Length \div 3
  <2> QED BY <2>1, <2>2 DEF LateFits
<1>6. m <= Length \div 3 BY <1>2, <1>3
<1> QED BY <1>2, <1>5, <1>6

LEMMA RoomStays ==
    ASSUME NEW m, RoomInv(m), port'.wp = port.wp, port'.rp = port.rp, port'.flow = port.flow,
           chip'.late = chip.late \/ (~portGhost'.skewed => ~port.flow), ~portGhost'.skewed => ~portGhost.skewed
    PROVE  RoomInv(m)'
<1>1. Free' = Free BY DEF Free, Used
<1> QED BY <1>1 DEF RoomInv

(* As long as port and chip agree a packet in sequence has room. *)
LEMMA HasRoom ==
    ASSUME PortInv, NEW m, RoomFor(m), RoomInv(m), ~portGhost.skewed, chip.ftl => chip.late > 0, NEW n \in PacketSizes
    PROVE  /\ n \in 1 .. m /\ m \in Nat /\ ~(Free < n) /\ n \in 1 .. Length - 1 /\ n <= Free
           /\ port.flow => chip.late > 0 /\ Free >= chip.late * m
<1>1. /\ m \in Nat /\ (InFlight + 1) * m <= Length \div 3 /\ n <= m /\ n \in 1 .. Length
      /\ Length \in Nat \ 0 .. 3
  BY PortConstants DEF RoomFor
<1>2. chip.late \in 0 .. InFlight /\ chip.ftl = port.flow BY DEF PortInv, PortTypes, ChipRec, PortFlow
<1>3. Used \in 0 .. Length - 1 /\ Free = Length - 1 - Used BY UsedIs DEF PortInv
<1>4. Length \div 3 \in Nat /\ m <= Length \div 3 BY <1>1, Rooms
<1>5. chip.late * m \in Nat /\ (chip.late > 0 => m <= chip.late * m)
  <2>1. LateFits(chip.late, m) BY <1>1, <1>2, Rooms
  <2> QED BY ONLY <2>1 DEF LateFits
<1>6. CASE port.flow
  <2>1. chip.late > 0 /\ Free >= chip.late * m BY <1>2, <1>6 DEF RoomInv
  <2>2. m <= Free BY <1>1, <1>3, <1>5, <2>1
  <2> QED BY <1>1, <1>3, <2>1, <2>2
<1>7. CASE ~port.flow
  <2>1. Free >= Length \div 3 BY <1>7 DEF RoomInv
  <2>2. m <= Free BY <1>1, <1>3, <1>4, <2>1
  <2> QED BY <1>1, <1>3, <1>7, <2>2
<1> QED BY <1>6, <1>7

LEMMA PacketKeepsRoom == ASSUME PortInv, NEW m, RoomFor(m), RoomInv(m), PacketArrives PROVE RoomInv(m)'
<1> SUFFICES ASSUME ~portGhost'.skewed
             PROVE  (~port'.flow => Free' >= Length \div 3) /\ (port'.flow => Free' >= chip'.late * m)
  BY DEF RoomInv
<1>1. chip.ftl => chip.late > 0 BY DEF PacketArrives
<1>0. Sent \in ChipRec BY PacketSent
<1>2a. ~portGhost.skewed
  <2>1. PICK n \in PacketSizes : skw_sdio_handle_packet(n) BY DEF PacketArrives
  <2>2. CASE Store(n) BY <1>0, <2>2, StoreTells DEF PortInv
  <2>3. CASE portGhost' = portGhost BY <2>3
  <2> QED BY <2>1, <2>2, <2>3 DEF skw_sdio_handle_packet
<1>2. PICK n \in PacketSizes : skw_sdio_handle_packet(n) BY DEF PacketArrives
<1>3. /\ n \in 1 .. m /\ m \in Nat /\ ~(Free < n) /\ n \in 1 .. Length - 1 /\ n <= Free
      /\ port.flow => chip.late > 0 /\ Free >= chip.late * m
  BY <1>1, <1>2a, HasRoom
<1>4. /\ chip.late \in 0 .. InFlight /\ chip \in ChipRec /\ port \in PortRec /\ chip.ftl = port.flow
      /\ chip.ftl \in BOOLEAN /\ Length \in Nat \ {0}
  BY <1>2a, PortConstants DEF PortInv, PortTypes, ChipRec, PortFlow
<1>5. Used \in 0 .. Length - 1 /\ Free = Length - 1 - Used BY UsedIs DEF PortInv
<1>6. /\ Length \div 3 \in Nat /\ chip.late * m \in Nat /\ chip.late * m <= Length \div 3 - m
      /\ chip.late > 0 => (chip.late - 1) * m = chip.late * m - m
  <2>1. (InFlight + 1) * m <= Length \div 3 /\ m \in Nat BY DEF RoomFor
  <2>2. Length \div 3 \in Nat /\ \A l \in 0 .. InFlight : LateFits(l, m) BY ONLY <2>1, Rooms
  <2>3. LateFits(chip.late, m) BY ONLY <1>4, <2>2
  <2> QED BY ONLY <2>2, <2>3 DEF LateFits
<1>7. Sent.late = (IF chip.ftl THEN chip.late - 1 ELSE chip.late) /\ Sent.ftl = chip.ftl
      /\ DOMAIN Sent = {"ftl", "late", "seq", "links"}
  BY <1>4 DEF Sent, ChipRec
<1>8. CASE chip' = Sent /\ UNCHANGED port
  <2>1. Free' = Free BY <1>8 DEF Free, Used
  <2>2. CASE port.flow
    <3>1. chip'.late = chip.late - 1 /\ chip.late > 0 /\ Free >= chip.late * m BY <1>3, <1>4, <1>7, <1>8, <2>2
    <3>2. chip.late * m \in Nat /\ (chip.late - 1) * m = chip.late * m - m BY ONLY <1>6, <3>1
    <3>3. Free >= (chip.late - 1) * m BY <1>3, <1>5, <3>1, <3>2
    <3> QED BY <1>8, <2>1, <2>2, <3>1, <3>3
  <2>3. CASE ~port.flow BY <1>2a, <1>8, <2>1, <2>3 DEF RoomInv
  <2> QED BY <2>2, <2>3
<1>9. CASE Store(n)
  <2>1. Used' = Used + n BY <1>3, <1>9, StoreStep DEF PortInv
  <2>2. Free' = Free - n
    <3>1. Free' = Length - 1 - Used' BY DEF Free
    <3> QED BY <1>3, <1>4, <1>5, <2>1, <3>1
  <2>3. port'.flow = (port.flow \/ Stopped(n)) /\ chip'.late = Sent.late
    <3>1. port' = [port EXCEPT !.seqno = NextSeq(@), !.wp = (@ + n) % Length, !.flow = @ \/ Stopped(n)]
      BY <1>9 DEF Store
    <3>2. port'.flow = (port.flow \/ Stopped(n)) BY <1>4, <3>1 DEF PortRec
    <3>3. chip'.late = Sent.late BY <1>0, <1>9, StoreTells DEF PortInv
    <3> QED BY <3>2, <3>3
  <2>4. CASE port.flow
    <3>1. port'.flow /\ chip'.late = chip.late - 1 /\ chip.late > 0 /\ Free >= chip.late * m
      BY <1>3, <1>4, <1>7, <2>3, <2>4
    <3>2. chip.late * m \in Nat /\ (chip.late - 1) * m = chip.late * m - m BY ONLY <1>6, <3>1
    <3>3. Free - n >= (chip.late - 1) * m BY <1>3, <1>5, <3>1, <3>2
    <3> QED BY <2>2, <3>1, <3>3
  <2>5. CASE ~port.flow
    <3>1. chip'.late = chip.late /\ Free >= Length \div 3 BY <1>2a, <1>4, <1>7, <2>3, <2>5 DEF RoomInv
    <3>2. Free - n >= chip.late * m
      <4>1. n \in 1 .. m /\ m \in Nat /\ Free \in Int BY <1>3, <1>5
      <4> QED BY ONLY <1>6, <3>1, <4>1
    <3>3. port'.flow <=> Free - n < Length \div 3 BY <2>3, <2>5 DEF Stopped
    <3>4. ~port'.flow => Free - n >= Length \div 3 BY <1>3, <1>5, <1>6, <3>3
    <3> QED BY <2>2, <3>1, <3>2, <3>4
  <2> QED BY <2>4, <2>5
<1>10. CASE chip.seq # port.seqno \/ port.state = "IDLE" BY <1>2, <1>8, <1>10 DEF skw_sdio_handle_packet
<1>11. CASE ~(chip.seq # port.seqno \/ port.state = "IDLE") BY <1>2, <1>3, <1>9, <1>11 DEF skw_sdio_handle_packet
<1> QED BY <1>10, <1>11

(* A read never takes free room away. *)
LEMMA LessTaken == ASSUME NEW l \in Nat, NEW u \in 0 .. l - 1, NEW v \in 0 .. u - 1
                   PROVE l - 1 - v \in Nat /\ l - 1 - v >= l - 1 - u
OBVIOUS

LEMMA RoomStep ==
    ASSUME NEW m, RoomFor(m), PortInv, RoomInv(m), [PortNext]_PortVars
    PROVE  RoomInv(m)'
<1> USE DEF PortInv
<1>0. /\ Used \in 0 .. Length - 1 /\ Free = Length - 1 - Used /\ Length \in Nat \ 0 .. 3
      /\ Length \div 3 \in Nat /\ (Length * 2) \div 3 \in Nat /\ Length \div 3 <= (Length * 2) \div 3
      /\ Length \div 3 <= Length - 1
  <2>1. Length \in Nat \ 0 .. 3 BY PortConstants
  <2>2. /\ Length \div 3 \in Nat /\ (Length * 2) \div 3 \in Nat /\ Length \div 3 <= (Length * 2) \div 3
        /\ Length \div 3 <= Length - 1
    BY <2>1
  <2> QED BY <2>1, <2>2, UsedIs
<1>1. CASE PacketArrives BY <1>1, PacketKeepsRoom
<1>2. CASE ReaderCopies /\ Used # 0
  <2>1. /\ Used' \in 0 .. Used - 1
        /\ \/ port'.flow = port.flow /\ UNCHANGED <<chip, portGhost>>
           \/ port.flow /\ ~port'.flow /\ Length - 1 - Used' > (Length * 2) \div 3 /\ portGhost' = portGhost
           \/ portGhost'.skewed
    BY <1>2, CopyStep
  <2>2. Free' = Length - 1 - Used' BY DEF Free
  <2>3. Free' >= Free /\ Free' \in Nat
    <3>1. Used' \in 0 .. Used - 1 BY <2>1
    <3>2. Length \in Nat /\ Used \in 0 .. Length - 1 /\ Free = Length - 1 - Used BY <1>0
    <3>3. Used' <= Used /\ Used' \in Nat /\ Used' <= Length - 1 BY ONLY <3>1, <3>2
    <3>4. Length - 1 - Used' \in Nat /\ Length - 1 - Used' >= Length - 1 - Used BY ONLY <3>1, <3>2, LessTaken
    <3> QED BY <2>2, <3>2, <3>4, Zenon
  <2>4. CASE port'.flow = port.flow /\ UNCHANGED <<chip, portGhost>>
    <3>1. chip.late * m \in Nat
      <4>1. m \in Nat /\ chip.late \in 0 .. InFlight /\ InFlight \in Nat BY PortConstants DEF RoomFor, PortTypes, ChipRec
      <4> QED BY <4>1
    <3>2. Free \in Nat BY <1>0
    <3>3. (Free >= Length \div 3 => Free' >= Length \div 3) /\ (Free >= chip.late * m => Free' >= chip.late * m)
      BY ONLY <1>0, <2>3, <3>1, <3>2
    <3> QED BY <2>1, <2>4, <3>3 DEF RoomInv
  <2>5. CASE ~port'.flow /\ Length - 1 - Used' > (Length * 2) \div 3
    <3>1. Free' > (Length * 2) \div 3 BY <2>2, <2>5
    <3>2. Free' >= Length \div 3 BY ONLY <1>0, <2>3, <3>1
    <3> QED BY <2>5, <3>2 DEF RoomInv
  <2>6. CASE portGhost'.skewed BY <2>6 DEF RoomInv
  <2> QED BY <2>1, <2>4, <2>5, <2>6
<1>3. CASE ucom_open /\ port.state # "OPEN"
  <2>1. port' = [state |-> "OPEN", wp |-> 0, rp |-> 0, flow |-> FALSE, seqno |-> 1, tx_flow |-> 0]
    BY <1>3 DEF ucom_open, open_sdio_port
  <2>2. Ahead(0, 0) = 0 BY <1>0, AheadIs
  <2>3. Used' = 0 /\ ~port'.flow BY <2>1, <2>2 DEF Used, Ahead
  <2>4. Free' >= Length \div 3
    <3>1. Free' = Length - 1 - Used' BY DEF Free
    <3> QED BY <1>0, <2>3, <3>1
  <2> QED BY <2>3, <2>4 DEF RoomInv
<1>4. CASE ChipRecovers
  <2>1. portGhost' = [portGhost EXCEPT !.skewed = @ \/ port.seqno # 1 \/ port.flow] /\ port' = port
    BY <1>4 DEF ChipRecovers
  <2>2. ~portGhost'.skewed => ~portGhost.skewed /\ ~port.flow BY <2>1 DEF PortTypes, PortGhostRec
  <2> QED BY <2>1, <2>2, RoomStays
<1>5. CASE LinkMessage \/ ucom_write \/ send_data
  <2>1. /\ port'.wp = port.wp /\ port'.rp = port.rp /\ port'.flow = port.flow /\ chip'.late = chip.late
    BY <1>5 DEF LinkMessage, ucom_write, send_data, Chip, PortTypes, PortRec, ChipRec
  <2>2. portGhost'.skewed = portGhost.skewed
    BY <1>5 DEF LinkMessage, ucom_write, send_data, Chip, PortTypes, PortGhostRec
  <2> QED BY <2>1, <2>2, RoomStays
<1>6. CASE ucom_release \/ RemovalBegins
  <2>1. portGhost'.skewed = portGhost.skewed /\ chip' = chip
    BY <1>6 DEF ucom_release, RemovalBegins, Chip, PortTypes, PortGhostRec
  <2>2. CASE UNCHANGED port BY <2>1, <2>2, RoomStays
  <2>3. CASE close_sdio_port BY <2>1, <2>3, CloseIs, RoomStays
  <2> QED BY <1>6, <2>2, <2>3 DEF ucom_release, RemovalBegins
<1>7. CASE ChipAsserts
  <2>1. portGhost'.skewed = portGhost.skewed /\ chip' = chip
    BY <1>7 DEF ChipAsserts, PortTypes, PortGhostRec
  <2>2. port'.wp = port.wp /\ port'.rp = port.rp /\ port'.flow = port.flow
    BY <1>7 DEF ChipAsserts, PortTypes, PortRec
  <2> QED BY <2>1, <2>2, RoomStays
<1>8. CASE recv_data \/ ReaderWakes
  <2>1. port'.wp = port.wp /\ port'.rp = port.rp /\ port'.flow = port.flow /\ UNCHANGED <<chip, portGhost>>
    BY <1>8 DEF recv_data, ReaderWakes, PortOnly, Chip, PortTypes, PortRec
  <2> QED BY <2>1, RoomStays
<1>9. CASE ReaderLeaves
  <2>1. portGhost'.skewed = portGhost.skewed /\ UNCHANGED <<port, chip>>
    BY <1>9 DEF ReaderLeaves, PortOnly, Chip, PortTypes, PortGhostRec
  <2> QED BY <2>1, RoomStays
<1>10. CASE UNCHANGED <<port, chip, portGhost>> BY <1>10, RoomStays
<1>11. ASSUME \/ ReceiverSignals \/ ucom_read \/ ReaderArms \/ ReaderTests \/ (ReaderCopies /\ Used = 0)
              \/ ReaderInterrupted \/ (ucom_open /\ port.state = "OPEN") \/ skw_ucom_remove
              \/ ServicesGone \/ UNCHANGED PortVars
       PROVE  UNCHANGED <<port, chip, portGhost>>
  BY <1>11 DEF ReceiverSignals, ucom_read, ReaderArms, ReaderTests, ReaderCopies, ReaderInterrupted, ucom_open,
               open_sdio_port, skw_ucom_remove, ServicesGone, PortVars, PortOnly, Chip
<1> QED
  BY <1>1, <1>2, <1>3, <1>4, <1>5, <1>6, <1>7, <1>8, <1>9, <1>10, <1>11 DEF PortNext, Reading

LEMMA RoomInit == ASSUME NEW m, PortInit PROVE RoomInv(m)
<1>1. Length \in Nat \ 0 .. 3 BY PortConstants
<1>2. Ahead(0, 0) = 0 BY <1>1, AheadIs
<1>3. Used = 0 /\ ~port.flow BY <1>2 DEF PortInit, Used, Ahead
<1>4. Free = Length - 1 BY <1>1, <1>3 DEF Free
<1>5. Length - 1 >= Length \div 3 BY <1>1
<1> QED BY <1>3, <1>4, <1>5 DEF RoomInv

(* So such a packet is stored, and the count of the bytes accepted moves. *)
LEMMA NeverOverflows ==
    ASSUME NEW m, RoomFor(m), PortInv, RoomInv(m), PacketArrives, port.state # "IDLE", chip.seq = port.seqno,
           ~portGhost.skewed
    PROVE  count'.in # count.in
<1>1. chip.ftl => chip.late > 0 BY DEF PacketArrives
<1>2. PICK n \in PacketSizes : skw_sdio_handle_packet(n) BY DEF PacketArrives
<1>3. ~(Free < n) /\ n \in 1 .. Length - 1 /\ n <= Free BY <1>1, HasRoom
<1>4. Store(n) BY <1>2, <1>3 DEF skw_sdio_handle_packet
<1> QED BY <1>3, <1>4, StoreStep DEF PortInv

(* Whatever opens, closes, asserts, recoveries and removals run into each other, and whatever the
   sizes: a reader gets the accepted bytes in the order they came; port and chip agree on the
   flow-control bit, and a port that stopped its chip holds bytes whose reading lets it go; and
   no reader the removal knew of is inside a device that is gone, unless a writer took the
   close away from it. *)
THEOREM PortContents == PortSpec => [](PortVerbatim /\ PortFlow /\ PortBufferSafe)
<1>1. PortSpec => []PortInv BY PortInitInv, PortStep, PTL DEF PortSpec
<1> QED BY <1>1, PortInvSafe, PTL

(* If moreover what is on its way when the chip is stopped fits into the third that is kept free,
   a packet of the sequence is never lost to a full ring. *)
THEOREM PortSafety == ASSUME NEW m, RoomFor(m) PROVE PortSpec => PortSafe
<1>1. PortSpec => []PortInv BY PortInitInv, PortStep, PTL DEF PortSpec
<1>2. PortInit => RoomInv(m) BY RoomInit
<1>3. PortInv /\ RoomInv(m) /\ [PortNext]_PortVars => RoomInv(m)' BY RoomStep
<1>4. PortSpec => [](PortInv /\ RoomInv(m)) BY <1>1, <1>2, <1>3, PTL DEF PortSpec
<1>5. PortInv /\ RoomInv(m) /\ [PortNext]_PortVars =>
        [PacketArrives /\ port.state # "IDLE" /\ chip.seq = port.seqno /\ ~portGhost.skewed
           => count'.in # count.in]_PortVars
  BY NeverOverflows
<1>6. PortSpec => PortNoOverflow BY <1>4, <1>5, PTL DEF PortSpec, PortNoOverflow
<1> QED BY <1>6, PortContents, PTL DEF PortSafe
=============================================================================
