------------------------------- MODULE SkwPort -------------------------------
(***************************************************************************)
(* A Bluetooth port of the SDIO driver and its character device: the ring  *)
(* the receive thread fills and a reader empties, flow control towards the *)
(* chip, a writer waiting for the link message, and open, close, assert and*)
(* removal under them.  Bytes are numbered from 1 to Length and round again,*)
(* in the order they are accepted since the ring was last empty; a slot    *)
(* that was read holds 0.                                                  *)
(***************************************************************************)
EXTENDS Integers, Sequences

CONSTANTS
    Length,       \* port->length
    PacketSizes,  \* payload sizes of packets
    ReadSize,     \* what one read asks for
    InFlight,     \* packets on their way when the chip is stopped
    SeqMod,       \* packet numbers are taken modulo it (16 bits in the code)
    MaxEvents     \* bound: opens, writes, asserts, signals, removals, bus faults, late link messages

ASSUME PortConstants ==
    /\ Length \in Nat \ 0 .. 3 \* 4 KiB; an empty ring of three bytes would never let the chip go
    /\ ReadSize \in Nat \ {0} /\ SeqMod \in Nat \ {0}
    /\ PacketSizes \subseteq 1 .. Length
    /\ {InFlight, MaxEvents} \subseteq Nat

VARIABLES
    port,       \* struct sdio_port: state, wp, rp, flow, seqno, tx_flow
    read_buffer,
    rx_done,    \* the completion: somebody completed it
    tx_done,
    cpUp,       \* cp_state is 0
    btService,  \* the BT bit of service_state_map
    receiver,   \* the receive thread: "idle" or "signal"
    reader,     \* [pc, user]: where it is, the bytes it got
    writer,     \* "idle" or "await"
    ucom,       \* struct ucom_dev: open count, rx_busy, and its removal
    chip,       \* its flow-control bit, packets it may still send, next number, link messages due
    count,      \* [in, out]: bytes accepted, bytes read or discarded, modulo Length
    portGhost,  \* missed: a wake-up the reader will not notice; raced: a reader the removal
                \* did not; skewed: port and chip disagree after a reopening, a recovery or
                \* an access to the flow register that failed
    portFuel

PortVars == <<port, read_buffer, rx_done, tx_done, cpUp, btService, receiver, reader, writer, ucom,
              chip, count, portGhost, portFuel>>

Fresh == [in |-> 0, out |-> 0]
Number(k) == (k % Length) + 1
NextSeq(q) == (q + 1) % SeqMod

Used == (Length + port.wp - port.rp) % Length
Free == Length - 1 - Used
Inside == reader.pc \notin {"idle", "leave"}

PortInit ==
    /\ port = [state |-> "IDLE", wp |-> 0, rp |-> 0, flow |-> FALSE, seqno |-> 1, tx_flow |-> 0]
    /\ read_buffer = [i \in 0 .. Length - 1 |-> 0]
    /\ rx_done = FALSE /\ tx_done = FALSE /\ cpUp = TRUE /\ btService = TRUE
    /\ receiver = "idle" /\ reader = [pc |-> "idle", user |-> <<>>] /\ writer = "idle"
    /\ ucom = [open |-> 0, removal |-> "no"]
    /\ chip = [ftl |-> FALSE, late |-> InFlight, seq |-> 1, links |-> 0]
    /\ count = Fresh
    /\ portGhost = [missed |-> FALSE, raced |-> FALSE, skewed |-> FALSE]
    /\ portFuel = MaxEvents

Event == portFuel > 0 /\ portFuel' = portFuel - 1

Chip == <<cpUp, btService, chip>>
Users == <<reader, writer, ucom>>

(***************************************************************************)
(* The receive thread, skw_sdio_handle_packet on a port with a ring.      *)
(***************************************************************************)

(* The register with the ports' bits cannot be read or written; the callers do not look. *)
RegisterFails == Event /\ portGhost' = [portGhost EXCEPT !.skewed = TRUE]

(* skw_sdio_rx_port_follow_ctl on this port's bit, of a chip that has come to c. *)
skw_sdio_rx_port_follow_ctl(c, on) ==
    \/ chip' = [c EXCEPT !.ftl = on, !.late = IF on THEN @ ELSE InFlight] /\ UNCHANGED <<portGhost, portFuel>>
    \/ chip' = c /\ RegisterFails

Put(n) == [i \in 0 .. Length - 1 |->
              LET k == (Length + i - port.wp) % Length
              IN IF k < n THEN Number(count.in + k) ELSE read_buffer[i]]

(* Fault: the chip is told to stop only when the ring has overflowed. *)
Stopped_late(n) == ~port.flow /\ Free - n < 0

(* The ring is so full after n more bytes that the chip must stop. *)
Stopped(n) == ~port.flow /\ Free - n < Length \div 3

Sent == [chip EXCEPT !.seq = NextSeq(@), !.late = IF chip.ftl THEN @ - 1 ELSE @]

Store(n) ==
    /\ read_buffer' = Put(n) /\ count' = [count EXCEPT !.in = (@ + n) % Length]
    /\ port' = [port EXCEPT !.seqno = NextSeq(@), !.wp = (@ + n) % Length, !.flow = @ \/ Stopped(n)]
    /\ IF Stopped(n) THEN skw_sdio_rx_port_follow_ctl(Sent, TRUE)
       ELSE chip' = Sent /\ UNCHANGED <<portGhost, portFuel>>
    /\ receiver' = "signal"

(* A packet out of sequence, or for an idle port, is dropped; one that does not fit is
   dropped as well but counts. *)
skw_sdio_handle_packet(n) ==
    IF chip.seq # port.seqno \/ port.state = "IDLE"
    THEN chip' = Sent /\ UNCHANGED <<port, read_buffer, count, receiver, portGhost, portFuel>>
    ELSE IF Free < n
    THEN /\ port' = [port EXCEPT !.seqno = NextSeq(@)] /\ chip' = Sent
         /\ UNCHANGED <<read_buffer, count, receiver, portGhost, portFuel>>
    ELSE Store(n)

PacketArrives ==
    /\ receiver = "idle" /\ cpUp /\ btService
    /\ \E n \in PacketSizes :
        /\ chip.ftl => chip.late > 0
        /\ skw_sdio_handle_packet(n)
    /\ UNCHANGED <<rx_done, tx_done, cpUp, btService, Users>>

(* complete(&port->rx_done), after the mutex. *)
ReceiverSignals ==
    /\ receiver = "signal" /\ receiver' = "idle" /\ rx_done' = TRUE
    /\ UNCHANGED <<port, read_buffer, tx_done, Chip, Users, count, portGhost, portFuel>>

(* The link message answers a write; it may come after the write gave up, and is dropped when
   the port is idle by then. *)
LinkMessage ==
    /\ chip.links > 0 /\ receiver = "idle" /\ cpUp
    /\ chip' = [chip EXCEPT !.links = @ - 1]
    /\ IF port.state = "IDLE" THEN UNCHANGED <<port, tx_done>>
       ELSE port' = [port EXCEPT !.tx_flow = @ - 1] /\ tx_done' = TRUE
    /\ UNCHANGED <<read_buffer, rx_done, cpUp, btService, receiver, Users, count, portGhost, portFuel>>

(***************************************************************************)
(* The reader: ucom_read, recv_data, sdio_read.                            *)
(***************************************************************************)
ReaderGoes(pc) == reader' = [reader EXCEPT !.pc = pc]
PortOnly == UNCHANGED <<read_buffer, tx_done, Chip, receiver, writer, ucom, count, portFuel>>

ucom_read ==
    /\ reader.pc = "idle" /\ ucom.open > 0 /\ cpUp
    /\ reader' = [pc |-> "entered", user |-> <<>>]
    /\ UNCHANGED <<port, rx_done, portGhost>> /\ PortOnly

recv_data ==
    /\ reader.pc = "entered"
    /\ port' = [port EXCEPT !.state = IF @ = "CLSE" THEN "IDLE" ELSE @]
    /\ IF port.state \in {"IDLE", "CLSE"} \/ (port.state = "ASST" /\ ~cpUp)
       THEN ReaderGoes("leave") ELSE ReaderGoes("arm")
    /\ UNCHANGED <<rx_done, portGhost>> /\ PortOnly

(* skw_reinit_completion; what was signalled before is seen in the state, except an assert. *)
ReaderArms ==
    /\ reader.pc = "arm" /\ ReaderGoes("test") /\ rx_done' = FALSE
    /\ UNCHANGED <<port, portGhost>> /\ PortOnly

ReaderTests ==
    /\ reader.pc = "test"
    /\ IF port.wp # port.rp THEN ReaderGoes("copy")
       ELSE IF port.state = "CLSE" \/ ~btService THEN ReaderGoes("leave")
       ELSE ReaderGoes("wait")
    /\ UNCHANGED <<port, rx_done, portGhost>> /\ PortOnly

ReaderWakes ==
    /\ reader.pc = "wait" /\ rx_done /\ rx_done' = FALSE
    /\ port' = [port EXCEPT !.state = IF @ = "CLSE" THEN "IDLE" ELSE @]
    /\ IF port.state = "CLSE" \/ (port.state = "ASST" /\ ~cpUp)
       THEN ReaderGoes("leave") ELSE ReaderGoes("copy")
    /\ UNCHANGED portGhost /\ PortOnly

(* A signal ends the wait. *)
ReaderInterrupted ==
    /\ reader.pc = "wait" /\ ReaderGoes("leave")
    /\ Event
    /\ UNCHANGED <<portGhost, port, rx_done, read_buffer, tx_done, Chip, receiver, writer, ucom, count>>

Take(n) == [i \in 1 .. n |-> read_buffer[(port.rp + i - 1) % Length]]
Lowest(a, b) == IF a < b THEN a ELSE b

(* After a read: more than two thirds of the ring are free again. *)
Resumed(rp, wp) == Length - 1 - ((Length + wp - rp) % Length) > (Length * 2) \div 3

(* Under rx_mutex: copy, move rp, start both at 0 when the ring is empty, let the chip
   go on.  Nothing there after all: try again. *)
ReaderCopies ==
    /\ reader.pc = "copy"
    /\ IF Used = 0
       THEN ReaderGoes("arm") /\ UNCHANGED <<port, read_buffer, count, chip, portGhost, portFuel>>
       ELSE LET n == Lowest(ReadSize, Used)
                rp == (port.rp + n) % Length
                empty == rp = port.wp
                rp1 == IF empty THEN 0 ELSE rp
                wp1 == IF empty THEN 0 ELSE port.wp
                resume == port.flow /\ Resumed(rp1, wp1)
            IN /\ reader' = [pc |-> "leave", user |-> Take(n)]
               /\ read_buffer' = [i \in DOMAIN read_buffer |->
                                     IF (Length + i - port.rp) % Length < n THEN 0 ELSE read_buffer[i]]
               /\ count' = IF empty THEN Fresh ELSE [count EXCEPT !.out = (@ + n) % Length]
               /\ port' = [port EXCEPT !.rp = rp1, !.wp = wp1, !.flow = @ /\ ~resume]
               /\ IF resume THEN skw_sdio_rx_port_follow_ctl(chip, FALSE)
                  ELSE UNCHANGED <<chip, portGhost, portFuel>>
    /\ UNCHANGED <<rx_done, tx_done, cpUp, btService, receiver, writer, ucom>>

ReaderLeaves ==
    /\ reader.pc = "leave" /\ reader' = [pc |-> "idle", user |-> <<>>]
    /\ portGhost' = [portGhost EXCEPT !.missed = FALSE]
    /\ UNCHANGED <<port, rx_done>> /\ PortOnly

(***************************************************************************)
(* The writer: ucom_write, send_data.                                      *)
(***************************************************************************)
(* A write that finds the port closed makes it idle: a reader inside no longer sees the close.
   One that the bus refuses returns the error; nothing went out. *)
ucom_write ==
    /\ writer = "idle" /\ ucom.open > 0 /\ ucom.removal # "gone" /\ cpUp /\ Event
    /\ IF port.state \in {"IDLE", "CLSE"}
       THEN /\ port' = [port EXCEPT !.state = "IDLE"]
            /\ UNCHANGED <<tx_done, writer, chip>>
       ELSE /\ tx_done' = FALSE
            /\ \/ /\ port' = [port EXCEPT !.tx_flow = @ + 1] /\ chip' = [chip EXCEPT !.links = @ + 1]
                  /\ writer' = IF port.state = "ASST" THEN "idle" ELSE "await"
               \/ UNCHANGED <<port, chip, writer>>
    /\ portGhost' = [portGhost EXCEPT !.missed = @ \/ (port.state = "CLSE" /\ Inside)]
    /\ UNCHANGED <<read_buffer, rx_done, cpUp, btService, receiver, reader, ucom, count>>

(* The link message, or 100 ms. *)
send_data ==
    /\ writer = "await" /\ writer' = "idle"
    /\ \/ tx_done /\ tx_done' = FALSE /\ UNCHANGED <<port, portFuel>>
       \/ /\ ~tx_done /\ IF cpUp THEN Event ELSE UNCHANGED portFuel
          /\ port' = [port EXCEPT !.tx_flow = IF @ # 0 THEN @ - 1 ELSE @]
          /\ UNCHANGED tx_done
    /\ UNCHANGED <<read_buffer, rx_done, Chip, receiver, reader, ucom, count, portGhost>>

(***************************************************************************)
(* Open, release and removal.                                              *)
(***************************************************************************)
(* Refused while the port is open; what the ring held is discarded, the chip's flow-control
   bit and its numbering are not touched. *)
open_sdio_port ==
    IF port.state = "OPEN" THEN UNCHANGED <<port, read_buffer, rx_done, tx_done, count, portGhost>>
    ELSE /\ port' = [state |-> "OPEN", wp |-> 0, rp |-> 0, flow |-> FALSE, seqno |-> 1, tx_flow |-> 0]
         /\ rx_done' = FALSE /\ tx_done' = FALSE /\ read_buffer' = [i \in DOMAIN read_buffer |-> 0]
         /\ count' = Fresh
         /\ portGhost' = [portGhost EXCEPT !.skewed = @ \/ chip.ftl \/ chip.seq # 1 \/ receiver # "idle"]

close_sdio_port ==
    IF port.state = "IDLE" THEN UNCHANGED <<port, rx_done>>
    ELSE port' = [port EXCEPT !.state = "CLSE"] /\ rx_done' = TRUE

(* Two handles may be open; the second does not open the port again. *)
ucom_open ==
    /\ ucom.removal = "no" /\ ucom.open < 2 /\ cpUp
    /\ Event
    /\ ucom' = [ucom EXCEPT !.open = @ + 1] /\ open_sdio_port
    /\ UNCHANGED <<Chip, receiver, reader, writer>>

(* The first of two releases closes the port. *)
ucom_release ==
    /\ ucom.open > 0 /\ ucom.removal # "gone" /\ writer = "idle" /\ (ucom.open = 1 => reader.pc = "idle")
    /\ ucom' = [ucom EXCEPT !.open = @ - 1] /\ close_sdio_port
    /\ UNCHANGED <<read_buffer, tx_done, Chip, receiver, reader, writer, count, portGhost, portFuel>>

(* skw_ucom_remove of the command port closes it if a reader is inside; one that enters
   after that look is not noticed. *)
RemovalBegins ==
    /\ Event
    /\ ucom.removal = "no" /\ ucom' = [ucom EXCEPT !.removal = "waits"]
    /\ IF reader.pc # "idle" THEN close_sdio_port ELSE UNCHANGED <<port, rx_done>>
    /\ portGhost' = [portGhost EXCEPT !.raced = reader.pc = "idle"]
    /\ UNCHANGED <<read_buffer, tx_done, Chip, receiver, reader, writer, count>>

(* The last release, or 1 s, which is longer than a reader that was woken needs; then the
   buffers are freed. *)
skw_ucom_remove ==
    /\ ucom.removal = "waits" /\ writer = "idle"
    /\ ucom.open = 0 \/ reader.pc = "idle" \/ (reader.pc = "wait" /\ ~rx_done)
    /\ ucom' = [open |-> 0, removal |-> "gone"]
    /\ UNCHANGED <<port, read_buffer, rx_done, tx_done, Chip, receiver, reader, writer, count, portGhost, portFuel>>

(***************************************************************************)
(* An assert of the chip and its recovery (SkwModem): the ports first, the *)
(* services after.                                                         *)
(***************************************************************************)

ChipAsserts ==
    /\ cpUp /\ receiver = "idle" /\ Event
    /\ cpUp' = FALSE
    /\ IF port.state \in {"IDLE", "CLSE"}
       THEN UNCHANGED <<port, rx_done, tx_done, portGhost>>
       ELSE /\ port' = [port EXCEPT !.state = "ASST"] /\ rx_done' = TRUE /\ tx_done' = TRUE
            /\ portGhost' = [portGhost EXCEPT !.missed = @ \/ reader.pc \in {"arm", "copy"}]
    /\ UNCHANGED <<read_buffer, btService, chip, receiver, Users, count>>

ServicesGone ==
    /\ ~cpUp /\ btService /\ btService' = FALSE
    /\ UNCHANGED <<port, read_buffer, rx_done, tx_done, cpUp, chip, receiver, Users, count, portGhost, portFuel>>

(* The new firmware counts from 1; the port keeps its state until it is opened again. *)
ChipRecovers ==
    /\ ~cpUp /\ ~btService /\ cpUp' = TRUE /\ btService' = TRUE
    /\ chip' = [ftl |-> FALSE, late |-> InFlight, seq |-> 1, links |-> 0]
    /\ portGhost' = [portGhost EXCEPT !.skewed = @ \/ port.seqno # 1 \/ port.flow]
    /\ UNCHANGED <<port, read_buffer, rx_done, tx_done, receiver, Users, count, portFuel>>

(***************************************************************************)
(* The specification.                                                      *)
(***************************************************************************)
Reading == recv_data \/ ReaderArms \/ ReaderTests \/ ReaderWakes \/ ReaderCopies \/ ReaderLeaves

PortNext ==
    \/ PacketArrives \/ ReceiverSignals \/ LinkMessage
    \/ ucom_read \/ Reading \/ ReaderInterrupted
    \/ ucom_write \/ send_data
    \/ ucom_open \/ ucom_release \/ RemovalBegins \/ skw_ucom_remove
    \/ ChipAsserts \/ ServicesGone \/ ChipRecovers

(* Threads run, waits time out; a user that opened the port reads again and again, as the
   transport's threads do. *)
PortFairness ==
    /\ WF_PortVars(ReceiverSignals) /\ WF_PortVars(ucom_read \/ Reading)
    /\ WF_PortVars(send_data) /\ WF_PortVars(LinkMessage) /\ WF_PortVars(skw_ucom_remove)
    /\ WF_PortVars(ServicesGone)

PortSpec == PortInit /\ [][PortNext]_PortVars /\ PortFairness

(***************************************************************************)
(* Properties.                                                             *)
(***************************************************************************)
(* The ring holds exactly the accepted bytes that were not read, in order, and a read
   returns the next of them, wherever the pointers wrap or restart. *)
PortVerbatim ==
    /\ (Length + count.in - count.out) % Length = Used
    /\ \A k \in 0 .. Used - 1 : read_buffer[(port.rp + k) % Length] = Number(count.out + k)
    /\ \A i \in DOMAIN reader.user : reader.user[i] = Number(reader.user[1] + i - 2)

(* The chip's flow-control bit is the port's, and an empty ring never stops the chip, until a
   reopening or a recovery finds one of them set or an access to the register fails. *)
PortFlow ==
    ~portGhost.skewed => /\ chip.ftl = port.flow
                         /\ port.flow => Used > 0

(* With packets on their way bounded by a third of the ring, flow control comes in time:
   no packet is dropped for want of room. *)
PortNoOverflow ==
    [][PacketArrives /\ port.state # "IDLE" /\ chip.seq = port.seqno /\ ~portGhost.skewed
           => count'.in # count.in]_PortVars

(* The buffers of a removed command port are freed only when no reader is inside, unless
   it came in after the removal had looked, or a writer took the close away from it. *)
PortBufferSafe == ucom.removal = "gone" /\ ~portGhost.raced /\ ~portGhost.missed => ~Inside

(* Closing the port gets a reader out of it, wherever the close finds it, unless the port is
   opened again or asserts before the reader has run, or a writer sees the close first. *)
PortCloseWakes ==
    []<>(Inside => port.state \in {"OPEN", "ASST"} \/ portGhost.missed)

(* An assert gets a reader out, unless it came between the reader's look at the state and
   the re-initialisation of the completion (then only data, a close or a signal does). *)
PortAssertWakes ==
    []<>(Inside /\ port.state = "ASST" => cpUp \/ portGhost.missed)

(* A chip that was stopped is let go again as long as somebody reads, unless the bit
   was left behind by a reopening, a recovery or a register that could not be written. *)
PortResumes ==
    []<>(chip.ftl => portGhost.skewed \/ ucom.open = 0 \/ ~cpUp \/ port.state = "IDLE")

(* A port hands its bytes on verbatim, stops the chip in time and frees no buffer in use. *)
PortSafe == [](PortVerbatim /\ PortFlow /\ PortBufferSafe) /\ PortNoOverflow
=============================================================================
