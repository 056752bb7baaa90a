----------------------------- MODULE VhciBridge -----------------------------
(***************************************************************************)
(* The Bluetooth bridge of the S905X5M board                               *)
(* (boards/s905x5m/userland/skw_bridge/skw_vhci_bridge.c): one process,    *)
(* two threads.  The main thread brings the controller up, registers the   *)
(* adapter by opening /dev/vhci, starts the reader thread and then carries *)
(* frames from the kernel to the chip; the reader carries them back.       *)
(* Either thread may fail, a signal may arrive at any time and in either,  *)
(* and the main thread takes everything down after the reader has ended.   *)
(*                                                                         *)
(* A step is one system call with the straight code after it.  Draining    *)
(* the signal pipe and the request that follows are one step: between them *)
(* the other thread sees what it would have seen before the signal.        *)
(***************************************************************************)
EXTENDS H4Frames

CONSTANTS
    Channels,       \* the channels USERIAL_OPEN hands back, CH_CMD = 0 and CH_EVT = 1 among them
    ChipFrames,     \* what the controller may send
    KernelFrames,   \* what the kernel may send
    BufferSizes,    \* the ACL and SCO buffer sizes a controller may answer with
    OpenAttempts,   \* VENDOR_OPEN_ATTEMPTS
    MaxFrames,      \* bound: frames from the controller and the kernel together
    MaxSignals,     \* bound: signals delivered
    MaxStalls       \* bound: times a writer finds its descriptor full

ASSUME ChannelsAssumption == Channels \subseteq Nat /\ {0, 1} \subseteq Channels
ASSUME AttemptsAssumption == OpenAttempts \in Nat \ {0}

VARIABLES
    mpc, rpc,           \* where the two threads are
    running,            \* atomic: running
    failed,             \* atomic: runtime_failed
    pipe,               \* the signal pipe holds a request
    handlers,           \* the signal handlers are installed and the pipe is open
    interrupted,        \* the threads whose system call a signal may still interrupt
    library,            \* resources: lib_handle, vendor_initialized
    ports,              \* the ports inside libskwbt: closed, partial or open
    vendorOpen,         \* vendor_channels_open
    vendorFds,          \* vendor_fds: a descriptor number, or -1
    vhci,               \* /dev/vhci is open, so the adapter is registered
    attempt,            \* the loop counter of open_vendor_channels, 0 once it succeeded
    address,            \* the controller's address: "factory", "written" (not yet in use) or "own"
    mtu,                \* controller_acl_mtu and controller_sco_mtu
    ret,                \* what main returns apart from runtime_failed
    chipSent, chipUp,   \* the controller's side: frames sent, not hung up
    wire,               \* bytes between the controller and the reader
    stream,             \* streams[]: the reader's buffer for each polled descriptor
    at,                 \* the descriptor the reader is busy with
    chipHup,            \* revents of the reader's poll: POLLERR or POLLHUP
    toKernel,           \* the writes to /dev/vhci so far
    kernelSent, kernelUp,
    taken,              \* packets the main thread has read
    done,               \* bytes of the packet that write_all has written
    kernelHup,          \* revents of the main thread's poll
    toChip,             \* the bytes written to the chip so far
    full,               \* the descriptors that accept nothing now
    signals, stalls     \* history

life == <<running, failed, pipe, interrupted>>
setup == <<handlers, library, ports, vendorOpen, vendorFds, attempt, address, mtu>>
reader == <<wire, stream, at, chipHup, toKernel>>
writer == <<taken, done, kernelHup, toChip>>
outside == <<chipSent, chipUp, kernelSent, kernelUp, full, signals, stalls>>
vars == <<mpc, rpc, life, setup, vhci, ret, reader, writer, outside>>

CH_CMD == 0
CH_EVT == 1
Fd == 7             \* the one descriptor libskwbt hands back for every channel

-----------------------------------------------------------------------------
(* Shutdown.                                                               *)

request_shutdown(fatal) == running' = FALSE /\ failed' = (failed \/ fatal)

\* Take a request off the pipe, if there is one.
consume_signal_request ==
    /\ pipe' = FALSE
    /\ running' = (running /\ ~pipe)
    /\ UNCHANGED failed

\* A system call of thread t came back with EINTR.
eintr(t) == t \in interrupted /\ interrupted' = interrupted \ {t} /\ consume_signal_request

quiet == UNCHANGED life

\* A failure counts only while nobody has asked the bridge to stop.
failIfRunning == request_shutdown(running) /\ UNCHANGED <<pipe, interrupted>>
fail == request_shutdown(TRUE) /\ UNCHANGED <<pipe, interrupted>>

-----------------------------------------------------------------------------
(* Bring-up.                                                               *)

bringUp(from) == mpc = from /\ UNCHANGED <<rpc, vhci, reader, writer, outside>>
giveUp == mpc' = "cleanup" /\ ret' = 1
goOn(to) == mpc' = to /\ UNCHANGED ret

SetupSignals ==
    /\ bringUp("start")
    /\ \/ goOn("address") /\ handlers' = TRUE
       \/ mpc' = "exit" /\ ret' = 1 /\ UNCHANGED handlers
    /\ UNCHANGED <<life, library, ports, vendorOpen, vendorFds, attempt, address, mtu>>

\* The file is missing, long or no address, and then the bring-up is over.
read_bdaddr_file ==
    /\ bringUp("address")
    /\ goOn("library") \/ giveUp
    /\ UNCHANGED <<life, setup>>

\* dlopen and dlsym, and the vendor's init; the power request does
\* nothing on this transport.
InitVendorLibrary ==
    /\ bringUp("library")
    /\ \/ goOn("open") /\ library' = {"handle", "vendor"} /\ attempt' = 1
       \/ giveUp /\ library' \in {{}, {"handle"}} /\ UNCHANGED attempt
    /\ UNCHANGED <<life, handlers, ports, vendorOpen, vendorFds, address, mtu>>

open_vendor_channels ==
    /\ bringUp("open")
    /\ \/ /\ goOn("channels")
          /\ ports' = "open" /\ vendorOpen' = TRUE
          /\ vendorFds' = [c \in Channels |-> Fd] /\ attempt' = 0
       \/ /\ goOn("close") /\ ports' \in {"closed", "partial"}
          /\ vendorFds' = [c \in Channels |-> -1] /\ UNCHANGED <<vendorOpen, attempt>>
    /\ UNCHANGED <<life, handlers, library, address, mtu>>

\* A failed attempt is closed; then the loop ends or waits for the next attempt.
CloseAttempt ==
    /\ bringUp("close")
    /\ ports' = "closed"
    /\ IF attempt = OpenAttempts \/ ~running THEN giveUp ELSE goOn("delay")
    /\ UNCHANGED <<life, handlers, library, vendorOpen, vendorFds, attempt, address, mtu>>

\* An interrupted delay is cut short without looking at the pipe.
RetryDelay ==
    /\ bringUp("delay")
    /\ \/ /\ consume_signal_request /\ UNCHANGED interrupted
          /\ IF running' THEN goOn("open") /\ attempt' = attempt + 1
                         ELSE giveUp /\ UNCHANGED attempt
       \/ /\ "main" \in interrupted /\ interrupted' = interrupted \ {"main"}
          /\ UNCHANGED <<running, failed, pipe>>
          /\ goOn("open") /\ attempt' = attempt + 1
       \/ giveUp /\ quiet /\ UNCHANGED attempt
    /\ UNCHANGED <<handlers, library, ports, vendorOpen, vendorFds, address, mtu>>

CheckChannels ==
    /\ bringUp("channels")
    /\ IF vendorFds[CH_CMD] = -1 \/ vendorFds[CH_EVT] = -1 THEN giveUp ELSE goOn("write_addr")
    /\ UNCHANGED <<life, setup>>

\* controller_command: the controller acts on the command or not; its answer is the
\* expected one, or late, foreign, malformed or an error, and then the bring-up is over.
controller_command(from, answered, to) ==
    /\ bringUp(from)
    /\ \/ answered /\ goOn(to) /\ quiet
       \/ giveUp /\ quiet
       \/ eintr("main") /\ ~running' /\ giveUp
    /\ UNCHANGED <<handlers, library, ports, vendorOpen, vendorFds, attempt>>

\* The address takes effect with the reset; a controller may also ignore it, or have it
\* in use at once.
WriteAddress ==
    /\ controller_command("write_addr", TRUE, "reset")
    /\ address' \in {address, "written", "own"} /\ UNCHANGED mtu

ResetController ==
    /\ controller_command("reset", TRUE, "read_addr")
    /\ address' \in (IF address = "written" THEN {"own", "factory"} ELSE {address, "factory"})
    /\ UNCHANGED mtu

\* The answer is compared with the address that was to be written.
VerifyAddress ==
    /\ controller_command("read_addr", address = "own", "read_sizes")
    /\ UNCHANGED <<address, mtu>>

supported(sizes) == sizes.acl # 0 /\ sizes.acl <= KernelMax - 5 /\ sizes.sco <= ScoMax - 4

ReadBufferSizes ==
    /\ \E sizes \in BufferSizes :
          /\ controller_command("read_sizes", supported(sizes), "vhci")
          /\ mtu' = IF mpc' = "vhci" THEN sizes ELSE mtu
    /\ UNCHANGED address

OpenVhci ==
    /\ mpc = "vhci"
    /\ \/ goOn("spawn") /\ vhci' = TRUE
       \/ giveUp /\ UNCHANGED vhci
    /\ UNCHANGED <<rpc, life, setup, reader, writer, outside>>

StartReader ==
    /\ mpc = "spawn"
    /\ \/ goOn("poll") /\ rpc' = "poll"
       \/ mpc' = "closevhci" /\ ret' = 1 /\ UNCHANGED rpc
    /\ UNCHANGED <<life, setup, vhci, reader, writer, outside>>

-----------------------------------------------------------------------------
(* The reader: chip_to_kernel.                                             *)

\* The channels that are polled: one for each descriptor.
polled ==
    {c \in Channels : /\ vendorFds[c] # -1
                      /\ \A d \in Channels : d < c => vendorFds[d] # vendorFds[c]}

controller_frame_limit(type) ==
    CASE type = "event" -> EventMax
      [] type = "acl" -> IF mtu.acl = 0 THEN 0 ELSE mtu.acl + 5
      [] type = "sco" -> IF mtu.sco = 0 THEN 0 ELSE mtu.sco + 4
      [] type = "iso" -> IsoMax
      [] type = "log" -> Capacity
      [] OTHER -> 0

frame_within_limit(size, limit) == limit > 0 /\ size <= limit /\ size <= KernelMax

reading == UNCHANGED <<mpc, setup, vhci, ret, writer, outside>>
endReader == rpc' = "done" /\ UNCHANGED reader

\* The pipe is looked at after every poll, ready or not.
ReaderPoll ==
    /\ rpc = "poll" /\ reading
    /\ \/ ~running /\ endReader /\ quiet
       \/ running /\ eintr("reader") /\ UNCHANGED <<rpc, reader>>
       \/ /\ running /\ consume_signal_request /\ UNCHANGED interrupted
          /\ IF ~running' THEN endReader
             ELSE /\ wire # << >> /\ rpc' = "read"
                  /\ at' \in polled /\ chipHup' = ~chipUp
                  /\ UNCHANGED <<wire, stream, toKernel>>
       \/ running /\ ~pipe /\ wire = << >> /\ ~chipUp /\ endReader /\ fail

ReaderRead ==
    LET available == Capacity - Len(stream[at]) IN
    /\ rpc = "read" /\ reading
    /\ \/ /\ available > 0
          /\ \E n \in 1 .. Len(wire) :
                /\ n <= available
                /\ stream' = [stream EXCEPT ![at] = @ \o SubSeq(wire, 1, n)]
                /\ wire' = SubSeq(wire, n + 1, Len(wire))
          /\ rpc' = "frame" /\ quiet /\ UNCHANGED <<at, chipHup, toKernel>>
       \/ /\ available > 0 /\ "reader" \in interrupted
          /\ interrupted' = interrupted \ {"reader"}
          /\ rpc' = "poll" /\ UNCHANGED <<running, failed, pipe, reader>>
       \/ available = 0 /\ endReader /\ fail

\* Fault: one frame to a read.
nextFrameOnce == rpc' = "poll"

\* The inner loop: every frame that is complete leaves the buffer before the next poll.
nextFrame == rpc' = "frame"

ReaderFrame ==
    LET data == stream[at]
        frame == skw_h4_decode(chipSent, data)
        limit == controller_frame_limit(frame.type)
        fits == IF frame.type = "log" THEN frame.size <= limit
                ELSE frame_within_limit(frame.size, limit)
        refused == frame.status = "invalid" \/ limit = 0 \/ (frame.size # 0 /\ ~fits)
    IN
    /\ rpc = "frame" /\ reading
    /\ \/ /\ data = << >> \/ (~refused /\ frame.status = "incomplete")
          /\ \/ ~running /\ endReader /\ quiet
             \/ running /\ chipHup /\ endReader /\ fail
             \/ running /\ ~chipHup /\ rpc' = "poll" /\ quiet /\ UNCHANGED reader
       \/ data # << >> /\ refused /\ endReader /\ fail
       \/ /\ data # << >> /\ ~refused /\ frame.status = "complete" /\ frame.type = "log"
          /\ stream' = [stream EXCEPT ![at] = skw_h4_stream_consume(data, frame.size)]
          /\ nextFrame /\ quiet /\ UNCHANGED <<wire, at, chipHup, toKernel>>
       \/ /\ data # << >> /\ ~refused /\ frame.status = "complete" /\ frame.type # "log"
          /\ rpc' = "write" /\ quiet /\ UNCHANGED reader

\* write_vhci_frame: the whole frame in one write.
ReaderWrite ==
    LET size == skw_h4_decode(chipSent, stream[at]).size IN
    /\ rpc = "write" /\ reading
    /\ \/ /\ "kernel" \notin full
          /\ toKernel' = Append(toKernel, SubSeq(stream[at], 1, size))
          /\ stream' = [stream EXCEPT ![at] = skw_h4_stream_consume(@, size)]
          /\ nextFrame /\ quiet /\ UNCHANGED <<wire, at, chipHup>>
       \/ "kernel" \in full /\ rpc' = "wait" /\ quiet /\ UNCHANGED reader
       \/ eintr("reader") /\ (IF running' THEN UNCHANGED <<rpc, reader>> ELSE endReader)

\* wait_writable.
ReaderWait ==
    /\ rpc = "wait" /\ reading
    /\ \/ eintr("reader") /\ (IF running' THEN UNCHANGED <<rpc, reader>> ELSE endReader)
       \/ /\ consume_signal_request /\ UNCHANGED interrupted
          /\ IF ~running' THEN endReader
             ELSE "kernel" \notin full /\ rpc' = "write" /\ UNCHANGED reader

\* A system call of the reader fails; for poll and read that counts even after a request to
\* stop, which may have come while the call was under way.
ReaderFault ==
    /\ reading /\ endReader
    /\ \/ rpc \in {"poll", "read"} /\ fail
       \/ rpc \in {"write", "wait"} /\ failIfRunning

Reader == ReaderPoll \/ ReaderRead \/ ReaderFrame \/ ReaderWrite \/ ReaderWait

-----------------------------------------------------------------------------
(* The main thread: kernel_to_chip.                                        *)

host_frame_limit(type) ==
    CASE type = "command" -> CommandMax
      [] type = "acl" -> IF mtu.acl = 0 THEN 0 ELSE mtu.acl + 5
      [] type = "sco" -> IF mtu.sco = 0 THEN 0 ELSE mtu.sco + 4
      [] type = "iso" -> IsoMax
      [] OTHER -> 0

\* What one read of packet n returns: the packet, cut at the size of the buffer.
packet(n) ==
    LET length == kernelSent[n].length
    IN  [place \in 1 .. (IF length > KernelMax THEN KernelMax ELSE length) |-> <<n, place>>]

validate_host_frame(n) ==
    LET frame == skw_h4_decode(kernelSent, packet(n)) IN
    /\ frame.status = "complete" /\ frame.size = Len(packet(n))
    /\ frame.type = "iso" => kernelSent[n].bits = 0
    /\ frame_within_limit(frame.size, host_frame_limit(frame.type))

writing == UNCHANGED <<rpc, setup, vhci, ret, reader, outside>>

\* Out of the loop, which main follows with request_shutdown(0).
leave == mpc' = "join" /\ UNCHANGED writer
leaveFailed == leave /\ fail

KernelPoll ==
    /\ mpc = "poll" /\ writing
    /\ \/ ~running /\ leave /\ quiet
       \/ running /\ eintr("main") /\ UNCHANGED <<mpc, writer>>
       \/ /\ running /\ consume_signal_request /\ UNCHANGED interrupted
          /\ IF ~running' THEN leave
             ELSE /\ taken < Len(kernelSent) /\ mpc' = "read"
                  /\ kernelHup' = ~kernelUp /\ UNCHANGED <<taken, done, toChip>>
       \/ running /\ ~pipe /\ taken = Len(kernelSent) /\ ~kernelUp /\ leaveFailed

\* A control packet for the vhci driver is dropped, any other illegal one ends the bridge.
KernelRead ==
    LET n == taken + 1 IN
    /\ mpc = "read" /\ writing
    /\ \/ /\ kernelSent[n].type = "vendor"
          /\ taken' = n /\ mpc' = "poll" /\ UNCHANGED <<done, kernelHup, toChip>>
          /\ IF kernelHup THEN fail ELSE quiet
       \/ /\ kernelSent[n].type # "vendor"
          /\ validate_host_frame(n) /\ vendorFds[CH_CMD] # -1
          /\ taken' = n /\ done' = 0 /\ mpc' = "write" /\ quiet
          /\ UNCHANGED <<kernelHup, toChip>>
       \/ /\ kernelSent[n].type # "vendor"
          /\ ~validate_host_frame(n) \/ vendorFds[CH_CMD] = -1
          /\ leaveFailed
       \/ /\ "main" \in interrupted /\ interrupted' = interrupted \ {"main"}
          /\ mpc' = "poll" /\ UNCHANGED <<running, failed, pipe, writer>>

\* What write_all still has to write.
rest(data) == SubSeq(data, done + 1, Len(data))

\* write_all: as much as the socket takes, until the packet is written.
KernelWrite ==
    LET data == packet(taken) IN
    /\ mpc = "write" /\ writing
    /\ \/ /\ "chip" \notin full /\ chipUp
          /\ \E k \in 1 .. Len(data) - done :
                toChip' = toChip \o SubSeq(rest(data), 1, k) /\ done' = done + k
          /\ UNCHANGED <<taken, kernelHup>>
          /\ \/ done' < Len(data) /\ UNCHANGED mpc /\ quiet
             \/ done' = Len(data) /\ ~kernelHup /\ mpc' = "poll" /\ quiet
             \/ done' = Len(data) /\ kernelHup /\ mpc' = "join" /\ fail
       \/ "chip" \in full /\ mpc' = "wait" /\ quiet /\ UNCHANGED writer
       \/ ~chipUp /\ leave /\ failIfRunning
       \/ eintr("main") /\ (IF running' THEN UNCHANGED <<mpc, writer>> ELSE leave)

KernelWait ==
    /\ mpc = "wait" /\ writing
    /\ \/ eintr("main") /\ (IF running' THEN UNCHANGED <<mpc, writer>> ELSE leave)
       \/ /\ consume_signal_request /\ UNCHANGED interrupted
          /\ IF ~running' THEN leave
             ELSE "chip" \notin full /\ mpc' = "write" /\ UNCHANGED writer
       \/ ~chipUp /\ leave /\ failIfRunning

\* A system call of the main thread fails.
KernelFault ==
    /\ writing /\ leave
    /\ \/ mpc \in {"poll", "read"} /\ fail
       \/ mpc \in {"write", "wait"} /\ failIfRunning

-----------------------------------------------------------------------------
(* Teardown.                                                               *)

\* Fault: the reader is left to end by itself.
JoinReaderDetached ==
    /\ mpc = "join"
    /\ mpc' = "closevhci"
    /\ UNCHANGED <<rpc, life, setup, vhci, ret, reader, writer, outside>>

JoinReader ==
    /\ mpc = "join" /\ rpc = "done"
    /\ mpc' = "closevhci"
    /\ UNCHANGED <<rpc, life, setup, vhci, ret, reader, writer, outside>>

CloseVhci ==
    /\ mpc = "closevhci"
    /\ mpc' = "cleanup" /\ vhci' = FALSE
    /\ UNCHANGED <<rpc, life, setup, ret, reader, writer, outside>>

cleanup_vendor_library ==
    /\ mpc = "cleanup"
    /\ mpc' = "signals"
    /\ ports' = (IF vendorOpen THEN "closed" ELSE ports) /\ vendorOpen' = FALSE
    /\ library' = {}
    /\ UNCHANGED <<rpc, life, handlers, vendorFds, attempt, address, mtu, vhci, ret,
                   reader, writer, outside>>

cleanup_signal_handling ==
    /\ mpc = "signals"
    /\ mpc' = "exit" /\ handlers' = FALSE
    /\ UNCHANGED <<rpc, life, library, ports, vendorOpen, vendorFds, attempt, address, mtu,
                   vhci, ret, reader, writer, outside>>

Main ==
    \/ SetupSignals \/ read_bdaddr_file \/ InitVendorLibrary \/ open_vendor_channels \/ CloseAttempt
    \/ RetryDelay \/ CheckChannels \/ WriteAddress \/ ResetController \/ VerifyAddress
    \/ ReadBufferSizes \/ OpenVhci \/ StartReader
    \/ KernelPoll \/ KernelRead \/ KernelWrite \/ KernelWait
    \/ JoinReader \/ CloseVhci \/ cleanup_vendor_library \/ cleanup_signal_handling

-----------------------------------------------------------------------------
(* External: signals, the controller behind libskwbt, the kernel.          *)

process == UNCHANGED <<mpc, rpc, running, failed, setup, vhci, ret, at, chipHup, stream,
                       toKernel, writer>>

alive == {"main"} \cup (IF rpc \in {"none", "done"} THEN {} ELSE {"reader"})

\* on_signal, in whichever thread the signal is delivered to.
Signal ==
    /\ handlers /\ signals < MaxSignals
    /\ signals' = signals + 1 /\ pipe' = TRUE
    /\ \E t \in alive : interrupted' = interrupted \cup {t}
    /\ process /\ UNCHANGED <<wire, chipSent, chipUp, kernelSent, kernelUp, full, stalls>>

ChipSend ==
    /\ ports = "open" /\ mpc \notin {"channels", "write_addr", "reset", "read_addr", "read_sizes"}
    /\ chipUp /\ Len(chipSent) + Len(kernelSent) < MaxFrames
    /\ \E frame \in ChipFrames :
          /\ chipSent' = Append(chipSent, frame)
          /\ wire' = wire \o bytesOf(Len(chipSent) + 1, frame)
    /\ process /\ UNCHANGED <<pipe, interrupted, chipUp, kernelSent, kernelUp, full, signals, stalls>>

ChipHangUp ==
    /\ ports = "open" /\ chipUp /\ chipUp' = FALSE
    /\ process /\ UNCHANGED <<pipe, interrupted, wire, chipSent, kernelSent, kernelUp, full,
                              signals, stalls>>

KernelSend ==
    /\ vhci /\ kernelUp /\ Len(chipSent) + Len(kernelSent) < MaxFrames
    /\ \E frame \in KernelFrames : kernelSent' = Append(kernelSent, frame)
    /\ process /\ UNCHANGED <<pipe, interrupted, wire, chipSent, chipUp, kernelUp, full,
                              signals, stalls>>

KernelHangUp ==
    /\ vhci /\ kernelUp /\ kernelUp' = FALSE
    /\ process /\ UNCHANGED <<pipe, interrupted, wire, chipSent, chipUp, kernelSent, full,
                              signals, stalls>>

Stall ==
    /\ stalls < MaxStalls /\ stalls' = stalls + 1
    /\ \E d \in {"chip", "kernel"} \ full : full' = full \cup {d}
    /\ process /\ UNCHANGED <<pipe, interrupted, wire, chipSent, chipUp, kernelSent, kernelUp, signals>>

Drain ==
    /\ \E d \in full : full' = full \ {d}
    /\ process /\ UNCHANGED <<pipe, interrupted, wire, chipSent, chipUp, kernelSent, kernelUp,
                              signals, stalls>>

Outside == Signal \/ ChipSend \/ ChipHangUp \/ KernelSend \/ KernelHangUp \/ Stall \/ Drain

-----------------------------------------------------------------------------
Init ==
    /\ mpc = "start" /\ rpc = "none"
    /\ running = TRUE /\ failed = FALSE /\ pipe = FALSE /\ interrupted = {}
    /\ handlers = FALSE /\ library = {} /\ ports = "closed" /\ vendorOpen = FALSE
    /\ vendorFds = [c \in Channels |-> -1] /\ attempt = 0 /\ address = "factory"
    /\ mtu = [acl |-> 0, sco |-> 0] /\ vhci = FALSE /\ ret = 0
    /\ wire = << >> /\ stream = [c \in Channels |-> << >>] /\ at = CH_CMD /\ chipHup = FALSE
    /\ toKernel = << >>
    /\ taken = 0 /\ done = 0 /\ kernelHup = FALSE /\ toChip = << >>
    /\ chipSent = << >> /\ chipUp = TRUE /\ kernelSent = << >> /\ kernelUp = TRUE
    /\ full = {} /\ signals = 0 /\ stalls = 0

Next == Main \/ Reader \/ KernelFault \/ ReaderFault \/ Outside

Spec == Init /\ [][Next]_vars

\* Each thread runs on, and a descriptor that is full is emptied in the end.  Nothing forces
\* a system call to fail.
FairSpec == Spec /\ WF_vars(Main) /\ WF_vars(Reader) /\ WF_vars(Drain)

-----------------------------------------------------------------------------
(* Properties.                                                             *)

Bytes(bound) == Seq((1 .. bound) \X Nat)

\* Every variable keeps its type.
TypeOK ==
    /\ mpc \in {"start", "address", "library", "open", "close", "delay", "channels", "write_addr", "reset",
                "read_addr", "read_sizes", "vhci", "spawn", "poll", "read", "write", "wait",
                "join", "closevhci", "cleanup", "signals", "exit"}
    /\ rpc \in {"none", "poll", "read", "frame", "write", "wait", "done"}
    /\ {running, failed, pipe, handlers, vendorOpen, vhci, chipHup, kernelHup, chipUp, kernelUp}
          \subseteq BOOLEAN
    /\ interrupted \subseteq {"main", "reader"} /\ full \subseteq {"chip", "kernel"}
    /\ library \subseteq {"handle", "vendor"} /\ ports \in {"closed", "partial", "open"}
    /\ vendorFds \in [Channels -> {-1, Fd}] /\ attempt \in 0 .. OpenAttempts
    /\ address \in {"factory", "written", "own"} /\ mtu \in [acl : Nat, sco : Nat]
    /\ ret \in {0, 1} /\ at \in Channels
    /\ chipSent \in Seq(ChipFrames) /\ kernelSent \in Seq(KernelFrames)
    /\ taken \in 0 .. Len(kernelSent) /\ done \in 0 .. KernelMax
    /\ signals \in 0 .. MaxSignals /\ stalls \in 0 .. MaxStalls

\* The numbers of the frames the reader has to pass on, in the order they were sent.
wanted == SelectSeq([n \in 1 .. Len(chipSent) |-> n], LAMBDA n : chipSent[n].type # "log")

\* However the controller's bytes are split and joined on the way, the kernel gets its
\* frames one to a write, whole, in order, none twice and none left out.
WholeFrames ==
    /\ Len(toKernel) <= Len(wanted)
    /\ \A i \in 1 .. Len(toKernel) : toKernel[i] = bytesOf(wanted[i], chipSent[wanted[i]])

\* The packets the main thread has read and had to pass on.
passed == SelectSeq([n \in 1 .. taken |-> n], LAMBDA n : kernelSent[n].type # "vendor")
concatenated[k \in Nat] == IF k = 0 THEN << >> ELSE concatenated[k - 1] \o packet(passed[k])

\* The chip gets the kernel's packets unchanged, in order and without a gap, control
\* packets left out; only the last one may be cut, and then the bridge is going down or
\* still writing it.
Verbatim ==
    LET whole == concatenated[Len(passed)] IN
    /\ Len(toChip) <= Len(whole) /\ toChip = SubSeq(whole, 1, Len(toChip))
    /\ mpc \in {"poll", "read"} => toChip = whole

\* The reader never meets a full buffer: its error branch for a frame that exceeds the
\* buffer is dead, as a partial frame always leaves room.
RoomToRead == rpc \in {"poll", "read"} => \A c \in polled : Len(stream[c]) < Capacity

\* While the reader lives, the descriptors it uses are open.
ReaderHasDescriptors == rpc \notin {"none", "done"} => vhci /\ ports = "open"

\* The adapter is registered only over a controller that has the board's own address.
AdapterHasAddress == vhci => address = "own"

\* The bridge ends with success only when a signal asked it to: the service manager's
\* Restart=on-failure covers every other end.
exitCode == IF ret = 1 \/ failed THEN 1 ELSE 0
SuccessOnlyWhenAsked == mpc = "exit" /\ exitCode = 0 => signals > 0

\* Whatever stage the bridge stops in, nothing it opened stays open, a partly opened
\* vendor library included.
Released ==
    mpc = "exit" => ~vhci /\ ports = "closed" /\ library = {} /\ ~handlers
                    /\ rpc \in {"none", "done"}

\* A signal, or a failure in either thread, ends the whole process.
Stops == []<>(pipe \/ ~running => mpc = "exit")

\* A frame that has been sent does not get stuck in a buffer: it is passed on or the
\* bridge stops.
buffered(n) ==
    \/ \E k \in DOMAIN wire : wire[k][1] = n
    \/ \E c \in Channels : \E k \in DOMAIN stream[c] : stream[c][k][1] = n
Delivered ==
    \A n \in 1 .. MaxFrames : []<>(rpc # "none" /\ buffered(n) => ~running)

(* No frame is stuck in the bridge while it runs, and what ends one thread ends the
   process. *)
BridgeProgress == Delivered /\ Stops

(* The stream from the controller is cut into whole frames that fit and reach the kernel
   unchanged. *)
FramesKept == TypeOK /\ WholeFrames /\ RoomToRead /\ Verbatim

(* The reader never outlives its descriptors, no adapter runs without an address, the exit
   code tells a requested stop from a failure, and whatever was opened is released. *)
BridgeSafe == ReaderHasDescriptors /\ AdapterHasAddress /\ SuccessOnlyWhenAsked /\ Released
=============================================================================
