---------------------------- MODULE SkwTransport ----------------------------
(***************************************************************************)
(* libskwbt's transport (scom_vendor.c): a port is a device node with a    *)
(* socket pair and a controller thread; port 0 also owns the host socket   *)
(* that all controller threads write to and the thread that reads it.  The *)
(* bridge opens the ports one after the other and closes them while their  *)
(* threads run.  Frames travel in Chunks pieces, as write_transport sends  *)
(* what the socket takes.                                                  *)
(***************************************************************************)
EXTENDS Integers, FiniteSets

CONSTANTS
    Ports,      \* the configured device nodes, 0 .. n-1 (skwbt.conf)
    Chunks,     \* pieces a frame is sent in
    SocketRoom, \* pieces the host socket holds while nobody reads it
    Frames,     \* bound: frames each device delivers, and the host sends
    Faults,     \* bound: device and resource failures
    Sessions    \* bound: times the bridge opens the transport

BT_COM_PORT_CMDEVT == 0
NoPort == -1

ASSUME TransportConstants ==
    /\ Cardinality(Ports) \in Nat \ {0}
    /\ Ports = 0..(Cardinality(Ports) - 1)
    /\ {Chunks, SocketRoom} \subseteq Nat \ {0}

VARIABLES
    op,             \* what the bridge's thread is doing in op()
    idx,            \* the port its loop is at
    dev,            \* scomm->fd is open
    sock,           \* scomm->uart_fd[1]: "none", "open" or "shut"
    thread_running, driver_state, recv_comm_thread_running,
    ctl,            \* recv_scomm_thread: where the thread of each port is
    left,           \* pieces of its frame it has still to send
    hst,            \* recv_socket_thread: where it is
    dest,           \* the port it writes to
    write2host_lock,
    inbox,          \* pieces in the host socket the bridge has not read
    partial,        \* the port whose frame is half written (ghost)
    cut,            \* a send has failed inside a frame, on a port that was not being stopped (ghost)
    torn,           \* a frame was written inside another (ghost)
    fuel            \* what is left of the bounds

portVars == <<thread_running, driver_state, sock>>
callVars == <<op, idx, dev>>
hostVars == <<hst, dest>>
wireVars == <<inbox, partial, cut, torn>>
TrVars == <<callVars, portVars, recv_comm_thread_running, ctl, left, hostVars, write2host_lock,
            wireVars, fuel>>

(* scomm_vendor_init *)
TrInit ==
    /\ op = "closed" /\ idx = 0
    /\ dev = [p \in Ports |-> FALSE]
    /\ sock = [p \in Ports |-> "none"]
    /\ thread_running = [p \in Ports |-> FALSE]
    /\ driver_state = [p \in Ports |-> FALSE]
    /\ recv_comm_thread_running = [p \in Ports |-> FALSE]
    /\ ctl = [p \in Ports |-> "none"]
    /\ left = [p \in Ports |-> 0]
    /\ hst = "none" /\ dest = NoPort
    /\ write2host_lock = NoPort
    /\ inbox = 0 /\ partial = NoPort /\ cut = FALSE /\ torn = FALSE
    /\ fuel = [frames |-> [p \in Ports |-> Frames], host |-> Frames,
               faults |-> Faults, sessions |-> Sessions]

(* What fail_transport, port_close and the close loop all do to a port: no more work,
   wake its threads, shut its end of the host socket down. *)
StopPort(p) ==
    /\ driver_state' = [driver_state EXCEPT ![p] = FALSE]
    /\ thread_running' = [thread_running EXCEPT ![p] = FALSE]
    /\ sock' = [sock EXCEPT ![p] = IF @ = "none" THEN "none" ELSE "shut"]

Fault == fuel.faults > 0 /\ fuel' = [fuel EXCEPT !.faults = @ - 1]

(* The bridge's view of the host socket. *)
BridgeReads ==
    /\ op = "opened" /\ inbox > 0
    /\ inbox' = inbox - 1
    /\ UNCHANGED <<callVars, portVars, recv_comm_thread_running, ctl, left, hostVars, write2host_lock, partial, cut, torn,
                   fuel>>

(***************************************************************************)
(* op(BT_VND_OP_USERIAL_OPEN), port by port.                               *)
(***************************************************************************)
OpenBegins ==
    /\ op = "closed" /\ fuel.sessions > 0
    /\ op' = "open" /\ idx' = 0
    /\ fuel' = [fuel EXCEPT !.sessions = @ - 1]
    /\ UNCHANGED <<dev, portVars, recv_comm_thread_running, ctl, left, hostVars, write2host_lock, wireVars>>

(* scomm_vendor_socket_open up to its threads: the sockets, the flags, the controller
   thread and, on port 0, the thread that reads the host. *)
ThreadsStart(p) ==
    /\ sock' = [sock EXCEPT ![p] = "open"]
    /\ thread_running' = [thread_running EXCEPT ![p] = TRUE]
    /\ recv_comm_thread_running' = [recv_comm_thread_running EXCEPT ![p] = FALSE]
    /\ driver_state' = [driver_state EXCEPT ![p] = FALSE]
    /\ ctl' = [ctl EXCEPT ![p] = "start"]
    /\ IF p = BT_COM_PORT_CMDEVT
          THEN hst' = "poll" /\ inbox' = 0 /\ partial' = NoPort /\ cut' = FALSE /\ torn' = FALSE
          ELSE UNCHANGED <<hst, wireVars>>

scomm_vendor_usbsdio_open(p, opened) == dev' = [dev EXCEPT ![p] = opened]

(* One turn of the loop: the device, then its sockets and threads.  Either may fail, and
   a failed socket_open leaves the device open. *)
OpenPort ==
    /\ op = "open" /\ idx \in Ports
    /\ \/ /\ Fault
          /\ op' = "failed"
          /\ \E opened \in BOOLEAN : scomm_vendor_usbsdio_open(idx, opened)
          /\ UNCHANGED <<portVars, recv_comm_thread_running, ctl, hst, wireVars>>
       \/ /\ op' = "started"
          /\ scomm_vendor_usbsdio_open(idx, TRUE)
          /\ ThreadsStart(idx)
          /\ UNCHANGED fuel
    /\ UNCHANGED <<idx, left, dest, write2host_lock>>

(* The wait for the thread to run ends when it does, when the port has failed, or after
   half a second; only the thread's own flag is looked at. *)
scomm_vendor_socket_open ==
    /\ op = "started"
    /\ \/ /\ recv_comm_thread_running[idx]
          /\ driver_state' = [driver_state EXCEPT ![idx] = TRUE]
          /\ idx' = idx + 1
          /\ op' = IF idx + 1 \in Ports THEN "open" ELSE "opened"
          /\ UNCHANGED <<thread_running, sock, fuel>>
       \/ /\ ~recv_comm_thread_running[idx]
          /\ Fault
          /\ op' = "unwind"
          /\ StopPort(idx)
          /\ UNCHANGED idx
    /\ UNCHANGED <<dev, recv_comm_thread_running, ctl, left, hostVars, write2host_lock, wireVars>>

(* The two joins, of whichever threads the port has started. *)
Joined(p) ==
    /\ ctl[p] \in {"none", "done"}
    /\ p = BT_COM_PORT_CMDEVT => hst \in {"none", "done"}

Reap(p) ==
    /\ ctl' = [ctl EXCEPT ![p] = "none"]
    /\ hst' = IF p = BT_COM_PORT_CMDEVT THEN "none" ELSE hst
    /\ sock' = [sock EXCEPT ![p] = "none"]

OpenUnwinds ==
    /\ op = "unwind" /\ Joined(idx)
    /\ Reap(idx)
    /\ op' = "failed"
    /\ UNCHANGED <<idx, dev, thread_running, driver_state, recv_comm_thread_running, left, dest, write2host_lock, wireVars, fuel>>

(***************************************************************************)
(* op(BT_VND_OP_USERIAL_CLOSE): stop every port, then close port by port.  *)
(* The bridge calls it after a failed open, on an error and at its end.    *)
(***************************************************************************)
CloseBegins ==
    /\ op \in {"opened", "failed"}
    /\ op' = "stop" /\ idx' = 0
    /\ UNCHANGED <<dev, portVars, recv_comm_thread_running, ctl, left, hostVars, write2host_lock, wireVars, fuel>>

(* Fault: the ports are closed from the last, the host's thread after the devices it writes to. *)
ReverseOrder(p) == Cardinality(Ports) - 1 - p

CloseOrder(i) == i

scomm_vendor_close ==
    /\ op = "stop"
    /\ StopPort(idx)
    /\ IF idx + 1 \in Ports THEN idx' = idx + 1 /\ op' = op ELSE idx' = 0 /\ op' = "join"
    /\ UNCHANGED <<dev, recv_comm_thread_running, ctl, left, hostVars, write2host_lock, wireVars, fuel>>

scomm_vendor_port_close(p) ==
    /\ op = "join" /\ p = CloseOrder(idx)
    /\ Joined(p)
    /\ Reap(p)
    /\ dev' = [dev EXCEPT ![p] = FALSE]
    /\ thread_running' = [thread_running EXCEPT ![p] = FALSE]
    /\ driver_state' = [driver_state EXCEPT ![p] = FALSE]
    /\ recv_comm_thread_running' = [recv_comm_thread_running EXCEPT ![p] = FALSE]
    /\ IF idx + 1 \in Ports THEN idx' = idx + 1 /\ op' = op ELSE idx' = 0 /\ op' = "closed"
    /\ UNCHANGED <<left, dest, write2host_lock, wireVars, fuel>>

(***************************************************************************)
(* scomm_vendor_recv_scomm_thread: device to host.                         *)
(***************************************************************************)
CtlGoes(p, from, to) == ctl[p] = from /\ ctl' = [ctl EXCEPT ![p] = to]

CtlStarts(p) ==
    /\ CtlGoes(p, "start", "poll")
    /\ recv_comm_thread_running' = [recv_comm_thread_running EXCEPT ![p] = TRUE]
    /\ UNCHANGED <<callVars, portVars, left, hostVars, write2host_lock, wireVars, fuel>>

(* One turn of the poll loop: stopped, a log record (kept here), a frame for the host, or
   an end of file, a hang-up or a frame no limit allows. *)
CtlPolls(p) ==
    /\ \/ ~thread_running[p] /\ CtlGoes(p, "poll", "done") /\ UNCHANGED <<left, fuel>>
       \/ /\ thread_running[p] /\ fuel.frames[p] > 0
          /\ fuel' = [fuel EXCEPT !.frames[p] = @ - 1]
          /\ \/ CtlGoes(p, "poll", "poll") /\ UNCHANGED left
             \/ CtlGoes(p, "poll", "lock") /\ left' = [left EXCEPT ![p] = Chunks]
       \/ thread_running[p] /\ CtlGoes(p, "poll", "fail") /\ Fault /\ UNCHANGED left
    /\ UNCHANGED <<callVars, portVars, recv_comm_thread_running, hostVars, write2host_lock, wireVars>>

(* scomm_vendor_send_to_host: the lock, and the look at port 0's descriptor under it. *)
LockFree == write2host_lock = NoPort

scomm_vendor_send_to_host(p) ==
    /\ LockFree
    /\ CtlGoes(p, "lock", IF sock[BT_COM_PORT_CMDEVT] = "none" THEN "unlock" ELSE "write")
    /\ write2host_lock' = p
    /\ UNCHANGED <<callVars, portVars, recv_comm_thread_running, left, hostVars, wireVars, fuel>>

(* write_transport: the loop's look at the port, and one send.  A full socket is polled
   for, and the look is repeated every half second; a socket that is shut down, or has
   been closed under the thread, fails the send, and so may the send or the poll itself,
   whatever part of the frame is written by then. *)
write_transport(p) ==
    /\ LET h == BT_COM_PORT_CMDEVT
       IN \/ /\ ~thread_running[h] \/ sock[h] # "open"
             /\ CtlGoes(p, "write", "unlock")
             /\ UNCHANGED <<left, wireVars, fuel>>
          \/ /\ thread_running[h] /\ sock[h] = "open" /\ Fault
             /\ CtlGoes(p, "write", "unlock")
             /\ cut' = (cut \/ partial = p)
             /\ UNCHANGED <<left, inbox, partial, torn>>
          \/ /\ thread_running[h] /\ sock[h] = "open" /\ inbox < SocketRoom
             /\ CtlGoes(p, "write", IF left[p] = 1 THEN "unlock" ELSE "write")
             /\ left' = [left EXCEPT ![p] = @ - 1]
             /\ inbox' = inbox + 1
             /\ torn' = (torn \/ partial \notin {NoPort, p})
             /\ partial' = IF left[p] = 1 THEN NoPort ELSE p
             /\ UNCHANGED <<cut, fuel>>
    /\ UNCHANGED <<callVars, portVars, recv_comm_thread_running, hostVars, write2host_lock>>

(* The unlock; a failed write then fails the host port unless it is stopped already.  Until it
   has, the other ports' threads find the lock free and the socket open. *)
SendReturns(p) ==
    /\ write2host_lock' = NoPort
    /\ CtlGoes(p, "unlock", IF left[p] = 0 THEN "poll"
                            ELSE IF thread_running[BT_COM_PORT_CMDEVT] THEN "failhost" ELSE "sent")
    /\ UNCHANGED <<callVars, portVars, recv_comm_thread_running, left, hostVars, wireVars, fuel>>

FailsHost(p) ==
    /\ CtlGoes(p, "failhost", "sent")
    /\ StopPort(BT_COM_PORT_CMDEVT)
    /\ UNCHANGED <<callVars, recv_comm_thread_running, left, hostVars, write2host_lock, wireVars, fuel>>

(* Back in the thread after a failed send: its own port fails too if it still runs. *)
SendFailed(p) ==
    /\ CtlGoes(p, "sent", IF thread_running[p] THEN "fail" ELSE "done")
    /\ left' = [left EXCEPT ![p] = 0]
    /\ UNCHANGED <<callVars, portVars, recv_comm_thread_running, hostVars, write2host_lock, wireVars, fuel>>

(* scomm_vendor_fail_transport, from a controller thread: its own port, then the host's. *)
scomm_vendor_fail_transport(p) ==
    /\ \/ /\ CtlGoes(p, "fail", IF p = BT_COM_PORT_CMDEVT THEN "done" ELSE "failboth")
          /\ StopPort(p)
       \/ /\ CtlGoes(p, "failboth", "done")
          /\ StopPort(BT_COM_PORT_CMDEVT)
    /\ UNCHANGED <<callVars, recv_comm_thread_running, left, hostVars, write2host_lock, wireVars, fuel>>

(***************************************************************************)
(* scomm_vendor_recv_socket_thread and recv_rawdata: host to device.       *)
(***************************************************************************)
scomm_vendor_recv_socket_thread ==
    /\ hst = "poll" /\ ~thread_running[BT_COM_PORT_CMDEVT]
    /\ hst' = "done"
    /\ UNCHANGED <<callVars, portVars, recv_comm_thread_running, ctl, left, dest, write2host_lock,
                   wireVars, fuel>>

(* A type goes to the port that carries it. *)
host_frame_port(q) == dest' = q /\ hst' = IF dev[q] /\ driver_state[q] THEN "write" ELSE "fail"

(* What a read brings: the end of file once the socket is shut down, an invalid or
   oversized frame, or a frame for some port. *)
scomm_vendor_recv_rawdata ==
    /\ hst = "poll" /\ thread_running[BT_COM_PORT_CMDEVT]
    /\ \/ sock[BT_COM_PORT_CMDEVT] = "shut" /\ hst' = "fail" /\ UNCHANGED <<dest, fuel>>
       \/ hst' = "fail" /\ Fault /\ UNCHANGED dest
       \/ /\ fuel.host > 0 /\ op = "opened"
          /\ fuel' = [fuel EXCEPT !.host = @ - 1]
          /\ \E q \in Ports : host_frame_port(q)
    /\ UNCHANGED <<callVars, portVars, recv_comm_thread_running, ctl, left, write2host_lock, wireVars>>

(* write_transport to the device: stopped, taken, refused, or (no step) not yet ready. *)
send_host_frame_to_device ==
    /\ hst = "write"
    /\ \/ ~thread_running[dest] /\ hst' = "fail" /\ UNCHANGED fuel
       \/ thread_running[dest] /\ hst' = "poll" /\ UNCHANGED fuel
       \/ thread_running[dest] /\ hst' = "fail" /\ Fault
    /\ UNCHANGED <<callVars, portVars, recv_comm_thread_running, ctl, left, dest, write2host_lock, wireVars>>

HostFails ==
    /\ hst = "fail"
    /\ hst' = "done"
    /\ StopPort(BT_COM_PORT_CMDEVT)
    /\ UNCHANGED <<callVars, recv_comm_thread_running, ctl, left, dest, write2host_lock, wireVars, fuel>>

(***************************************************************************)
(* The specification.                                                      *)
(***************************************************************************)
TrOpen == OpenBegins \/ OpenPort \/ scomm_vendor_socket_open \/ OpenUnwinds
TrClose == scomm_vendor_close \/ \E p \in Ports : scomm_vendor_port_close(p)
TrCtl(p) ==
    \/ CtlStarts(p) \/ CtlPolls(p) \/ scomm_vendor_send_to_host(p) \/ write_transport(p)
    \/ SendReturns(p) \/ FailsHost(p) \/ SendFailed(p) \/ scomm_vendor_fail_transport(p)
TrHost == scomm_vendor_recv_socket_thread \/ scomm_vendor_recv_rawdata \/ send_host_frame_to_device \/ HostFails

TrNext == BridgeReads \/ TrOpen \/ CloseBegins \/ TrClose \/ TrHost \/ \E p \in Ports : TrCtl(p)

(* The threads run and the bridge's calls go on; nothing is assumed of the devices, of
   the bridge reading its socket, or of the calls it makes. *)
HostThread ==
    \/ HostFails \/ scomm_vendor_recv_socket_thread
    \/ scomm_vendor_recv_rawdata /\ fuel' = fuel
    \/ send_host_frame_to_device /\ hst' = "fail" /\ fuel' = fuel

TrFairness ==
    /\ WF_TrVars(TrClose)
    /\ WF_TrVars(HostThread)
    /\ \A p \in Ports : WF_TrVars(TrCtl(p) /\ fuel' = fuel)

TrSpec == TrInit /\ [][TrNext]_TrVars /\ TrFairness

(***************************************************************************)
(* Properties.                                                             *)
(***************************************************************************)
(* The controller threads of all ports share one byte stream to the host: no frame is
   ever written inside another, however writes are split and threads fail.  It needs a socket
   that fails no send by itself: after one that did, inside a frame, the lock is given back
   (scom_vendor.c:722) before the host is failed (727), and nothing keeps another frame out. *)
TrWholeFrames == torn => cut

(* A thread never polls, reads or writes a device descriptor that close has already
   closed: each joins its own reader, and the ports are closed in an order in which the
   host thread, which writes to all of them, ends first. *)
TrDescriptorsOutliveThreads ==
    /\ \A p \in Ports : ctl[p] \notin {"none", "done"} => dev[p]
    /\ hst = "write" => dev[dest]

(* Once op(CLOSE) has returned nothing is left of any port, also when the open failed in
   the middle or a port failed on its own. *)
TrReleased ==
    op = "closed" =>
        /\ \A p \in Ports : ~dev[p] /\ sock[p] = "none" /\ ctl[p] = "none"
        /\ hst = "none" /\ write2host_lock = NoPort

(* Closing ends, whatever the threads are doing: none of them waits for a host that no
   longer reads, for a device or for the lock. *)
TrCloseEnds == []<>(op \notin {"stop", "join"})

(* A port that fails on its own, or a stream that is cut inside a frame, is never a silent loss: the
   host's socket is shut down, so that the bridge sees the end of file, or the bridge is closing already. *)
TrFailureReachesHost ==
    []<>(op = "opened" /\ (cut \/ \E p \in Ports : ~thread_running[p]) => sock[BT_COM_PORT_CMDEVT] = "shut")

(* The transport is sound: whole frames to the host, no descriptor used after it was closed,
   nothing left behind by a close. *)
TrSafe == TrWholeFrames /\ TrDescriptorsOutliveThreads /\ TrReleased
=============================================================================
