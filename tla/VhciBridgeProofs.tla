-------------------------- MODULE VhciBridgeProofs --------------------------
(***************************************************************************)
(* What the bridge's life cycle guarantees for every set of frames,        *)
(* channels and buffer sizes and every number of attempts, signals and     *)
(* stalls.  The data path is left to the model checker.                    *)
(***************************************************************************)
EXTENDS VhciBridge, TLAPS

Opening == {"start", "address", "library", "open", "close", "delay"}
Bridging == {"poll", "read", "write", "wait", "join"}
Registered == Bridging \cup {"spawn", "closevhci"}
Verified == Registered \cup {"read_sizes", "vhci"}
Opened == Verified \cup {"channels", "write_addr", "reset", "read_addr"}
Ending == {"closevhci", "cleanup", "signals", "exit"}

\* Which resources are held where.
Holdings ==
    /\ rpc \notin {"none", "done"} => mpc \in Bridging
    /\ mpc \in Registered => vhci
    /\ vhci => mpc \in Registered
    /\ mpc \in Opened => vendorOpen
    /\ vendorOpen => ports = "open"
    /\ ports = "open" => vendorOpen
    /\ ports = "partial" => mpc = "close"
    /\ ports \in {"closed", "partial", "open"}
    /\ mpc \in Opening => ~vendorOpen
    /\ mpc \in {"start", "signals", "exit"} => library = {} /\ ~vendorOpen
    /\ mpc \in {"start", "exit"} => ~handlers
    /\ mpc \in Verified => address = "own"

\* Why the bridge is on its way out: every end but a failed bring-up goes through
\* request_shutdown, and only a signal goes through it without a failure.
Cause ==
    /\ signals \in Nat
    /\ ~running => failed \/ signals > 0
    /\ pipe => signals > 0
    /\ mpc = "join" => ~running
    /\ mpc \in Ending => ret = 1 \/ ~running

Inv == Holdings /\ Cause

-----------------------------------------------------------------------------
(* What the steps of a thread do to the part the invariant is about.       *)

held == <<ports, vendorOpen, handlers, library, address, vhci, ret, signals>>

lifeMoves ==
    \/ UNCHANGED <<running, failed, pipe>>
    \/ consume_signal_request
    \/ request_shutdown(TRUE) /\ UNCHANGED pipe
    \/ request_shutdown(running) /\ UNCHANGED pipe

readerMoves == rpc \notin {"none", "done"} /\ UNCHANGED <<mpc, held>> /\ lifeMoves

kernelMoves ==
    /\ mpc \in {"poll", "read", "write", "wait"} /\ mpc' \in Bridging
    /\ mpc' = "join" => ~running'
    /\ UNCHANGED <<rpc, held>> /\ lifeMoves

\* A step of chip_to_kernel.
LEMMA ReaderMoves ==
    ASSUME ReaderPoll \/ ReaderRead \/ ReaderFrame \/ ReaderWrite \/ ReaderWait \/ ReaderFault
    PROVE  readerMoves
<1>1. CASE ReaderPoll
  <2>1. rpc \notin {"none", "done"}
    BY <1>1 DEF ReaderPoll, endReader
  <2>2. UNCHANGED <<mpc, held>>
    BY <1>1 DEF ReaderPoll, reading, setup, outside, held
  <2>3. lifeMoves
    BY <1>1 DEF ReaderPoll, lifeMoves, endReader, fail, failIfRunning, quiet, eintr, life
  <2> QED
    BY <2>1, <2>2, <2>3 DEF readerMoves
<1>2. CASE ReaderRead
  <2>1. rpc \notin {"none", "done"}
    BY <1>2 DEF ReaderRead, endReader
  <2>2. UNCHANGED <<mpc, held>>
    BY <1>2 DEF ReaderRead, reading, setup, outside, held
  <2>3. lifeMoves
    BY <1>2 DEF ReaderRead, lifeMoves, endReader, fail, failIfRunning, quiet, eintr, life
  <2> QED
    BY <2>1, <2>2, <2>3 DEF readerMoves
<1>3. CASE ReaderFrame
  <2>1. rpc \notin {"none", "done"}
    BY <1>3 DEF ReaderFrame, endReader
  <2>2. UNCHANGED <<mpc, held>>
    BY <1>3 DEF ReaderFrame, reading, setup, outside, held
  <2>3. lifeMoves
    BY <1>3 DEF ReaderFrame, lifeMoves, endReader, fail, failIfRunning, quiet, eintr, life
  <2> QED
    BY <2>1, <2>2, <2>3 DEF readerMoves
<1>4. CASE ReaderWrite
  <2>1. rpc \notin {"none", "done"}
    BY <1>4 DEF ReaderWrite, endReader
  <2>2. UNCHANGED <<mpc, held>>
    BY <1>4 DEF ReaderWrite, reading, setup, outside, held
  <2>3. lifeMoves
    BY <1>4 DEF ReaderWrite, lifeMoves, endReader, fail, failIfRunning, quiet, eintr, life
  <2> QED
    BY <2>1, <2>2, <2>3 DEF readerMoves
<1>5. CASE ReaderWait
  <2>1. rpc \notin {"none", "done"}
    BY <1>5 DEF ReaderWait, endReader
  <2>2. UNCHANGED <<mpc, held>>
    BY <1>5 DEF ReaderWait, reading, setup, outside, held
  <2>3. lifeMoves
    BY <1>5 DEF ReaderWait, lifeMoves, endReader, fail, failIfRunning, quiet, eintr, life
  <2> QED
    BY <2>1, <2>2, <2>3 DEF readerMoves
<1>6. CASE ReaderFault
  <2>1. rpc \notin {"none", "done"}
    BY <1>6 DEF ReaderFault, endReader
  <2>2. UNCHANGED <<mpc, held>>
    BY <1>6 DEF ReaderFault, reading, setup, outside, held
  <2>3. lifeMoves
    BY <1>6 DEF ReaderFault, lifeMoves, endReader, fail, failIfRunning, quiet, eintr, life
  <2> QED
    BY <2>1, <2>2, <2>3 DEF readerMoves
<1> QED
  BY <1>1, <1>2, <1>3, <1>4, <1>5, <1>6

\* A step of kernel_to_chip.
LEMMA KernelMoves ==
    ASSUME KernelPoll \/ KernelRead \/ KernelWrite \/ KernelWait \/ KernelFault
    PROVE  kernelMoves
<1>1. CASE KernelPoll
  <2>1. mpc \in {"poll", "read", "write", "wait"}
    BY <1>1 DEF KernelPoll, leave
  <2>2. mpc' \in Bridging
    BY <1>1 DEF KernelPoll, Bridging, leave, leaveFailed
  <2>3. mpc' = "join" => ~running'
    BY <1>1 DEF KernelPoll, leave, leaveFailed, fail, failIfRunning, request_shutdown,
       quiet, eintr, life
  <2>4. UNCHANGED <<rpc, held>>
    BY <1>1 DEF KernelPoll, writing, setup, outside, held
  <2>5. lifeMoves
    BY <1>1 DEF KernelPoll, lifeMoves, leave, leaveFailed, fail, failIfRunning, quiet,
       eintr, life
  <2> QED
    BY <2>1, <2>2, <2>3, <2>4, <2>5 DEF kernelMoves
<1>2. CASE KernelRead
  <2>1. mpc \in {"poll", "read", "write", "wait"}
    BY <1>2 DEF KernelRead, leave
  <2>2. mpc' \in Bridging
    BY <1>2 DEF KernelRead, Bridging, leave, leaveFailed
  <2>3. mpc' = "join" => ~running'
    BY <1>2 DEF KernelRead, leave, leaveFailed, fail, failIfRunning, request_shutdown,
       quiet, eintr, life
  <2>4. UNCHANGED <<rpc, held>>
    BY <1>2 DEF KernelRead, writing, setup, outside, held
  <2>5. lifeMoves
    BY <1>2 DEF KernelRead, lifeMoves, leave, leaveFailed, fail, failIfRunning, quiet,
       eintr, life
  <2> QED
    BY <2>1, <2>2, <2>3, <2>4, <2>5 DEF kernelMoves
<1>3. CASE KernelWrite
  <2>1. mpc \in {"poll", "read", "write", "wait"}
    BY <1>3 DEF KernelWrite, leave
  <2>2. mpc' \in Bridging
    BY <1>3 DEF KernelWrite, Bridging, leave, leaveFailed
  <2>3. mpc' = "join" => ~running'
    BY <1>3 DEF KernelWrite, leave, leaveFailed, fail, failIfRunning, request_shutdown,
       quiet, eintr, life
  <2>4. UNCHANGED <<rpc, held>>
    BY <1>3 DEF KernelWrite, writing, setup, outside, held
  <2>5. lifeMoves
    BY <1>3 DEF KernelWrite, lifeMoves, leave, leaveFailed, fail, failIfRunning, quiet,
       eintr, life
  <2> QED
    BY <2>1, <2>2, <2>3, <2>4, <2>5 DEF kernelMoves
<1>4. CASE KernelWait
  <2>1. mpc \in {"poll", "read", "write", "wait"}
    BY <1>4 DEF KernelWait, leave
  <2>2. mpc' \in Bridging
    BY <1>4 DEF KernelWait, Bridging, leave, leaveFailed
  <2>3. mpc' = "join" => ~running'
    BY <1>4 DEF KernelWait, leave, leaveFailed, fail, failIfRunning, request_shutdown,
       quiet, eintr, life
  <2>4. UNCHANGED <<rpc, held>>
    BY <1>4 DEF KernelWait, writing, setup, outside, held
  <2>5. lifeMoves
    BY <1>4 DEF KernelWait, lifeMoves, leave, leaveFailed, fail, failIfRunning, quiet,
       eintr, life
  <2> QED
    BY <2>1, <2>2, <2>3, <2>4, <2>5 DEF kernelMoves
<1>5. CASE KernelFault
  <2>1. mpc \in {"poll", "read", "write", "wait"}
    BY <1>5 DEF KernelFault, leave
  <2>2. mpc' \in Bridging
    BY <1>5 DEF KernelFault, Bridging, leave, leaveFailed
  <2>3. mpc' = "join" => ~running'
    BY <1>5 DEF KernelFault, leave, leaveFailed, fail, failIfRunning, request_shutdown,
       quiet, eintr, life
  <2>4. UNCHANGED <<rpc, held>>
    BY <1>5 DEF KernelFault, writing, setup, outside, held
  <2>5. lifeMoves
    BY <1>5 DEF KernelFault, lifeMoves, leave, leaveFailed, fail, failIfRunning, quiet,
       eintr, life
  <2> QED
    BY <2>1, <2>2, <2>3, <2>4, <2>5 DEF kernelMoves
<1> QED
  BY <1>1, <1>2, <1>3, <1>4, <1>5

\* However a thread touches running, runtime_failed and the pipe, a stop has a cause.
LEMMA StopHasCause ==
    ASSUME Cause, lifeMoves, signals' = signals
    PROVE  /\ signals' \in Nat
           /\ ~running' => failed' \/ signals' > 0
           /\ pipe' => signals' > 0
           /\ ~running => ~running'
<1> DEFINE asked == signals > 0
<1>1. (~running => failed \/ asked) /\ (pipe => asked)
  BY DEF Cause
<1>2. asked' <=> asked
  OBVIOUS
<1> HIDE DEF asked
<1>3. (~running' => failed' \/ asked') /\ (pipe' => asked') /\ (~running => ~running')
  <2>1. CASE UNCHANGED <<running, failed, pipe>>
    BY <1>1, <1>2, <2>1
  <2>2. CASE consume_signal_request
    BY <1>1, <1>2, <2>2 DEF consume_signal_request
  <2>3. CASE request_shutdown(TRUE) /\ UNCHANGED pipe
    BY <1>1, <1>2, <2>3 DEF request_shutdown
  <2>4. CASE request_shutdown(running) /\ UNCHANGED pipe
    BY <1>1, <1>2, <2>4 DEF request_shutdown
  <2> QED
    BY <2>1, <2>2, <2>3, <2>4 DEF lifeMoves
<1> QED
  BY <1>3 DEF asked, Cause

\* Either keeps the invariant.
LEMMA ReaderKeeps == ASSUME Inv, readerMoves PROVE Inv'
<1>1. Holdings'
  <2>1. mpc \in Bridging /\ mpc' \in Bridging
    BY DEF Inv, Holdings, readerMoves, Bridging
  <2>2. vhci /\ vendorOpen /\ ports = "open" /\ address = "own"
    BY <2>1 DEF Inv, Holdings, Opened, Verified, Registered
  <2>3. UNCHANGED <<ports, vendorOpen, vhci, address>>
    BY DEF readerMoves, held
  <2>4. vhci' /\ vendorOpen' /\ ports' = "open" /\ address' = "own"
    BY <2>2, <2>3
  <2>5. mpc' \in Registered /\ mpc' \notin Opening \cup {"start", "signals", "exit"}
    BY <2>1 DEF Registered, Bridging, Opening
  <2>6. ports' # "partial" /\ ports' \in {"closed", "partial", "open"}
    BY <2>4
  <2> QED
    BY <2>1, <2>4, <2>5, <2>6, Zenon DEF Holdings
<1>2. Cause'
  <2>1. /\ signals' \in Nat /\ (~running' => failed' \/ signals' > 0)
        /\ (pipe' => signals' > 0) /\ (~running => ~running')
    <3>1. signals' = signals
      BY DEF readerMoves, held
    <3> QED
      BY <3>1, StopHasCause DEF Inv, readerMoves
  <2>2. mpc \in Bridging /\ mpc' = mpc
    BY DEF Inv, Holdings, readerMoves
  <2>3. mpc' = "join" => ~running'
    BY <2>1, <2>2 DEF Inv, Cause
  <2>4. mpc' \notin Ending
    BY <2>2 DEF Bridging, Ending
  <2> QED
    BY <2>1, <2>3, <2>4 DEF Cause
<1> QED
  BY <1>1, <1>2 DEF Inv

LEMMA KernelKeeps == ASSUME Inv, kernelMoves PROVE Inv'
<1>1. Holdings'
  <2>1. mpc \in Bridging /\ mpc' \in Bridging
    BY DEF Inv, Holdings, kernelMoves, Bridging
  <2>2. vhci /\ vendorOpen /\ ports = "open" /\ address = "own"
    BY <2>1 DEF Inv, Holdings, Opened, Verified, Registered
  <2>3. UNCHANGED <<ports, vendorOpen, vhci, address>>
    BY DEF kernelMoves, held
  <2>4. vhci' /\ vendorOpen' /\ ports' = "open" /\ address' = "own"
    BY <2>2, <2>3
  <2>5. mpc' \in Registered /\ mpc' \notin Opening \cup {"start", "signals", "exit"}
    BY <2>1 DEF Registered, Bridging, Opening
  <2>6. ports' # "partial" /\ ports' \in {"closed", "partial", "open"}
    BY <2>4
  <2> QED
    BY <2>1, <2>4, <2>5, <2>6, Zenon DEF Holdings
<1>2. Cause'
  <2>1. /\ signals' \in Nat /\ (~running' => failed' \/ signals' > 0)
        /\ (pipe' => signals' > 0) /\ (~running => ~running')
    <3>1. signals' = signals
      BY DEF kernelMoves, held
    <3> QED
      BY <3>1, StopHasCause DEF Inv, kernelMoves
  <2>3. mpc' = "join" => ~running'
    BY DEF kernelMoves
  <2>4. mpc' \notin Ending
    BY DEF kernelMoves, Bridging, Ending
  <2> QED
    BY <2>1, <2>3, <2>4 DEF Cause
<1> QED
  BY <1>1, <1>2 DEF Inv

\* So does every step of the bring-up.
LEMMA BringUpKeeps ==
    ASSUME Inv, 
           \/ SetupSignals \/ read_bdaddr_file \/ InitVendorLibrary \/ open_vendor_channels
           \/ CloseAttempt \/ RetryDelay \/ CheckChannels \/ WriteAddress \/ ResetController
           \/ VerifyAddress \/ ReadBufferSizes \/ OpenVhci \/ StartReader
    PROVE  Inv'
<1>1. CASE SetupSignals
  <2>1. Holdings'
    BY <1>1 DEF Inv, Holdings, Opening, Opened, Verified, Registered, Bridging,
       SetupSignals, bringUp, giveUp, goOn, outside, life
  <2>2. Cause'
    BY <1>1 DEF Inv, Cause, Ending, SetupSignals, bringUp, giveUp, goOn, outside, life
  <2> QED
    BY <2>1, <2>2 DEF Inv
<1>2. CASE read_bdaddr_file
  <2>1. Holdings'
    BY <1>2 DEF Inv, Holdings, Opening, Opened, Verified, Registered, Bridging,
       read_bdaddr_file, bringUp, giveUp, goOn, outside, life, setup
  <2>2. Cause'
    BY <1>2 DEF Inv, Cause, Ending, read_bdaddr_file, bringUp, giveUp, goOn, outside, life,
       setup
  <2> QED
    BY <2>1, <2>2 DEF Inv
<1>3. CASE InitVendorLibrary
  <2>1. Holdings'
    BY <1>3 DEF Inv, Holdings, Opening, Opened, Verified, Registered, Bridging,
       InitVendorLibrary, bringUp, giveUp, goOn, outside, life
  <2>2. Cause'
    BY <1>3 DEF Inv, Cause, Ending, InitVendorLibrary, bringUp, giveUp, goOn, outside, life
  <2> QED
    BY <2>1, <2>2 DEF Inv
<1>4. CASE open_vendor_channels
  <2>1. Holdings'
    BY <1>4 DEF Inv, Holdings, Opening, Opened, Verified, Registered, Bridging,
       open_vendor_channels, bringUp, giveUp, goOn, outside, life
  <2>2. Cause'
    BY <1>4 DEF Inv, Cause, Ending, open_vendor_channels, bringUp, giveUp, goOn, outside, life
  <2> QED
    BY <2>1, <2>2 DEF Inv
<1>5. CASE CloseAttempt
  <2>1. Holdings'
    BY <1>5 DEF Inv, Holdings, Opening, Opened, Verified, Registered, Bridging,
       CloseAttempt, bringUp, giveUp, goOn, outside, life
  <2>2. Cause'
    BY <1>5 DEF Inv, Cause, Ending, CloseAttempt, bringUp, giveUp, goOn, outside, life
  <2> QED
    BY <2>1, <2>2 DEF Inv
<1>6. CASE RetryDelay
  <2>1. Holdings'
    BY <1>6 DEF Inv, Holdings, Opening, Opened, Verified, Registered, Bridging, RetryDelay,
       bringUp, giveUp, goOn, outside, life, quiet, consume_signal_request
  <2>2. Cause'
    <3>1. signals' = signals /\ mpc' # "join"
      BY <1>6 DEF RetryDelay, bringUp, giveUp, goOn, outside
    <3>2. mpc' \in Ending => ret' = 1
      BY <1>6 DEF RetryDelay, giveUp, goOn, Ending
    <3>3. lifeMoves
      BY <1>6 DEF RetryDelay, quiet, life, lifeMoves
    <3> QED
      BY <3>1, <3>2, <3>3, StopHasCause DEF Inv, Cause
  <2> QED
    BY <2>1, <2>2 DEF Inv
<1>7. CASE CheckChannels
  <2>1. Holdings'
    BY <1>7 DEF Inv, Holdings, Opening, Opened, Verified, Registered, Bridging,
       CheckChannels, bringUp, giveUp, goOn, outside, life, setup
  <2>2. Cause'
    BY <1>7 DEF Inv, Cause, Ending, CheckChannels, bringUp, giveUp, goOn, outside, life, setup
  <2> QED
    BY <2>1, <2>2 DEF Inv
<1>8. CASE WriteAddress
  <2>1. Holdings'
    BY <1>8 DEF Inv, Holdings, Opening, Opened, Verified, Registered, Bridging,
       WriteAddress, bringUp, giveUp, goOn, outside, controller_command, eintr,
       consume_signal_request, quiet, life
  <2>2. Cause'
    <3>1. signals' = signals /\ mpc' # "join"
      BY <1>8 DEF WriteAddress, bringUp, giveUp, goOn, outside, controller_command
    <3>2. mpc' \in Ending => ret' = 1
      BY <1>8 DEF WriteAddress, giveUp, goOn, Ending, controller_command
    <3>3. lifeMoves
      BY <1>8 DEF WriteAddress, quiet, life, lifeMoves, controller_command, eintr
    <3> QED
      BY <3>1, <3>2, <3>3, StopHasCause DEF Inv, Cause
  <2> QED
    BY <2>1, <2>2 DEF Inv
<1>9. CASE ResetController
  <2>1. Holdings'
    BY <1>9 DEF Inv, Holdings, Opening, Opened, Verified, Registered, Bridging,
       ResetController, bringUp, giveUp, goOn, outside, controller_command, eintr,
       consume_signal_request, quiet, life
  <2>2. Cause'
    <3>1. signals' = signals /\ mpc' # "join"
      BY <1>9 DEF ResetController, bringUp, giveUp, goOn, outside, controller_command
    <3>2. mpc' \in Ending => ret' = 1
      BY <1>9 DEF ResetController, giveUp, goOn, Ending, controller_command
    <3>3. lifeMoves
      BY <1>9 DEF ResetController, quiet, life, lifeMoves, controller_command, eintr
    <3> QED
      BY <3>1, <3>2, <3>3, StopHasCause DEF Inv, Cause
  <2> QED
    BY <2>1, <2>2 DEF Inv
<1>10. CASE VerifyAddress
  <2>1. Holdings'
    BY <1>10 DEF Inv, Holdings, Opening, Opened, Verified, Registered, Bridging,
       VerifyAddress, bringUp, giveUp, goOn, outside, controller_command, eintr,
       consume_signal_request, quiet, life
  <2>2. Cause'
    <3>1. signals' = signals /\ mpc' # "join"
      BY <1>10 DEF VerifyAddress, bringUp, giveUp, goOn, outside, controller_command
    <3>2. mpc' \in Ending => ret' = 1
      BY <1>10 DEF VerifyAddress, giveUp, goOn, Ending, controller_command
    <3>3. lifeMoves
      BY <1>10 DEF VerifyAddress, quiet, life, lifeMoves, controller_command, eintr
    <3> QED
      BY <3>1, <3>2, <3>3, StopHasCause DEF Inv, Cause
  <2> QED
    BY <2>1, <2>2 DEF Inv
<1>11. CASE ReadBufferSizes
  <2>1. Holdings'
    BY <1>11 DEF Inv, Holdings, Opening, Opened, Verified, Registered, Bridging,
       ReadBufferSizes, bringUp, giveUp, goOn, outside, controller_command, eintr,
       consume_signal_request, quiet, life
  <2>2. Cause'
    <3>1. signals' = signals /\ mpc' # "join"
      BY <1>11 DEF ReadBufferSizes, bringUp, giveUp, goOn, outside, controller_command
    <3>2. mpc' \in Ending => ret' = 1
      BY <1>11 DEF ReadBufferSizes, giveUp, goOn, Ending, controller_command
    <3>3. lifeMoves
      BY <1>11 DEF ReadBufferSizes, quiet, life, lifeMoves, controller_command, eintr
    <3> QED
      BY <3>1, <3>2, <3>3, StopHasCause DEF Inv, Cause
  <2> QED
    BY <2>1, <2>2 DEF Inv
<1>12. CASE OpenVhci
  <2>1. Holdings'
    BY <1>12 DEF Inv, Holdings, Opening, Opened, Verified, Registered, Bridging, OpenVhci,
       giveUp, goOn, outside, life, setup
  <2>2. Cause'
    BY <1>12 DEF Inv, Cause, Ending, OpenVhci, giveUp, goOn, outside, life, setup
  <2> QED
    BY <2>1, <2>2 DEF Inv
<1>13. CASE StartReader
  <2>1. Holdings'
    BY <1>13 DEF Inv, Holdings, Opening, Opened, Verified, Registered, Bridging,
       StartReader, giveUp, goOn, outside, life, setup
  <2>2. Cause'
    BY <1>13 DEF Inv, Cause, Ending, StartReader, giveUp, goOn, outside, life, setup
  <2> QED
    BY <2>1, <2>2 DEF Inv
<1> QED
  BY <1>1, <1>2, <1>3, <1>4, <1>5, <1>6, <1>7, <1>8, <1>9, <1>10, <1>11, <1>12, <1>13

\* So does every step of the teardown.
LEMMA TeardownKeeps ==
    ASSUME Inv, 
           \/ JoinReader \/ CloseVhci
           \/ cleanup_vendor_library \/ cleanup_signal_handling
    PROVE  Inv'
<1>1. CASE JoinReader
  <2>1. Holdings'
    BY <1>1 DEF Inv, Holdings, Opening, Opened, Verified, Registered, Bridging, JoinReader,
       life, setup, outside
  <2>2. Cause'
    BY <1>1 DEF Inv, Cause, Ending, JoinReader, life, setup, outside
  <2> QED
    BY <2>1, <2>2 DEF Inv
<1>2. CASE CloseVhci
  <2>1. Holdings'
    BY <1>2 DEF Inv, Holdings, Opening, Opened, Verified, Registered, Bridging, CloseVhci,
       life, setup, outside
  <2>2. Cause'
    BY <1>2 DEF Inv, Cause, Ending, CloseVhci, life, setup, outside
  <2> QED
    BY <2>1, <2>2 DEF Inv
<1>3. CASE cleanup_vendor_library
  <2>1. Holdings'
    BY <1>3 DEF Inv, Holdings, Opening, Opened, Verified, Registered, Bridging,
       cleanup_vendor_library, life, setup, outside
  <2>2. Cause'
    BY <1>3 DEF Inv, Cause, Ending, cleanup_vendor_library, life, setup, outside
  <2> QED
    BY <2>1, <2>2 DEF Inv
<1>4. CASE cleanup_signal_handling
  <2>1. Holdings'
    BY <1>4 DEF Inv, Holdings, Opening, Opened, Verified, Registered, Bridging,
       cleanup_signal_handling, life, setup, outside
  <2>2. Cause'
    BY <1>4 DEF Inv, Cause, Ending, cleanup_signal_handling, life, setup, outside
  <2> QED
    BY <2>1, <2>2 DEF Inv
<1> QED
  BY <1>1, <1>2, <1>3, <1>4

\* So do signals and whatever the controller and the kernel do.
LEMMA OutsideKeeps ==
    ASSUME Inv, 
           \/ Signal \/ ChipSend \/ ChipHangUp
           \/ KernelSend \/ KernelHangUp \/ Stall \/ Drain
    PROVE  Inv'
<1>1. CASE Signal
  <2>1. Holdings'
    BY <1>1 DEF Inv, Holdings, Opening, Opened, Verified, Registered, Bridging, Signal,
       process, setup
  <2>2. Cause'
    BY <1>1 DEF Inv, Cause, Ending, Signal, process, setup
  <2> QED
    BY <2>1, <2>2 DEF Inv
<1>2. CASE ChipSend
  <2>1. Holdings'
    BY <1>2 DEF Inv, Holdings, Opening, Opened, Verified, Registered, Bridging, ChipSend,
       process, setup
  <2>2. Cause'
    BY <1>2 DEF Inv, Cause, Ending, ChipSend, process, setup
  <2> QED
    BY <2>1, <2>2 DEF Inv
<1>3. CASE ChipHangUp
  <2>1. Holdings'
    BY <1>3 DEF Inv, Holdings, Opening, Opened, Verified, Registered, Bridging, ChipHangUp,
       process, setup
  <2>2. Cause'
    BY <1>3 DEF Inv, Cause, Ending, ChipHangUp, process, setup
  <2> QED
    BY <2>1, <2>2 DEF Inv
<1>4. CASE KernelSend
  <2>1. Holdings'
    BY <1>4 DEF Inv, Holdings, Opening, Opened, Verified, Registered, Bridging, KernelSend,
       process, setup
  <2>2. Cause'
    BY <1>4 DEF Inv, Cause, Ending, KernelSend, process, setup
  <2> QED
    BY <2>1, <2>2 DEF Inv
<1>5. CASE KernelHangUp
  <2>1. Holdings'
    BY <1>5 DEF Inv, Holdings, Opening, Opened, Verified, Registered, Bridging,
       KernelHangUp, process, setup
  <2>2. Cause'
    BY <1>5 DEF Inv, Cause, Ending, KernelHangUp, process, setup
  <2> QED
    BY <2>1, <2>2 DEF Inv
<1>6. CASE Stall
  <2>1. Holdings'
    BY <1>6 DEF Inv, Holdings, Opening, Opened, Verified, Registered, Bridging, Stall,
       process, setup
  <2>2. Cause'
    BY <1>6 DEF Inv, Cause, Ending, Stall, process, setup
  <2> QED
    BY <2>1, <2>2 DEF Inv
<1>7. CASE Drain
  <2>1. Holdings'
    BY <1>7 DEF Inv, Holdings, Opening, Opened, Verified, Registered, Bridging, Drain,
       process, setup
  <2>2. Cause'
    BY <1>7 DEF Inv, Cause, Ending, Drain, process, setup
  <2> QED
    BY <2>1, <2>2 DEF Inv
<1> QED
  BY <1>1, <1>2, <1>3, <1>4, <1>5, <1>6, <1>7

-----------------------------------------------------------------------------
(* The theorems.                                                           *)

\* The invariant holds when reset_shutdown_state has run and nothing is open yet.
LEMMA InitInv == Init => Inv
  BY DEF Init, Inv, Holdings, Cause, Opening, Opened, Verified, Registered, Bridging, Ending

\* Every step keeps it.
LEMMA NextInv == Inv /\ [Next]_vars => Inv'
<1> SUFFICES ASSUME Inv, [Next]_vars PROVE Inv'
  OBVIOUS
<1>1. CASE Reader \/ ReaderFault
  BY <1>1, ReaderMoves, ReaderKeeps DEF Reader
<1>2. CASE KernelPoll \/ KernelRead \/ KernelWrite \/ KernelWait \/ KernelFault
  BY <1>2, KernelMoves, KernelKeeps
<1>3. CASE Main
  BY <1>2, <1>3, BringUpKeeps, TeardownKeeps DEF Main
<1>4. CASE Outside
  BY <1>4, OutsideKeeps DEF Outside
<1>5. CASE UNCHANGED vars
  <2>1. UNCHANGED <<mpc, rpc, ports, vendorOpen, handlers, library, address, vhci>>
    BY <1>5 DEF vars, setup
  <2>2. UNCHANGED <<mpc, running, failed, pipe, ret, signals>>
    BY <1>5 DEF vars, life, outside
  <2>3. Holdings'
    BY <2>1 DEF Inv, Holdings
  <2>4. Cause'
    BY <2>2 DEF Inv, Cause
  <2> QED
    BY <2>3, <2>4 DEF Inv
<1> QED
  BY <1>1, <1>2, <1>3, <1>4, <1>5 DEF Next

\* Throughout the life of the bridge, what it holds and why it stops follow from where
\* its main thread is.
THEOREM BridgeInvariance == Spec => []Inv
  BY InitInv, NextInv, PTL DEF Spec

\* The reader never outlives its descriptors: pthread_join comes before close(vhci_fd) and
\* USERIAL_CLOSE on every path that starts it.
THEOREM ReaderSafe == Spec => []ReaderHasDescriptors
<1>1. Inv => ReaderHasDescriptors
  <2> SUFFICES ASSUME Inv, rpc \notin {"none", "done"} PROVE vhci /\ ports = "open"
    BY DEF ReaderHasDescriptors
  <2>1. mpc \in Bridging
    BY DEF Inv, Holdings
  <2> QED
    BY <2>1 DEF Inv, Holdings, Opened, Verified, Registered
<1> QED
  BY <1>1, BridgeInvariance, PTL

\* The adapter appears in the kernel only after the controller has answered with the
\* address of the board.
THEOREM AddressFirst == Spec => []AdapterHasAddress
<1>1. Inv => AdapterHasAddress
  BY DEF Inv, Holdings, Verified, AdapterHasAddress
<1> QED
  BY <1>1, BridgeInvariance, PTL

\* main returns 0 only after a signal, whichever thread saw what and in which order.
THEOREM ExitCode == Spec => []SuccessOnlyWhenAsked
<1>1. Inv => SuccessOnlyWhenAsked
  <2> SUFFICES ASSUME Inv, mpc = "exit", exitCode = 0 PROVE signals > 0
    BY DEF SuccessOnlyWhenAsked
  <2>1. ret # 1 /\ ~failed
    BY DEF exitCode
  <2>2. ~running
    BY <2>1 DEF Inv, Cause, Ending
  <2> QED
    BY <2>1, <2>2 DEF Inv, Cause
<1> QED
  BY <1>1, BridgeInvariance, PTL

\* Every way out of main leaves nothing open, cleanup after a partial open included.
THEOREM NothingLeaks == Spec => []Released
<1>1. Inv => Released
  <2> SUFFICES ASSUME Inv, mpc = "exit"
               PROVE  ~vhci /\ ports = "closed" /\ library = {} /\ ~handlers
                      /\ rpc \in {"none", "done"}
    BY DEF Released
  <2>1. mpc \notin Registered /\ mpc \notin Bridging /\ mpc # "close"
    BY DEF Registered, Bridging
  <2>2. ~vhci /\ library = {} /\ ~handlers /\ ~vendorOpen /\ rpc \in {"none", "done"}
    BY <2>1 DEF Inv, Holdings
  <2>3. ports = "closed"
    BY <2>1, <2>2 DEF Inv, Holdings
  <2> QED
    BY <2>2, <2>3
<1> QED
  BY <1>1, BridgeInvariance, PTL

\* The life cycle of the bridge as a whole: the four facts above are what BridgeSafe says.
THEOREM BridgeSafety == Spec => []BridgeSafe
<1>1. ReaderHasDescriptors /\ AdapterHasAddress /\ SuccessOnlyWhenAsked /\ Released => BridgeSafe
  BY DEF BridgeSafe
<1> QED
  BY <1>1, ReaderSafe, AddressFirst, ExitCode, NothingLeaks, PTL
=============================================================================
