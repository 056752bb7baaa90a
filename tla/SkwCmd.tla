------------------------------- MODULE SkwCmd -------------------------------
(***************************************************************************)
(* skwifi's command channel (skw_msg.c): one command at a time in          *)
(* skw->cmd, guarded by a semaphore.  Callers wait for the answer; the     *)
(* transmit path may instead try to send one and leave, with a timer that  *)
(* gives up.  The transmit worker, the receive thread, the timer, the      *)
(* firmware's asserts and their recovery all touch the same record.        *)
(***************************************************************************)
EXTENDS Integers, FiniteSets

CONSTANTS
    Callers,    \* threads that send and wait
    MaxCmds,    \* bound: commands of all senders together
    MaxFaults   \* bound: lost answers, signals, asserts and changes of mode

(* What a caller gets: an error below zero, 0 when its command was aborted (the code
   reports success), else the sequence number of the answer it took its status from. *)
EIO == -1
ERESTARTSYS == -2
ETIMEDOUT == -3

ASSUME CmdConstants == IsFiniteSet(Callers)

VARIABLES
    skw_flags,  \* the subset of {"ASSERT", "BLOCK_TX", "MP_MODE"} that is set
    sem,        \* skw->cmd.lock
    cmd,        \* seq, flags, callback and status of skw->cmd, and the seq in its message
    caller,     \* each caller's place, the flags it sends with, its seq and its result
    timer,      \* of try_send: "off", "armed", or "fired", off the list with its callback to come
    sent,       \* the commands the firmware has to answer
    acks,       \* the answers on the bus
    acking,     \* the answer skw_cmd_ack_handler has accepted, 0 for none
    trying,     \* skw_msg_try_send: "idle", "set" before its callback is, "built" before XMIT is
    sending,    \* the transmit worker has sent a command and has yet to look at NO_ACK
    assert_work,
    tryHeld,    \* a try_send holds the semaphore (ghost)
    abandoned,  \* some sender has left before its answer, on a signal or a timeout (ghost)
    misfired,   \* the callback of the command before, a try_send, was run for a new one (ghost)
    cmdFuel

cmdEnd == <<sent, acks, acking>>
cmdGhosts == <<tryHeld, abandoned, misfired>>
CmdVars ==
    <<skw_flags, sem, cmd, caller, timer, cmdEnd, trying, sending, assert_work, cmdGhosts, cmdFuel>>

Idle == [at |-> "idle", extra |-> {}, seq |-> 0, result |-> 0]

(* The driver has been probed: the commands of that are over before an assert can be heard of. *)
CmdInit ==
    /\ skw_flags = {} /\ sem = 1
    /\ cmd = [seq |-> 0, hdr |-> 0, flags |-> {"ACKED"}, callback |-> "xmit", status |-> 0]
    /\ caller = [c \in Callers |-> Idle]
    /\ timer = "off"
    /\ sent = {} /\ acks = {} /\ acking = 0
    /\ trying = "idle" /\ sending = FALSE
    /\ assert_work = FALSE /\ tryHeld = FALSE /\ abandoned = FALSE /\ misfired = FALSE
    /\ cmdFuel = [cmds |-> MaxCmds, faults |-> MaxFaults]

CmdFault == cmdFuel.faults > 0 /\ cmdFuel' = [cmdFuel EXCEPT !.faults = @ - 1]

(* skw_tx_allowed, with the flag a command may ignore. *)
skw_cmd_tx_allowed(extra) ==
    skw_flags \ (IF "IGNORE_BLOCK_TX" \in extra THEN {"BLOCK_TX"} ELSE {}) = {}

(* skw_set_cmd: the flags are the new command's, ACKED gone, and the callback is still that of the
   one before. *)
skw_set_cmd(extra) ==
    cmd' = [cmd EXCEPT !.seq = @ + 1, !.hdr = cmd.seq + 1, !.status = 0, !.flags = extra]

CallbackOfBefore == trying = "set" \/ \E c \in Callers : caller[c].at = "set"

(* cmd.callback: wake the caller, or drop the timer and release the semaphore. *)
Callback(c) ==
    IF c.callback = "xmit"
        THEN /\ cmd' = [c EXCEPT !.flags = @ \cup {"DONE"}]
             /\ UNCHANGED <<sem, timer, tryHeld, misfired>>
        ELSE /\ cmd' = c
             /\ sem' = sem + 1
             /\ timer' = IF timer = "armed" THEN "off" ELSE timer
             /\ tryHeld' = FALSE
             /\ misfired' = (misfired \/ CallbackOfBefore)

(* skw_abort_cmd: whoever sets ACKED first answers for the command. *)
skw_abort_cmd(c) ==
    IF sem = 0 /\ "ACKED" \notin c.flags
        THEN Callback([c EXCEPT !.flags = @ \cup {"ACKED"}])
        ELSE cmd' = c /\ UNCHANGED <<sem, timer, tryHeld, misfired>>

(***************************************************************************)
(* skw_msg_xmit_timeout.                                                   *)
(***************************************************************************)
(* The flags are looked at before the semaphore is taken. *)
skw_msg_xmit_timeout(c, extra) ==
    /\ caller[c].at = "idle" /\ cmdFuel.cmds > 0
    /\ cmdFuel' = [cmdFuel EXCEPT !.cmds = @ - 1]
    /\ caller' = [caller EXCEPT ![c] =
            IF skw_cmd_tx_allowed(extra) THEN [Idle EXCEPT !.at = "down", !.extra = extra]
                                         ELSE [Idle EXCEPT !.result = EIO]]
    /\ UNCHANGED <<skw_flags, sem, cmd, timer, cmdEnd, trying, sending, assert_work, cmdGhosts>>

(* skw_suspend blocks all traffic and sends with flags that let its command pass; it is
   done as soon as it is sent.  skw_resume lifts the block. *)
skw_suspend(c) ==
    /\ caller[c].at = "idle" /\ cmdFuel.cmds > 0
    /\ cmdFuel' = [cmdFuel EXCEPT !.cmds = @ - 1]
    /\ skw_flags' = skw_flags \cup {"BLOCK_TX"}
    /\ caller' = [caller EXCEPT ![c] =
            IF skw_flags \subseteq {"BLOCK_TX"}
                THEN [Idle EXCEPT !.at = "down", !.extra = {"NO_ACK", "IGNORE_BLOCK_TX"}]
                ELSE [Idle EXCEPT !.result = EIO]]
    /\ UNCHANGED <<sem, cmd, timer, cmdEnd, trying, sending, assert_work, cmdGhosts>>

skw_resume ==
    /\ "BLOCK_TX" \in skw_flags
    /\ \A c \in Callers : "NO_ACK" \notin caller[c].extra
    /\ skw_flags' = skw_flags \ {"BLOCK_TX"}
    /\ UNCHANGED <<sem, cmd, caller, timer, cmdEnd, trying, sending, assert_work, cmdGhosts, cmdFuel>>

skw_cmd_xmit_timeout(c) ==
    /\ caller[c].at = "down" /\ sem > 0
    /\ sem' = sem - 1
    /\ skw_set_cmd(caller[c].extra)
    /\ caller' = [caller EXCEPT ![c].at = "set", ![c].seq = cmd.seq + 1]
    /\ UNCHANGED <<skw_flags, timer, cmdEnd, trying, sending, assert_work, cmdGhosts, cmdFuel>>

(* The callback and XMIT, which hands the command to the transmit worker. *)
CallerHandsOver(c) ==
    /\ caller[c].at = "set"
    /\ cmd' = [cmd EXCEPT !.callback = "xmit", !.flags = @ \cup {"XMIT"}]
    /\ caller' = [caller EXCEPT ![c].at = "wait"]
    /\ UNCHANGED <<skw_flags, sem, timer, cmdEnd, trying, sending, assert_work, cmdGhosts, cmdFuel>>

(* The waits end with DONE, with a signal, or with the second timeout; only the timeout
   shuts a late answer out and asks for the firmware's assert. *)
CallerWakes(c) ==
    /\ caller[c].at = "wait"
    /\ \/ /\ "DONE" \in cmd.flags
          /\ caller' = [caller EXCEPT ![c].at = "up",
                            ![c].result = cmd.status]
          /\ UNCHANGED <<skw_flags, cmd, abandoned, cmdFuel>>
       \/ /\ "DONE" \notin cmd.flags
          /\ caller' = [caller EXCEPT ![c].at = "up", ![c].result = ERESTARTSYS]
          /\ abandoned' = TRUE /\ CmdFault
          /\ UNCHANGED <<skw_flags, cmd>>
       \/ /\ "DONE" \notin cmd.flags
          /\ caller' = [caller EXCEPT ![c].at = "up", ![c].result = ETIMEDOUT]
          /\ cmd' = [cmd EXCEPT !.flags = @ \cup {"ACKED"}]
          /\ skw_flags' = skw_flags \cup {"ASSERT"}
          /\ abandoned' = TRUE
          /\ UNCHANGED cmdFuel
    /\ UNCHANGED <<sem, timer, cmdEnd, trying, sending, assert_work, tryHeld, misfired>>

CallerReturns(c) ==
    /\ caller[c].at = "up"
    /\ sem' = sem + 1
    /\ caller' = [caller EXCEPT ![c] = Idle]
    /\ skw_flags' = IF "NO_ACK" \in caller[c].extra /\ caller[c].result # 0
                        THEN skw_flags \ {"BLOCK_TX"} ELSE skw_flags
    /\ UNCHANGED <<cmd, timer, cmdEnd, trying, sending, assert_work, cmdGhosts, cmdFuel>>

(***************************************************************************)
(* skw_msg_try_send, its timer (CmdTimerWork) and the assert work.       *)
(***************************************************************************)
skw_msg_try_send ==
    /\ cmdFuel.cmds > 0 /\ sem > 0 /\ timer = "off" /\ trying = "idle"
    /\ cmdFuel' = [cmdFuel EXCEPT !.cmds = @ - 1]
    /\ skw_cmd_tx_allowed({})
    /\ sem' = sem - 1
    /\ skw_set_cmd({})
    /\ trying' = "set" /\ tryHeld' = TRUE
    /\ UNCHANGED <<skw_flags, caller, timer, cmdEnd, sending, assert_work, abandoned, misfired>>

(* The timer and the callback; XMIT only then, though an abort may have released the command by now. *)
TryArms ==
    /\ trying = "set"
    /\ trying' = "built" /\ timer' = "armed"
    /\ cmd' = [cmd EXCEPT !.callback = "try"]
    /\ UNCHANGED <<skw_flags, sem, caller, cmdEnd, sending, assert_work, cmdGhosts, cmdFuel>>

TryHandsOver ==
    /\ trying = "built"
    /\ trying' = "idle"
    /\ cmd' = [cmd EXCEPT !.flags = @ \cup {"XMIT"}]
    /\ UNCHANGED <<skw_flags, sem, caller, timer, cmdEnd, sending, assert_work, cmdGhosts, cmdFuel>>

(* The timer leaves the list under the lock, and its callback runs without it. *)
CmdTimerWork ==
    /\ timer = "armed"
    /\ timer' = "fired" /\ abandoned' = TRUE
    /\ UNCHANGED <<skw_flags, sem, cmd, caller, cmdEnd, trying, sending, assert_work, tryHeld, misfired,
                   cmdFuel>>

(* Fault: the timeout does not release the semaphore. *)
skw_cmd_timeout_fn_locked ==
    /\ timer = "fired"
    /\ timer' = "off"
    /\ skw_flags' = skw_flags \cup {"BLOCK_TX"}
    /\ assert_work' = TRUE
    /\ UNCHANGED <<sem, cmd, caller, cmdEnd, trying, sending, cmdGhosts, cmdFuel>>

skw_cmd_timeout_fn ==
    /\ timer = "fired"
    /\ timer' = "off"
    /\ skw_flags' = skw_flags \cup {"BLOCK_TX"}
    /\ sem' = sem + 1 /\ tryHeld' = FALSE
    /\ assert_work' = TRUE
    /\ UNCHANGED <<cmd, caller, cmdEnd, trying, sending, abandoned, misfired, cmdFuel>>

AssertWork ==
    /\ assert_work
    /\ assert_work' = FALSE
    /\ skw_flags' = skw_flags \cup {"ASSERT"}
    /\ UNCHANGED <<sem, cmd, caller, timer, cmdEnd, trying, sending, cmdGhosts, cmdFuel>>

(***************************************************************************)
(* The transmit worker and the receive thread.                             *)
(***************************************************************************)
skw_bus_cmd_xmit ==
    /\ "XMIT" \in cmd.flags /\ ~sending
    /\ sending' = TRUE
    /\ LET c == [cmd EXCEPT !.flags = @ \ {"XMIT"}]
       IN IF ~skw_cmd_tx_allowed(c.flags)
            THEN skw_abort_cmd(c) /\ UNCHANGED <<sent, cmdFuel>>
            ELSE /\ cmd' = c /\ UNCHANGED <<sem, timer, tryHeld, misfired>>
                 /\ \/ /\ sent' = IF "NO_ACK" \in c.flags THEN sent ELSE sent \cup {c.hdr}
                       /\ UNCHANGED cmdFuel
                    \/ \* the bus refuses it: nobody looks, the wait times out
                       CmdFault /\ UNCHANGED sent
    /\ UNCHANGED <<skw_flags, caller, acks, acking, trying, assert_work, abandoned>>

(* The worker's next step: a command that is not answered is done, also one that was aborted or has
   come into the record since. *)
NoAckDone ==
    /\ sending /\ sending' = FALSE
    /\ IF "NO_ACK" \in cmd.flags
            THEN Callback([cmd EXCEPT !.flags = @ \cup {"DONE"}])
            ELSE UNCHANGED <<cmd, sem, timer, tryHeld, misfired>>
    /\ UNCHANGED <<skw_flags, caller, cmdEnd, trying, assert_work, abandoned, cmdFuel>>

(* The firmware (external): answers in any order, late or, by never stepping, never. *)
FirmwareAnswers(s) ==
    /\ s \in sent
    /\ sent' = sent \ {s} /\ acks' = acks \cup {s}
    /\ UNCHANGED <<skw_flags, sem, cmd, caller, timer, acking, trying, sending, assert_work, cmdGhosts,
                   cmdFuel>>

(* Fault: an answer is taken whatever command it belongs to. *)
AckOfAnySeq(s) == {"ACKED", "NO_ACK"} \cap cmd.flags = {}

(* The sequence number and the id must be the command's: an id sent with NO_ACK is never
   answered. *)
AckOf(s) == s = cmd.seq /\ {"ACKED", "NO_ACK"} \cap cmd.flags = {}

(* skw_cmd_ack_handler: the test that also sets ACKED ... *)
AckArrives(s) ==
    /\ acking = 0 /\ s \in acks
    /\ acks' = acks \ {s}
    /\ IF AckOf(s)
        THEN acking' = s /\ cmd' = [cmd EXCEPT !.flags = @ \cup {"ACKED"}]
        ELSE UNCHANGED <<acking, cmd>>
    /\ UNCHANGED <<skw_flags, sem, caller, timer, sent, trying, sending, assert_work, cmdGhosts, cmdFuel>>

(* ... and the status, the copy of the answer and the callback. *)
skw_cmd_ack_handler ==
    /\ acking # 0
    /\ Callback([cmd EXCEPT !.status = acking])
    /\ acking' = 0
    /\ UNCHANGED <<skw_flags, caller, sent, acks, trying, sending, assert_work, abandoned, cmdFuel>>

(***************************************************************************)
(* What happens to the firmware.                                           *)
(***************************************************************************)
(* skw_bsp_notifier, on an assert of the firmware's own or of the driver's asking. *)
skw_bsp_notifier ==
    /\ CmdFault
    /\ skw_flags' = skw_flags \cup {"ASSERT"}
    /\ skw_abort_cmd(cmd)
    /\ UNCHANGED <<caller, cmdEnd, trying, sending, assert_work, abandoned>>

skw_event_mp_mode_handler ==
    /\ \/ /\ "MP_MODE" \notin skw_flags /\ CmdFault
          /\ skw_flags' = skw_flags \cup {"MP_MODE"}
          /\ skw_abort_cmd(cmd)
       \/ /\ "MP_MODE" \in skw_flags
          /\ skw_flags' = skw_flags \ {"MP_MODE"}
          /\ UNCHANGED <<cmd, sem, timer, tryHeld, misfired, cmdFuel>>
    /\ UNCHANGED <<caller, cmdEnd, trying, sending, assert_work, abandoned>>

(* The new firmware knows nothing of the old one's commands: skw_recovery_prepare starts
   the sequence over, and the flags are cleared before the first new command. *)
skw_recovery_work ==
    /\ "ASSERT" \in skw_flags
    /\ skw_flags' = skw_flags \ {"ASSERT", "BLOCK_TX"}
    /\ cmd' = [cmd EXCEPT !.seq = 0]
    /\ sent' = {} /\ acks' = {}
    /\ UNCHANGED <<sem, caller, timer, acking, trying, sending, assert_work, cmdGhosts, cmdFuel>>

(***************************************************************************)
(* The specification.                                                      *)
(***************************************************************************)
CmdCaller(c) ==
    skw_cmd_xmit_timeout(c) \/ CallerHandsOver(c) \/ CallerWakes(c) \/ CallerReturns(c)

CmdNext ==
    \/ \E c \in Callers : skw_msg_xmit_timeout(c, {}) \/ skw_suspend(c) \/ CmdCaller(c)
    \/ skw_resume \/ skw_msg_try_send \/ TryArms \/ TryHandsOver
    \/ CmdTimerWork \/ skw_cmd_timeout_fn \/ AssertWork
    \/ skw_bus_cmd_xmit \/ NoAckDone \/ skw_cmd_ack_handler
    \/ \E s \in sent : FirmwareAnswers(s)
    \/ \E s \in acks : AckArrives(s)
    \/ skw_bsp_notifier \/ skw_event_mp_mode_handler \/ skw_recovery_work

(* The threads, the worker and the timers run; nothing is assumed of the firmware. *)
CmdFairness ==
    /\ \A c \in Callers : WF_CmdVars(skw_cmd_xmit_timeout(c))
                          /\ WF_CmdVars((CallerHandsOver(c) \/ CallerWakes(c) \/ CallerReturns(c))
                                            /\ cmdFuel' = cmdFuel)
    /\ WF_CmdVars(TryArms \/ TryHandsOver)
    /\ WF_CmdVars(CmdTimerWork \/ skw_cmd_timeout_fn)
    /\ WF_CmdVars(skw_bus_cmd_xmit /\ cmdFuel' = cmdFuel)
    /\ WF_CmdVars(NoAckDone)
    /\ WF_CmdVars(skw_cmd_ack_handler)

CmdSpec == CmdInit /\ [][CmdNext]_CmdVars /\ CmdFairness

(***************************************************************************)
(* Properties.                                                             *)
(***************************************************************************)
(* Nothing in the code prevents two ways of losing count: after a timeout of try_send an answer that still
   comes releases the semaphore again, and an abort between the new command's flags and its callback
   releases it for a try_send that has ended. *)
CmdCounted == ~abandoned /\ ~misfired

(* One command at a time: the semaphore and its holders add up to one, whichever of the answer, the abort
   and the end of the wait comes first, also when they strike while the next command is set up. *)
CmdExclusive ==
    CmdCounted =>
        Cardinality({c \in Callers : caller[c].at \in {"set", "wait", "up"}})
            + (IF tryHeld THEN 1 ELSE 0) + sem = 1

(* A caller that returns a status returns the one of its own command, never the late
   answer of a command that was aborted before it. *)
CmdOwnAnswer ==
    CmdCounted => \A c \in Callers :
        caller[c].at = "up" => caller[c].result \in {0, caller[c].seq}

(* No caller waits for ever, whatever the firmware answers, drops or asserts. *)
CmdCallersReturn == \A c \in Callers : []<>(caller[c].at = "idle")

(* One command is under way at a time, and its sender gets its own answer. *)
CmdSafe == CmdExclusive /\ CmdOwnAnswer
=============================================================================
