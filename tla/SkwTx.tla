-------------------------------- MODULE SkwTx --------------------------------
(***************************************************************************)
(* skwifi's transmit path: the stack's calls of skw_ndo_xmit (skw_core.c)  *)
(* put frames on an interface's queues; one delayed work, skw_tx_worker    *)
(* (skw_tx.c), moves them to its own cache and hands them to the bus as    *)
(* far as the firmware's credits go.  Two access categories, of which the  *)
(* second also takes the TCP acknowledgements, on one interface and mac.   *)
(***************************************************************************)
EXTENDS Integers, Sequences, FiniteSets

CONSTANTS
    AckKinds,   \* <<stream, plain>> of the acknowledgements the stack sends
    HIGH, LOW,  \* SKW_TXQ_HIGH_THRESHOLD and SKW_TXQ_LOW_THRESHOLD
    Factor,     \* wmm.factor of the second category; the access point chooses it
    PktLimit,   \* frames of one transfer to the bus
    Buffers,    \* frames the firmware can hold
    TxWait,     \* tx_wait_time, the rounds the worker spins without credit
    TxFrames,   \* bound: frames of the stack
    TxFaults    \* bound: bus errors, blocks and changes of the link

ACs == {1, 2}
BE == 2
Frame == [id : 1..TxFrames, stream : Nat, plain : BOOLEAN]

ASSUME TxConstants == {HIGH, LOW, PktLimit, Buffers, TxFrames} \subseteq Nat \ {0}

VARIABLES
    txq,        \* filled by the stack: per category, and ACK for the acknowledgements
    tx_cache,   \* the worker's own queues
    stopped,    \* the categories whose netdev queue is stopped
    xmit,       \* the place of the stack's call, one at a time, and its category and queue
    work,       \* the delayed work: idle, on its timer, or queued
    worker,     \* the place of the running worker, its category, spins and pending_qlen
    fw_credit, inFw,
    link,       \* "up", "deauth" (the interface's flag), "deauthed" (the peer's), "none"
    txBlocked,  \* ~skw_tx_allowed
    txFuel,
    owed        \* history: the categories stopped since some frame was out and no fault was to come

txQueues == <<txq, tx_cache>>
txEnv == <<link, txBlocked>>
TxState == <<txQueues, stopped, xmit, work, worker, fw_credit, inFw, txEnv, txFuel>>
TxVars == <<TxState, owed>>

ACK == 3
Returned == [at |-> "idle", ac |-> 0, q |-> 0, stop |-> FALSE]
Off == [at |-> "off", ac |-> 0, times |-> 0, pending |-> 0]

TxInit ==
    /\ txq = [q \in ACs \cup {ACK} |-> <<>>] /\ tx_cache = [q \in ACs |-> <<>>]
    /\ stopped = {} /\ owed = {} /\ xmit = Returned
    /\ work = "queued" /\ worker = Off
    /\ fw_credit = Buffers /\ inFw = 0
    /\ link = "up" /\ txBlocked = FALSE
    /\ txFuel = [frames |-> TxFrames, faults |-> TxFaults]

TxFault == txFuel.faults > 0 /\ txFuel' = [txFuel EXCEPT !.faults = @ - 1]

(* skw_wakeup_tx: mod_delayed_work puts the work on the queue, whatever its timer. *)
skw_wakeup_tx == work' = "queued"

(***************************************************************************)
(* skw_ndo_xmit.                                                           *)
(***************************************************************************)
(* A frame for which there is no peer is freed, the others join their queue. *)
XmitQueues(ac) ==
    /\ txFuel.frames > 0 /\ xmit.at = "idle" /\ ac \notin stopped
    /\ txFuel' = [txFuel EXCEPT !.frames = @ - 1]
    /\ IF link = "none" THEN UNCHANGED <<txq, xmit>>
       ELSE \E k \in {<<0, TRUE>>} \cup (IF ac = BE THEN AckKinds ELSE {}) :
            LET f == [id |-> TxFrames - txFuel.frames + 1, stream |-> k[1], plain |-> k[2]]
                q == IF f.stream = 0 THEN ac ELSE ACK
            IN /\ txq' = [txq EXCEPT ![q] = Append(@, f)]
               /\ xmit' = [at |-> "wake", ac |-> ac, q |-> q, stop |-> FALSE]
    /\ UNCHANGED <<tx_cache, stopped, work, worker, fw_credit, inFw, txEnv>>

(* The lengths that decide whether the queue is stopped are read well before it is.  An
   acknowledgement measures its own queue, which has no netdev queue among the four. *)
Measured ==
    [xmit EXCEPT !.at = "stop",
        !.stop = xmit.q = xmit.ac /\ Len(txq[xmit.ac]) + Len(tx_cache[xmit.ac]) >= HIGH]

(* Below the packet limit an UDP frame only starts the timer, if it is not running. *)
XmitWakes ==
    /\ xmit.at = "wake"
    /\ \/ skw_wakeup_tx
       \/ Len(txq[xmit.q]) < PktLimit /\ work' = "timer"
    /\ xmit' = Measured
    /\ UNCHANGED <<txQueues, stopped, worker, fw_credit, inFw, txEnv, txFuel>>

XmitStops ==
    /\ xmit.at = "stop"
    /\ xmit' = Returned
    /\ stopped' = stopped \cup (IF xmit.stop THEN {xmit.ac} ELSE {})
    /\ UNCHANGED <<txQueues, work, worker, fw_credit, inFw, txEnv, txFuel>>

(***************************************************************************)
(* skw_merge_pure_ack.                                                     *)
(***************************************************************************)
Superseded(skb, tmp) == tmp.stream = skb.stream /\ tmp.plain

(* The walk of the queue before skb; its end is looked up anew after every frame. *)
MergeScan[skb \in Frame, i \in Nat, ackq \in Seq(Frame), out \in Seq(Frame)] ==
    IF i >= Len(ackq) THEN <<ackq, out>>
    ELSE LET tmp == Head(ackq) IN
         IF tmp.stream # skb.stream THEN MergeScan[skb, i + 1, Append(Tail(ackq), tmp), out]
         ELSE IF Superseded(skb, tmp) THEN MergeScan[skb, i + 1, Tail(ackq), out]
         ELSE MergeScan[skb, i + 1, Tail(ackq), Append(out, tmp)]

(* Fault: the merging starts from the oldest acknowledgement. *)
skw_merge_pure_ack_head[ackq \in Seq(Frame), out \in Seq(Frame)] ==
    IF ackq = <<>> THEN out
    ELSE LET walked == MergeScan[Head(ackq), 0, Tail(ackq), out]
         IN skw_merge_pure_ack_head[walked[1], Append(walked[2], Head(ackq))]

(* From the newest acknowledgement: those of its stream that it covers are freed. *)
skw_merge_pure_ack[ackq \in Seq(Frame), out \in Seq(Frame)] ==
    IF ackq = <<>> THEN out
    ELSE LET skb == ackq[Len(ackq)]
             walked == MergeScan[skb, 0, SubSeq(ackq, 1, Len(ackq) - 1), out]
         IN skw_merge_pure_ack[walked[1], Append(walked[2], skb)]

(* Fault: see skw_merge_pure_ack_head. *)
Merged_oldest(ackq, cache) == skw_merge_pure_ack_head[ackq, cache]

Merged(ackq, cache) == skw_merge_pure_ack[ackq, cache]
Appended(cache, queued) == cache \o queued

(***************************************************************************)
(* skw_tx_worker.                                                          *)
(***************************************************************************)
Ids(s) == {s[i].id : i \in 1..Len(s)}

TimerExpires ==
    /\ work = "timer" /\ skw_wakeup_tx
    /\ UNCHANGED <<txQueues, stopped, xmit, worker, fw_credit, inFw, txEnv, txFuel>>

WorkerStarts ==
    /\ work = "queued" /\ worker.at = "off"
    /\ work' = "idle" /\ worker' = [Off EXCEPT !.at = "top"]
    /\ UNCHANGED <<txQueues, stopped, xmit, fw_credit, inFw, txEnv, txFuel>>

(* Without permission the worker returns, without credit it spins a while and returns. *)
WorkerTop ==
    /\ worker.at = "top"
    /\ worker' = IF txBlocked THEN Off
                 ELSE IF fw_credit # 0
                    THEN [worker EXCEPT !.at = "collect", !.ac = 1, !.pending = 0]
                 ELSE IF worker.times > TxWait THEN Off
                 ELSE [worker EXCEPT !.times = @ + 1]
    /\ UNCHANGED <<txQueues, stopped, xmit, work, fw_credit, inFw, txEnv, txFuel>>

NextAc(w) == IF w.ac = BE THEN [w EXCEPT !.at = "end"] ELSE [w EXCEPT !.at = "collect", !.ac = BE]

(* The queues of one category join its cache; a short cache lets the stack go on. *)
WorkerCollects ==
    /\ worker.at = "collect"
    /\ LET ac == worker.ac
           acked == IF ac = BE THEN Merged(txq[ACK], tx_cache[ac]) ELSE tx_cache[ac]
           all == IF link = "deauth" THEN <<>> ELSE Appended(acked, txq[ac])
       IN /\ txq' = [txq EXCEPT ![ac] = <<>>, ![ACK] = IF ac = BE THEN <<>> ELSE @]
          /\ tx_cache' = [tx_cache EXCEPT ![ac] = all]
          /\ stopped' = IF Len(all) < LOW THEN stopped \ {ac} ELSE stopped
          /\ worker' = IF all = <<>> THEN NextAc(worker)
                       ELSE [worker EXCEPT !.at = "send", !.pending = @ + Len(all)]
    /\ UNCHANGED <<xmit, work, fw_credit, inFw, txEnv, txFuel>>

LesserOf(a, b) == IF a < b THEN a ELSE b
(* wmm.factor and the base; the first category's base is a constant above PktLimit. *)
Quota(ac, credit, qlen) ==
    IF ac = BE THEN LET base == Factor + LesserOf(credit, qlen) IN IF base < 0 THEN 0 ELSE base
    ELSE PktLimit

Sendable(ac, cache) ==
    LET n == LesserOf(LesserOf(fw_credit, PktLimit), Len(cache))
    IN LesserOf(n, Quota(ac, fw_credit, Len(cache)))

(* skw_sync_adma_tx: a refused transfer costs no credit, and its frames are freed too. *)
BusXmit(sending) ==
    \/ /\ fw_credit' = fw_credit - Len(sending) /\ inFw' = inFw + Len(sending)
       /\ UNCHANGED txFuel
    \/ sending # <<>> /\ TxFault /\ UNCHANGED <<fw_credit, inFw>>

(* The frames of a peer that was told to leave are freed, not counted as sent. *)
WorkerSends ==
    /\ worker.at = "send"
    /\ LET ac == worker.ac
           cache == IF link = "deauthed" THEN <<>> ELSE tx_cache[ac]
           n == Sendable(ac, cache)
       IN IF fw_credit = 0
            THEN /\ worker' = [worker EXCEPT !.at = "end"]
                 /\ UNCHANGED <<tx_cache, fw_credit, inFw, txFuel>>
            ELSE /\ tx_cache' = [tx_cache EXCEPT ![ac] = SubSeq(cache, n + 1, Len(cache))]
                 /\ worker' = LET w == [worker EXCEPT !.pending = @ - n]
                              IN IF n = fw_credit THEN [w EXCEPT !.at = "end"] ELSE NextAc(w)
                 /\ BusXmit(SubSeq(cache, 1, n))
    /\ UNCHANGED <<txq, stopped, xmit, work, txEnv>>

(* Nothing pending: the queues are looked at once more before the worker returns. *)
WorkerEnds ==
    /\ worker.at = "end"
    /\ LET idle == /\ worker.pending = 0
                   /\ \A ac \in ACs : tx_cache[ac] = <<>> /\ txq[ac] = <<>>
       IN IF idle
            THEN /\ worker' = Off
                 \* skw_start_dev_queue looks at the first queue only
                 /\ stopped' = IF 1 \in stopped THEN {} ELSE stopped
            ELSE worker' = [worker EXCEPT !.at = "top"] /\ UNCHANGED stopped
    /\ UNCHANGED <<txQueues, xmit, work, fw_credit, inFw, txEnv, txFuel>>

(***************************************************************************)
(* The firmware, the link, and skw->flags.                                 *)
(***************************************************************************)

skw_add_credit ==
    /\ inFw > 0
    /\ inFw' = inFw - 1 /\ fw_credit' = fw_credit + 1
    /\ skw_wakeup_tx
    /\ UNCHANGED <<txQueues, stopped, xmit, worker, txEnv, txFuel>>

(* The connection's life (external to the path) and the flags that forbid transmitting;
   what lifts them sends a command, which wakes the worker. *)
LinkChanges ==
    /\ TxFault
    /\ \/ link' \in {"deauth", "deauthed", "none"} \ {link} /\ UNCHANGED <<txBlocked, work>>
       \/ link # "up" /\ link' = "up" /\ UNCHANGED <<txBlocked, work>>
       \/ ~txBlocked /\ txBlocked' = TRUE /\ UNCHANGED <<link, work>>
    /\ UNCHANGED <<txQueues, stopped, xmit, worker, fw_credit, inFw>>

Unblocked ==
    /\ txBlocked /\ txBlocked' = FALSE /\ skw_wakeup_tx
    /\ UNCHANGED <<txQueues, stopped, xmit, worker, fw_credit, inFw, link, txFuel>>

(***************************************************************************)
(* The specification.                                                      *)
(***************************************************************************)
TxWorker == WorkerStarts \/ WorkerTop \/ WorkerCollects \/ WorkerSends \/ WorkerEnds
XmitEnds == XmitWakes \/ XmitStops

TxNext ==
    /\ \/ \E ac \in ACs : XmitQueues(ac)
       \/ XmitEnds \/ TimerExpires \/ TxWorker \/ skw_add_credit \/ LinkChanges \/ Unblocked
    /\ owed' = {ac \in stopped' : ac \in owed \/ (inFw' > 0 /\ txFuel'.faults = 0)}

(* The stack's calls end, the work runs, the firmware gives its buffers back, a block ends;
   the link, and whether a frame comes, are left to chance. *)
TxFairness ==
    /\ WF_TxState(XmitEnds)
    /\ WF_TxState(TxWorker) /\ WF_TxState(TimerExpires) /\ WF_TxState(skw_add_credit)
    /\ WF_TxState(Unblocked)

TxSpec == TxInit /\ [][TxNext]_TxVars /\ TxFairness

(***************************************************************************)
(* Properties.                                                             *)
(***************************************************************************)
(* The firmware never gets a frame it has no buffer for, over errors and late credits. *)
TxCredits == fw_credit >= 0 /\ inFw <= Buffers

(* A category's frames leave in the order they came in: what the worker has cached is
   older than what the stack has queued since. *)
TxInOrder ==
    \A ac \in ACs :
        LET data == SelectSeq(tx_cache[ac] \o txq[ac], LAMBDA f : f.stream = 0)
        IN \A i, j \in 1..Len(data) : i < j => data[i].id < data[j].id

(* Merging frees an acknowledgement only for a newer one of its stream that it keeps, and
   never one that carries options, although its walk may end before the queue does. *)
TxAckFreedForNewer ==
    [][WorkerCollects /\ link # "deauth" =>
        LET kept == Ids(tx_cache'[BE])
        IN \A i \in 1..Len(txq[ACK]) : worker.ac = BE /\ txq[ACK][i].id \notin kept =>
                /\ txq[ACK][i].plain
                /\ \E j \in (i + 1)..Len(txq[ACK]) :
                     txq[ACK][j].stream = txq[ACK][i].stream /\ txq[ACK][j].id \in kept]_TxState

(* No wake-up is lost: what is queued leaves the queues, over errors of the bus, blocks and
   deauthentication.  The acknowledgements, which the worker's last look leaves out, leave
   them when nothing fails.  (A transfer of the first category that uses up the credit and
   fails ends the round before their turn, and no credit will come back for it.) *)
TxDrains ==
    /\ \A ac \in ACs : []<>(txq[ac] = <<>> /\ tx_cache[ac] = <<>>)
    /\ []<>(txq[ACK] = <<>> \/ txFuel.faults < TxFaults)

(* A stopped queue is started again by the credits of the frames that went out.  (One that
   is stopped after the worker has dropped all its frames waits for the next wake-up, which
   nothing promises: the length it was stopped for is stale.) *)
TxQueueRestarts == \A ac \in ACs : []<>(ac \notin owed)

(* The firmware's buffers are respected, frames keep their order, and no acknowledgement is
   freed but for a newer one. *)
TxSafe == [](TxCredits /\ TxInOrder) /\ TxAckFreedForNewer
=============================================================================
