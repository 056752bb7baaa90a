-------------------------------- MODULE SkwRx --------------------------------
(***************************************************************************)
(* skwifi's receive reordering (skw_rx.c): one block-ack session of a peer *)
(* and traffic identifier, whose window buffers what comes early.  The     *)
(* receive thread, a timer, the events that open, move and close a session *)
(* and the deferred free of a closed one share it.                         *)
(***************************************************************************)
EXTENDS Integers, Sequences, FiniteSets

CONSTANTS
    SnMod,      \* the modulus of sequence numbers (4096)
    WinSize,    \* frames in the window (twice the announced, at least 128)
    Ssn,        \* the first sequence number of the sender
    Msdus,      \* bound: MSDUs of the sender, number n having n as its packet number
    AMsdus,     \* those of them sent as two subframes
    RxFrames,   \* bound: frames received
    RxSessions  \* bound: block-ack sessions and block-ack requests

(* ieee80211_sn_less.  A slot is the sequence number modulo the window, and the walk over
   the window does not wrap at SnMod: the window's size has to divide it. *)
ASSUME RxConstants == SnMod % WinSize = 0 /\ 2 * WinSize <= SnMod

VARIABLES
    tid_rx,     \* the session: win_start, reorder_buf, stored_num and ref_cnt
    freed,      \* closed sessions whose RCU callback has not run
    ref_cnt,    \* reorder->ref_cnt
    rxTimer,    \* reorder->timer and reorder->expired
    arming,     \* what the receive thread is about to start the timer with
    todo,       \* reorder->todo, and how often it is linked on rx_todo_list
    key,        \* a pairwise key is installed
    rxSeen,     \* last packet number and set of subframes delivered, and what went wrong (ghost)
    rxFuel

RxVars == <<tid_rx, freed, ref_cnt, rxTimer, arming, todo, key, rxSeen, rxFuel>>

NoSession == [on |-> FALSE, start |-> 0, buf |-> [i \in 0..(WinSize - 1) |-> <<>>],
              stored |-> 0, ref |-> 0]
NoTimer == [on |-> FALSE, sn |-> 0, ref |-> 0]

RxInit ==
    /\ tid_rx = NoSession /\ freed = {} /\ ref_cnt = 0
    /\ rxTimer = NoTimer /\ arming = NoTimer
    /\ todo = [actived |-> FALSE, seq |-> 0, links |-> 0]
    /\ key \in BOOLEAN
    /\ rxSeen = [last |-> -1, got |-> {}, back |-> FALSE, twice |-> FALSE,
                 jumped |-> FALSE, stale |-> FALSE, taint |-> FALSE]
    /\ rxFuel = [frames |-> RxFrames, sessions |-> RxSessions]

SnLess(a, b) == (a - b) % SnMod > SnMod \div 2
SnInc(a) == (a + 1) % SnMod
SnOf(n) == (Ssn + n) % SnMod
SlotOf(sn) == sn % WinSize

(* One step of the receive thread works on st: the session t, the timer, what to arm,
   the todo, the frames to hand up and those to hand up beside the order and its checks. *)
Start(t) == [t |-> t, timer |-> rxTimer, arm |-> NoTimer, todo |-> todo, out |-> <<>>, aside |-> {}, taint |-> FALSE]

(***************************************************************************)
(* The reorder buffer.                                                     *)
(***************************************************************************)
(* is_skw_release_ready: all subframes of an A-MSDU are there. *)
is_skw_release_ready(list) ==
    list[1].sub = 0 \/ \E k \in 1..Len(list) : list[k].last /\ Len(list) = list[k].sub

Tainted(list) == \E k \in 1..Len(list) : list[k].taint

TodoOn(td, sn) ==
    IF td.actived THEN td ELSE [actived |-> TRUE, seq |-> sn, links |-> td.links + 1]

(* skw_set_reorder_timer: nothing while a timer runs or for a session already closed;
   a frame that has waited long enough (due) goes to the receive thread's list at once. *)
skw_set_reorder_timer(st, sn, due) ==
    IF st.timer.on \/ ref_cnt # st.t.ref \/ st.t.buf[SlotOf(sn)] = <<>> THEN st
    ELSE IF SlotOf(sn) \in due THEN [st EXCEPT !.todo = TodoOn(@, sn)]
    ELSE [st EXCEPT !.arm = [on |-> TRUE, sn |-> sn, ref |-> st.t.ref]]

RECURSIVE ForceLoop(_, _)
ForceLoop(st, to) ==
    LET slot == SlotOf(st.t.start)  list == st.t.buf[slot]
    IN IF ~SnLess(st.t.start, SnInc(to)) THEN st
       ELSE IF st.t.stored = 0 THEN [st EXCEPT !.t.start = to]
       ELSE ForceLoop([st EXCEPT
                !.t.buf[slot] = <<>>, !.t.start = SnInc(@),
                !.t.stored = IF list = <<>> THEN @ ELSE @ - 1,
                !.out = IF Tainted(list) THEN @ ELSE @ \o list], to)

(* Fault: what is forced out is still counted. *)
skw_reorder_force_release_uncounted(st, to) ==
    [ForceLoop(st, to) EXCEPT !.t.stored = st.t.stored]

(* skw_reorder_force_release: the window moves past to, or onto it when nothing is stored. *)
skw_reorder_force_release(st, to) ==
    LET overtaken == /\ st.timer.on /\ ref_cnt = st.t.ref
                     /\ SnLess(st.timer.sn, to) \/ SnLess(to, st.t.start)
    IN ForceLoop(IF overtaken THEN [st EXCEPT !.timer.on = FALSE] ELSE st, to)

RECURSIVE ReleaseLoop(_, _, _, _, _, _)
ReleaseLoop(st, from, i, release, due, late) ==
    LET sn == (from + i) % SnMod  slot == SlotOf(sn)  list == st.t.buf[slot]
        st1 == IF st.timer.on /\ st.timer.sn = st.t.start THEN [st EXCEPT !.timer.on = FALSE] ELSE st
    IN IF i = WinSize THEN st
       ELSE IF st.t.stored = 0 THEN [st EXCEPT !.timer.on = FALSE]
       ELSE IF list = <<>> THEN IF st.timer.on THEN st ELSE ReleaseLoop(st, from, i + 1, FALSE, due, late)
       ELSE IF ~release THEN
            IF slot \notin late THEN skw_set_reorder_timer(st, sn, due)
            ELSE ReleaseLoop(skw_reorder_force_release(st, sn), from, i + 1, TRUE, due, late)
       ELSE IF Tainted(list)     \* the count is left as it is
            THEN ReleaseLoop([st1 EXCEPT !.t.buf[slot] = <<>>, !.taint = TRUE], from, i + 1, FALSE, due, late)
       ELSE IF is_skw_release_ready(list) \/ slot \in late
            THEN ReleaseLoop([st1 EXCEPT !.t.buf[slot] = <<>>, !.t.start = SnInc(@),
                                         !.t.stored = @ - 1, !.out = @ \o list],
                             from, i + 1, TRUE, due, late)
       ELSE skw_set_reorder_timer(st1, sn, due)

(* skw_reorder_release: all that is ready up to the first gap; past it only what has
   waited its time (late), else the timer is set for the first frame behind the gap. *)
skw_reorder_release(st, due, late) == ReleaseLoop(st, st.t.start, 0, TRUE, due, late)

(***************************************************************************)
(* skw_ampdu_reorder.                                                      *)
(***************************************************************************)
(* The end of it: the session has frames left, or none. *)
Settle(st, sn, release, kept, due, late) ==
    IF st.t.stored = 0 THEN [st EXCEPT !.timer.on = FALSE]
    ELSE IF release THEN skw_reorder_release(st, due, late)
    ELSE IF kept THEN skw_set_reorder_timer(st, sn, due) ELSE st

(* A frame beyond the window pushes it. *)
Pushed(st, sn) ==
    IF SnLess(sn, st.t.start + WinSize) THEN st
    ELSE skw_reorder_force_release(st, (sn - WinSize) % SnMod)

(* A frame from before the window is a duplicate, or too late. *)
BeforeWindow(sn) == SnLess(sn, tid_rx.start)

(* excl: the frame's msdu_filter is in SKW_RX_FILTER_EXCL (ARP, EAP, DHCP, ...): from before the
   window it goes up at once and past the replay check. *)
skw_ampdu_reorder(f, excl, due, late) ==
    LET sn == SnOf(f.n)
        st == Pushed(Start(tid_rx), sn)
        pushed == ~SnLess(sn, tid_rx.start + WinSize)
        slot == SlotOf(sn)  list == st.t.buf[slot]  now == Append(list, f)
        taken == [st EXCEPT !.t.buf[slot] = now]
        atStart == [st EXCEPT !.t.buf[slot] = <<>>, !.t.start = SnInc(@), !.out = @ \o now,
                    !.timer.on = @ /\ st.timer.sn # st.t.start]
        drop == Settle(st, sn, pushed, FALSE, due, late)
    IN IF ~tid_rx.on THEN [st EXCEPT !.out = <<f>>]
       ELSE IF BeforeWindow(sn) /\ excl THEN [Start(tid_rx) EXCEPT !.aside = {f}]
       ELSE IF BeforeWindow(sn) THEN Settle(Start(tid_rx), sn, FALSE, FALSE, due, late)
       ELSE IF f.sub = 0 THEN
            IF list # <<>> THEN drop
            ELSE IF sn = st.t.start THEN Settle(atStart, sn, TRUE, TRUE, due, late)
            ELSE Settle([taken EXCEPT !.t.stored = @ + 1], sn, pushed, TRUE, due, late)
       ELSE IF \E k \in 1..Len(list) : list[k].sub = f.sub \/ list[k].sub = 0 THEN drop
       ELSE IF ~is_skw_release_ready(now) THEN
            Settle([taken EXCEPT !.t.stored = IF list = <<>> THEN @ + 1 ELSE @], sn, pushed, TRUE, due, late)
       ELSE LET counted == IF list = <<>> THEN 1 ELSE 0
            IN IF Tainted(now) THEN
                 Settle([st EXCEPT !.t.buf[slot] = <<>>, !.t.stored = @ + counted - 1,
                                   !.t.start = SnInc(@), !.taint = TRUE], sn, pushed, FALSE, due, late)
               ELSE IF sn = st.t.start
                 THEN Settle([atStart EXCEPT !.t.stored = @ + counted - 1], sn, TRUE, TRUE, due, late)
               ELSE Settle([taken EXCEPT !.t.stored = @ + counted], sn, pushed, TRUE, due, late)

(***************************************************************************)
(* skw_rx_handler: what the driver made up is dropped, what comes before   *)
(* the last packet number of the key is a replay, the rest goes up.        *)
(***************************************************************************)
RECURSIVE skw_rx_handler(_, _)
skw_rx_handler(seen, out) ==
    IF out = <<>> THEN seen
    ELSE LET f == Head(out)
             skipped == f.made \/ (key /\ f.n < seen.last)
         IN skw_rx_handler(IF skipped THEN seen
                ELSE [seen EXCEPT !.last = f.n, !.got = @ \cup {<<f.n, f.sub>>},
                                  !.back = @ \/ f.n < seen.last,
                                  !.twice = @ \/ <<f.n, f.sub>> \in seen.got], Tail(out))

(* skip_replay_detect: neither compared with the packet number nor remembered by it. *)
HandedAside(seen, frames) == [seen EXCEPT !.got = @ \cup {<<f.n, f.sub>> : f \in {g \in frames : ~g.made}}]

(* The ghost keeps what the properties still ask. *)
Kept(seen) == [seen EXCEPT !.got = IF seen.jumped THEN {} ELSE @,
                           !.twice = @ /\ ~seen.jumped,
                           !.last = IF seen.jumped /\ ~key THEN -1 ELSE @,
                           !.back = @ /\ (key \/ ~seen.jumped)]

After(st, seen) ==
    /\ tid_rx' = st.t /\ rxTimer' = st.timer /\ todo' = st.todo /\ arming' = st.arm
    /\ rxSeen' = Kept([HandedAside(skw_rx_handler(seen, st.out), st.aside) EXCEPT !.taint = @ \/ st.taint])

Waiting == {SnOf(n) : n \in 0..(Msdus - 1)}
Stored(t) == {i \in DOMAIN t.buf : t.buf[i] # <<>>}
(* How long the frames of the slots have waited: due for the timer, late for the release. *)
Ages(slots) == {<<due, late>> \in (SUBSET slots) \X (SUBSET slots) : late \in {{}, due}}

(* What may arrive: an MSDU or a subframe; made up when the firmware reports a drop.  Fragments
   and multicast, which skip the reordering, are not sent within a block-ack session. *)
SkbsOf(n) ==
    IF n \in AMsdus
    THEN {[n |-> n, sub |-> sub, last |-> sub = 2, made |-> FALSE, taint |-> taint] :
            <<sub, taint>> \in {<<1, FALSE>>, <<1, TRUE>>, <<2, FALSE>>}}
    ELSE {[n |-> n, sub |-> 0, last |-> FALSE, made |-> made, taint |-> FALSE] : made \in BOOLEAN}

(* skw_rx_data_handler, one frame: received, or reported as dropped by the firmware. *)
RxFrame ==
    /\ rxFuel.frames > 0 /\ ~arming.on
    /\ rxFuel' = [rxFuel EXCEPT !.frames = @ - 1]
    /\ \E n \in 0..(Msdus - 1), excl \in BOOLEAN : \E f \in SkbsOf(n) :
        LET outside == tid_rx.on /\ ~SnLess(SnOf(n), tid_rx.start + WinSize)
                                 /\ ~SnLess(SnOf(n), tid_rx.start)
        IN \E st \in {skw_ampdu_reorder(f, excl, age[1], age[2]) :
                        age \in Ages(Stored(tid_rx) \cup {SlotOf(SnOf(n))})} :
             After(st, [rxSeen EXCEPT !.jumped = @ \/ outside \/ ~tid_rx.on])
    /\ UNCHANGED <<freed, ref_cnt, key>>

(* mod_timer, after the checks: the session may have been closed meanwhile. *)
RxArms ==
    /\ arming.on
    /\ rxTimer' = arming /\ arming' = NoTimer
    /\ rxSeen' = [rxSeen EXCEPT !.stale = @ \/ arming.ref # ref_cnt]
    /\ UNCHANGED <<tid_rx, freed, ref_cnt, todo, key, rxFuel>>

(* skw_rx_todo: the window is forced past todo.seq, then what follows is released. *)
skw_rx_todo ==
    /\ ~arming.on /\ todo.links > 0
    /\ LET done == [Start(tid_rx) EXCEPT !.todo = [@ EXCEPT !.actived = FALSE, !.links = @ - 1]]
           forced == skw_reorder_force_release(done, todo.seq)
       IN \E st \in {IF tid_rx.on THEN skw_reorder_release(forced, age[1], age[2]) ELSE done :
                        age \in Ages(Stored(tid_rx))} : After(st, rxSeen)
    /\ UNCHANGED <<freed, ref_cnt, key, rxFuel>>

(* skw_reorder_timeout: a timer of a closed session does nothing. *)
skw_reorder_timeout ==
    /\ rxTimer.on
    /\ rxTimer' = [rxTimer EXCEPT !.on = FALSE]
    /\ todo' = IF ref_cnt = rxTimer.ref THEN TodoOn(todo, rxTimer.sn) ELSE todo
    /\ UNCHANGED <<tid_rx, freed, ref_cnt, arming, key, rxSeen, rxFuel>>

(***************************************************************************)
(* The firmware's events: block-ack sessions.                              *)
(***************************************************************************)
RxEvent == rxFuel.sessions > 0 /\ rxFuel' = [rxFuel EXCEPT !.sessions = @ - 1]

(* skw_add_tid_rx, without a session; its todo starts afresh, linked or not. *)
skw_add_tid_rx ==
    /\ RxEvent /\ ~tid_rx.on
    /\ tid_rx' = [NoSession EXCEPT !.on = TRUE, !.start = Ssn, !.ref = ref_cnt]
    /\ todo' = [todo EXCEPT !.actived = FALSE, !.seq = 0]
    /\ rxSeen' = [rxSeen EXCEPT !.last = -1, !.got = {}]
    /\ UNCHANGED <<freed, ref_cnt, rxTimer, arming, key>>

(* skw_update_tid_rx, for a request of the sender or a second opening. *)
skw_update_tid_rx ==
    /\ RxEvent /\ tid_rx.on
    /\ \E ssn \in Waiting :
        todo' = [TodoOn(todo, ssn) EXCEPT !.seq = ssn]
    /\ rxSeen' = Kept([rxSeen EXCEPT !.jumped = TRUE])
    /\ UNCHANGED <<tid_rx, freed, ref_cnt, rxTimer, arming, key>>

skw_del_tid_rx ==
    /\ tid_rx.on
    /\ freed' = freed \cup {tid_rx}
    /\ tid_rx' = NoSession
    /\ ref_cnt' = ref_cnt + 1
    /\ rxTimer' = [rxTimer EXCEPT !.on = FALSE]
    /\ UNCHANGED <<arming, todo, key, rxSeen, rxFuel>>

(* skw_free_tid_rx, once no reader is left: its frames go up, after all. *)
skw_free_tid_rx ==
    /\ ~arming.on
    /\ \E t \in freed :
        LET st == skw_reorder_force_release(Start(t), (t.start + WinSize - 1) % SnMod)
        IN /\ freed' = freed \ {t}
           /\ rxSeen' = Kept([skw_rx_handler(rxSeen, st.out) EXCEPT !.jumped = TRUE])
           /\ rxTimer' = st.timer
    /\ UNCHANGED <<tid_rx, ref_cnt, arming, todo, key, rxFuel>>

(***************************************************************************)
(* The specification.                                                      *)
(***************************************************************************)
RxNext ==
    \/ RxFrame \/ RxArms \/ skw_rx_todo \/ skw_reorder_timeout
    \/ skw_add_tid_rx \/ skw_update_tid_rx \/ skw_del_tid_rx \/ skw_free_tid_rx

(* The receive thread polls its list every millisecond, and timers expire.  (The second
   conjunct is WF_RxVars(skw_rx_todo), with the guard for ENABLED.) *)
RxFairness ==
    /\ WF_RxVars(RxArms) /\ WF_RxVars(skw_reorder_timeout)
    /\ <>[](~arming.on /\ todo.links > 0) => []<><<skw_rx_todo>>_RxVars

RxSpec == RxInit /\ [][RxNext]_RxVars /\ RxFairness

(***************************************************************************)
(* Properties.                                                             *)
(***************************************************************************)
(* stored_num counts the occupied slots: when it was too small the window would jump over
   a buffered frame.  (A tainted A-MSDU released from the buffer is still counted.) *)
RxStoredCount ==
    \A t \in freed \cup {tid_rx} :
        IF rxSeen.taint THEN t.stored >= Cardinality(Stored(t)) ELSE t.stored = Cardinality(Stored(t))

(* Frames go up in the order they were sent, each once, whatever the timer forces out, as
   long as no frame and no request lies beyond the window; under a key, never backwards.
   The frames of the driver's filter that come late go up beside this order, as often as they
   come; the order takes no notice of them, and does not hand them up again.
   (With an empty buffer a push leaves the window one short: the frame is taken for the
   one a window earlier.) *)
RxInOrder ==
    /\ ~rxSeen.jumped => ~rxSeen.back /\ ~rxSeen.twice
    /\ key => ~rxSeen.back

(* No buffered frame is forgotten: the timer or the next frame gets it out.  (A timer
   started for a session that has just been closed keeps the next one from its own.) *)
RxReleased ==
    []<>(Stored(tid_rx) = {} \/ rxSeen.stale \/ rxSeen.taint)

(* The session is on the receive thread's list at most once while it lasts; only sessions
   opened anew before the list was worked off link it again. *)
RxLinkedOnce == todo.links <= 1 + ref_cnt

(* The reorder buffer counts what it holds, releases in order and is linked once. *)
RxSafe == RxStoredCount /\ RxInOrder /\ RxLinkedOnce
=============================================================================
