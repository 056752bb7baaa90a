------------------------------ MODULE SkwScan ------------------------------
(***************************************************************************)
(* skwifi's scans and the driver's timer list.  cfg80211 has one scan      *)
(* request at a time; the firmware's event, the timeout, the interface     *)
(* going down and cfg80211's own abort all end it through skw_scan_done.   *)
(* The timer list (skw_timer.c) serves the scan timeout and the window of  *)
(* a roaming hint (cqm), both on one kernel timer.  Scheduled scans and    *)
(* the splitting of long measurement reports are here too.                 *)
(***************************************************************************)
EXTENDS Integers, Sequences, SequencesExt, FiniteSetsExt

CONSTANTS
    Ifaces,         \* the interfaces; Station is the one that roams
    Station,
    ScanTimeout,    \* SKW_SCAN_TIMEOUT in ticks
    CqmTimeout,     \* SKW_CQM_SCAN_TIMEOUT in ticks
    MaxScans,       \* bound: scan requests
    MaxHints,       \* bound: roaming hints
    MaxSched,       \* bound: scheduled scans
    MaxNow,         \* bound: the clock
    ReportLimit,    \* bytes a frame of a split report stays below (SKW_MGMT_TX_LEN)
    ReportHead,     \* bytes of the head every such frame repeats
    Reports         \* the reports to send: sequences of element lengths

ASSUME ScanConstants ==
    /\ Station \in Ifaces /\ {ScanTimeout, CqmTimeout} \subseteq Nat \ {0}
    /\ \A r \in Reports : r # <<>> /\ \A k \in DOMAIN r : r[k] \in 1 .. ReportLimit - ReportHead - 1

VARIABLES
    scan_req,       \* skw->scan_req, NoReq for NULL
    cfg_req,        \* cfg80211's own request
    answers,        \* how often each request was answered
    scanner,        \* skw_scan: "idle", or waiting with an answer "accepted" or "refused" to come
    fw_scan,        \* the request the firmware works on
    scan_events,    \* SCAN_COMPLETE events on their way
    timers,         \* skw->timer_data.list
    expires,        \* the kernel timer, NotArmed when idle
    firing,         \* skw_timer_work runs
    fired,          \* its timeout_list
    works,          \* SCAN_TIMEOUT entries of the work list
    cqm_low,        \* SKW_IFACE_STA_ROAM_FLAG_CQM_LOW
    hints, now,
    sched,          \* sched_scan_req, cfg80211's and the firmware's; 0 for none; seen: the event worker's look
    report,         \* the last report sent and its frames
    topic,          \* bound: a behaviour scans, or schedules scans, or sends a report
    torn            \* a request was answered while it was being refused, or the event
                    \* worker followed a pointer that had just become NULL (ghost)

scanTimer == <<timers, expires, firing, fired, works, now>>
scanRest == <<sched, report, topic>>
ScanVars == <<scan_req, cfg_req, answers, scanner, fw_scan, scan_events, scanTimer, cqm_low, hints,
              scanRest, torn>>

NoReq == [id |-> 0, iface |-> Station]
Hint == 0                 \* the id of the roaming hint's timer; a scan timer has its request's id
NotArmed == -1

ScanInit ==
    /\ scan_req = NoReq /\ cfg_req = NoReq /\ fw_scan = NoReq
    /\ answers = <<>> /\ scanner = "idle" /\ scan_events = <<>>
    /\ timers = <<>> /\ expires = NotArmed /\ firing = FALSE /\ fired = <<>> /\ works = <<>>
    /\ cqm_low = FALSE /\ hints = 0 /\ now = 0
    /\ sched = [driver |-> 0, cfg |-> 0, fw |-> 0, next |-> 1, seen |-> 0]
    /\ report = [of |-> <<>>, frames |-> <<>>]
    /\ topic \in {"scan", "sched", "report"}
    /\ torn = FALSE

----------------------------------------------------------------------------
(* The timer list. *)

skw_timer_id_exist(list, id) == \E k \in DOMAIN list : list[k].id = id

(* skw_add_timer_work.  list_add puts the timer behind the first one that is due no earlier,
   or else at the front: the longest wait stays in front. *)
skw_add_timer_work(list, id, iface, timeout) ==
    LET t == [id |-> id, iface |-> iface, due |-> now + timeout]
        later == {k \in DOMAIN list : t.due <= list[k].due}
    IN IF skw_timer_id_exist(list, id) THEN list
       ELSE InsertAt(list, (IF later = {} THEN 0 ELSE Min(later)) + 1, t)

skw_del_timer_work(list, id) == SelectSeq(list, LAMBDA t : t.id # id)

(* mod_timer on the first of the list; nothing when the list is empty. *)
FirstExpires(list) == IF list = <<>> THEN expires ELSE Head(list).due

Timers(list) == timers' = list /\ expires' = FirstExpires(list)

TimerDue == expires # NotArmed /\ expires <= now

(* skw_timer_work: the due timers at the front move to its own list, in reverse order. *)
skw_timer_work ==
    /\ TimerDue /\ ~firing
    /\ LET waiting == {k \in DOMAIN timers : now < timers[k].due}
           n == (IF waiting = {} THEN Len(timers) + 1 ELSE Min(waiting)) - 1
       IN /\ fired' = Reverse(SubSeq(timers, 1, n))
          /\ timers' = SubSeq(timers, n + 1, Len(timers))
    /\ expires' = NotArmed /\ firing' = TRUE
    /\ UNCHANGED <<scan_req, cfg_req, answers, scanner, fw_scan, scan_events, works, now, cqm_low, hints,
                   scanRest, torn>>

skw_scan_timeout(t) == works' = Append(works, t) /\ UNCHANGED cqm_low

skw_cqm_scan_timeout == cqm_low' = FALSE /\ UNCHANGED works

(* One callback, with no lock held. *)
TimerCallback ==
    /\ fired # <<>>
    /\ fired' = Tail(fired)
    /\ IF Head(fired).id = Hint THEN skw_cqm_scan_timeout ELSE skw_scan_timeout(Head(fired))
    /\ UNCHANGED <<scan_req, cfg_req, answers, scanner, fw_scan, scan_events, timers, expires, firing, now,
                   hints, scanRest, torn>>

TimerRearm ==
    /\ firing /\ fired = <<>>
    /\ firing' = FALSE
    /\ expires' = FirstExpires(timers)
    /\ UNCHANGED <<scan_req, cfg_req, answers, scanner, fw_scan, scan_events, timers, fired, works, now,
                   cqm_low, hints, scanRest, torn>>

(* The clock; the kernel timer does not wait. *)
ScanTick ==
    /\ topic = "scan" /\ now < MaxNow /\ ~TimerDue /\ ~firing
    /\ now' = now + 1
    /\ UNCHANGED <<scan_req, cfg_req, answers, scanner, fw_scan, scan_events, timers, expires, firing, fired,
                   works, cqm_low, hints, scanRest, torn>>

----------------------------------------------------------------------------
(* Scans. *)

(* skw_cqm_bg_scan: a full scan of the connected network during a hint is narrowed to the hinted
   channel, and ends the hint. *)
skw_cqm_bg_scan(i, full) == i = Station /\ full /\ cqm_low

(* skw_scan up to its command.  The firmware starts to scan or refuses. *)
skw_scan(i, full) ==
    /\ scanner = "idle" /\ cfg_req = NoReq                       \* cfg80211
    /\ topic = "scan" /\ Len(answers) < MaxScans /\ now + ScanTimeout <= MaxNow    \* bounds
    /\ LET req == [id |-> Len(answers) + 1, iface |-> i]
           narrow == skw_cqm_bg_scan(i, full)
           rest == IF narrow THEN skw_del_timer_work(timers, Hint) ELSE timers
       IN /\ cqm_low' = (cqm_low /\ ~narrow)
          /\ Timers(skw_add_timer_work(rest, req.id, i, ScanTimeout))
          /\ scan_req' = req /\ cfg_req' = req
          /\ answers' = Append(answers, 0)
          /\ \/ scanner' = "accepted" /\ fw_scan' = req
             \/ scanner' = "refused" /\ UNCHANGED fw_scan
    /\ UNCHANGED <<scan_events, firing, fired, works, now, hints, scanRest, torn>>

(* skw_scan without memory for its command: no request, but the hint it was to serve is over. *)
ScanWithoutMemory(i, full) ==
    /\ scanner = "idle" /\ cfg_req = NoReq /\ skw_cqm_bg_scan(i, full)
    /\ cqm_low' = FALSE /\ Timers(skw_del_timer_work(timers, Hint))
    /\ UNCHANGED <<scan_req, cfg_req, answers, scanner, fw_scan, scan_events, firing, fired, works, now, hints,
                   scanRest, torn>>

(* The end of skw_scan; after an error cfg80211 frees the request. *)
skw_scan_returns ==
    /\ scanner # "idle"
    /\ scanner' = "idle"
    /\ IF scanner = "refused"
         THEN /\ torn' = (torn \/ cfg_req = NoReq)
              /\ scan_req' = NoReq /\ cfg_req' = NoReq
              /\ Timers(skw_del_timer_work(timers, Len(answers)))
              /\ answers' = [answers EXCEPT ![Len(answers)] = @ + 1]
         ELSE UNCHANGED <<scan_req, cfg_req, timers, expires, answers, torn>>
    /\ UNCHANGED <<fw_scan, scan_events, firing, fired, works, now, cqm_low, hints, scanRest>>

(* Fault: the driver keeps the request it has answered. *)
skw_scan_done_keeps(i, aborted) ==
    IF scan_req = NoReq \/ scan_req.iface # i
    THEN UNCHANGED <<scan_req, cfg_req, answers, fw_scan, timers, expires>>
    ELSE /\ cfg_req' = NoReq /\ UNCHANGED scan_req
         /\ answers' = [answers EXCEPT ![scan_req.id] = @ + 1]
         /\ Timers(skw_del_timer_work(timers, scan_req.id))
         /\ fw_scan' = IF aborted /\ fw_scan.iface = i THEN NoReq ELSE fw_scan

(* skw_scan_done, under skw->lock: for the interface's own request only.  STOP_SCAN ends the
   firmware's scan. *)
skw_scan_done(i, aborted) ==
    IF scan_req = NoReq \/ scan_req.iface # i
    THEN UNCHANGED <<scan_req, cfg_req, answers, fw_scan, timers, expires>>
    ELSE /\ scan_req' = NoReq /\ cfg_req' = NoReq
         /\ answers' = [answers EXCEPT ![scan_req.id] = @ + 1]
         /\ Timers(skw_del_timer_work(timers, scan_req.id))
         /\ fw_scan' = IF aborted /\ fw_scan.iface = i THEN NoReq ELSE fw_scan

(* The firmware ends its scan and says so, or never does. *)
FwScanCompletes ==
    /\ fw_scan # NoReq /\ scanner # "accepted"
    /\ scan_events' = Append(scan_events, fw_scan.iface)
    /\ fw_scan' = NoReq
    /\ UNCHANGED <<scan_req, cfg_req, answers, scanner, scanTimer, cqm_low, hints, scanRest, torn>>

skw_event_scan_complete ==
    /\ scan_events # <<>>
    /\ scan_events' = Tail(scan_events)
    /\ skw_scan_done(Head(scan_events), FALSE)
    /\ UNCHANGED <<scanner, firing, fired, works, now, cqm_low, hints, scanRest, torn>>

(* skw_work_process, SKW_WORK_SCAN_TIMEOUT. *)
ScanTimeoutWork ==
    /\ works # <<>>
    /\ works' = Tail(works)
    /\ skw_scan_done(Head(works).iface, TRUE)
    /\ UNCHANGED <<scanner, scan_events, firing, fired, now, cqm_low, hints, scanRest, torn>>

(* skw_ndo_stop and skw_iface_teardown; cfg80211's lock keeps skw_scan out. *)
skw_ndo_stop(i) ==
    /\ scanner = "idle" /\ scan_req # NoReq
    /\ skw_scan_done(i, TRUE)
    /\ UNCHANGED <<scanner, scan_events, firing, fired, works, now, cqm_low, hints, scanRest, torn>>

(* skw_abort_scan: STOP_SCAN to the caller's interface, whoever scans. *)
skw_abort_scan(i) ==
    /\ scanner = "idle" /\ scan_req # NoReq
    /\ skw_scan_done(i, TRUE)
    /\ UNCHANGED <<scanner, scan_events, firing, fired, works, now, cqm_low, hints, scanRest, torn>>

(* skw_event_cqm, RSSI_LOW with a target. *)
skw_event_cqm ==
    /\ topic = "scan" /\ hints < MaxHints /\ now + CqmTimeout <= MaxNow    \* bounds
    /\ hints' = hints + 1
    /\ ~cqm_low /\ cqm_low' = TRUE
    /\ Timers(skw_add_timer_work(timers, Hint, Station, CqmTimeout))
    /\ UNCHANGED <<scan_req, cfg_req, answers, scanner, fw_scan, scan_events, firing, fired, works, now,
                   scanRest, torn>>

----------------------------------------------------------------------------
(* Scheduled scans: cfg80211 has at most one.  A command may be refused. *)

scanPart == <<scan_req, cfg_req, answers, scanner, fw_scan, scan_events, scanTimer, cqm_low, hints>>

(* skw_sched_scan_start *)
skw_sched_scan_start ==
    /\ topic = "sched" /\ sched.next <= MaxSched                    \* bounds
    /\ sched.cfg = 0
    /\ \/ sched' = [sched EXCEPT !.driver = sched.next, !.cfg = sched.next, !.fw = sched.next,
                                 !.next = @ + 1]
       \/ sched' = [sched EXCEPT !.driver = 0, !.next = @ + 1]
    /\ UNCHANGED <<scanPart, report, topic, torn>>

(* skw_sched_scan_stop: the request is forgotten before the command; cfg80211 keeps it when the
   command fails, and a second call then succeeds without one. *)
skw_sched_scan_stop ==
    /\ sched.cfg # 0
    /\ \/ sched' = [sched EXCEPT !.driver = 0, !.cfg = 0, !.fw = IF sched.driver # 0 THEN 0 ELSE @]
       \/ sched.driver # 0 /\ sched' = [sched EXCEPT !.driver = 0]
    /\ UNCHANGED <<scanPart, report, topic, torn>>

(* skw_event_sched_scan_done: the pointer is looked at, then followed, with no lock. *)
SchedEventLooks ==
    /\ sched.fw # 0 /\ sched.driver # 0 /\ sched.seen = 0
    /\ sched' = [sched EXCEPT !.seen = sched.driver]
    /\ UNCHANGED <<scanPart, report, topic, torn>>

SchedEventReports ==
    /\ sched.seen # 0
    /\ sched' = [sched EXCEPT !.seen = 0]
    /\ torn' = (torn \/ sched.driver = 0)
    /\ UNCHANGED <<scanPart, report, topic>>

----------------------------------------------------------------------------
(* Measurement reports too long for a command (__skw_cfg80211_mgmt_tx): whole elements are
   gathered while the frame stays below the limit. *)

Bytes(elems) == FoldLeft(LAMBDA a, b : a + b, 0, elems)

Fits(frame, e) == ReportHead + Bytes(frame) + e < ReportLimit

RrmFrames(elems) ==
    LET Gather(acc, e) ==
            IF Fits(acc.frame, e) THEN [acc EXCEPT !.frame = Append(@, e)]
            ELSE [out |-> Append(acc.out, acc.frame), frame |-> <<e>>]
        end == FoldLeft(Gather, [out |-> <<>>, frame |-> <<>>], elems)
    IN Append(end.out, end.frame)

SendReport(r) ==
    /\ topic = "report" /\ report.of = <<>>                          \* bounds
    /\ report' = [of |-> r, frames |-> RrmFrames(r)]
    /\ UNCHANGED <<scanPart, sched, topic, torn>>

----------------------------------------------------------------------------
ScanNext ==
    \/ skw_timer_work
    \/ TimerCallback
    \/ TimerRearm
    \/ ScanTick
    \/ \E i \in Ifaces : \/ \E full \in BOOLEAN : skw_scan(i, full) \/ ScanWithoutMemory(i, full)
                         \/ skw_ndo_stop(i)
                         \/ skw_abort_scan(i)
    \/ skw_scan_returns
    \/ FwScanCompletes
    \/ skw_event_scan_complete
    \/ ScanTimeoutWork
    \/ skw_event_cqm
    \/ skw_sched_scan_start
    \/ skw_sched_scan_stop
    \/ SchedEventLooks
    \/ SchedEventReports
    \/ \E r \in Reports : SendReport(r)

(* Time passes, the timer interrupt, its callbacks and the workers run, skw_scan returns.
   Nothing is assumed of the firmware's events. *)
ScanFairness ==
    /\ WF_ScanVars(skw_timer_work \/ TimerCallback \/ TimerRearm)
    /\ WF_ScanVars(ScanTick) /\ WF_ScanVars(skw_scan_returns) /\ WF_ScanVars(ScanTimeoutWork)

ScanSpec == ScanInit /\ [][ScanNext]_ScanVars /\ ScanFairness

----------------------------------------------------------------------------
(* A request cfg80211 has handed over is answered once, and the driver never keeps a request
   cfg80211 has freed (skw_scan_done against the refused command, the timeout and the abort). *)
ScanAnsweredOnce ==
    ~torn => /\ \A k \in DOMAIN answers : answers[k] = IF cfg_req.id = k THEN 0 ELSE 1
             /\ scan_req # NoReq => cfg_req = scan_req

(* The scan timeouts in the timer list are those of the driver's current request. *)
ScanTimersInStep ==
    ~torn => \A k \in DOMAIN timers : timers[k].id \in {Hint, scan_req.id}

(* A roaming hint always has a timer that will end it: CQM_LOW set for good would narrow every
   later scan to one channel. *)
ScanHintEnds ==
    cqm_low => skw_timer_id_exist(timers \o fired, Hint)

(* The list is not in order of time, so a timer may be late, but never later than the longest
   wait in the list: the kernel timer is armed for one of them at all times. *)
ScanTimersBounded ==
    timers # <<>> => \/ firing
                     \/ expires # NotArmed /\ \E k \in DOMAIN timers : expires <= timers[k].due

(* A scheduled scan the driver still knows is one cfg80211 knows. *)
ScanSchedInStep == sched.driver # 0 => sched.driver = sched.cfg

(* A split report is sent whole and in order, every frame below the limit and none empty. *)
ScanReportWhole ==
    report.of # <<>> =>
        /\ FlattenSeq(report.frames) = report.of
        /\ \A k \in DOMAIN report.frames : /\ report.frames[k] # <<>>
                                           /\ ReportHead + Bytes(report.frames[k]) < ReportLimit

(* Every scan ends, even when the firmware never reports: the timeout sees to it. *)
ScanEnds == []<>(cfg_req = NoReq \/ torn)

(* Scans are answered once, timers belong to what they time, reports are sent whole. *)
ScanSafe ==
    /\ ScanAnsweredOnce
    /\ ScanTimersInStep
    /\ ScanHintEnds
    /\ ScanTimersBounded
    /\ ScanSchedInStep
    /\ ScanReportWhole
=============================================================================
