------------------------------- MODULE SkwSta -------------------------------
(***************************************************************************)
(* skwifi's station: authentication and association asked for by the       *)
(* supplicant through cfg80211, the firmware's frames and events, and the  *)
(* timer with its work.  Requests and work hold the wiphy lock; the        *)
(* firmware's disconnect event does not (skw_event_disconnect).  Events    *)
(* and the station's work share one work queue and run one at a time.      *)
(***************************************************************************)
EXTENDS Integers, Sequences

CONSTANTS
    Bss,            \* access points
    MaxRequests,    \* bound: requests of the supplicant
    MaxFrames,      \* bound: frames and events of the firmware
    MaxQueue,       \* bound: frames and events waiting for the driver
    MaxRefused,     \* bound: commands the firmware refuses or does not answer
    MaxRetry        \* SKW_MAX_AUTH_ASSOC_RETRY_NUM

None == "none"

ASSUME StaConstants == None \notin Bss /\ MaxRetry > 0

VARIABLES
    sta,        \* sta.core with the peer context, the transmit entry and the carrier
    todo,       \* what the supplicant's call and the event's handler have still to do
    wdev_lock,  \* who holds it: "user", "event" or none
    evq,        \* frames and events of the firmware, in order
    fw,         \* the firmware (external): the BSS it has joined, what it was asked
    upper,      \* cfg80211 and the supplicant (external): request, authentication, connection
    crossed,    \* a request and a disconnect event have run side by side (ghost)
    astray,     \* what went past the attempt it was meant for (ghost): "elsewhere", a request, an
                \* answer or an event was applied to another BSS than its own; "late", an answer
                \* came in a state that did not wait for it; "moved", a reassociation left the old
                \* BSS without a word; "silent", a disconnect event ended an association without
                \* a word; "kept", an association with the BSS already joined was ignored
    staFuel

staGhosts == <<crossed, astray>>
StaVars == <<sta, todo, wdev_lock, evq, fw, upper, staGhosts, staFuel>>

StaInit ==
    /\ sta = [sm |-> "NONE", bss |-> None, peer |-> None, entry |-> None, cbss |-> None,
              carrier |-> FALSE, timer |-> FALSE, work |-> FALSE, age |-> 0, retry |-> 0,
              report |-> FALSE, confirm |-> FALSE]
    /\ todo = [t \in {"user", "event"} |-> << >>]
    /\ wdev_lock = None /\ evq = << >>
    /\ fw = [bss |-> None, asked |-> None]
    /\ upper = [wait |-> None, authed |-> None, conn |-> None]
    /\ crossed = FALSE /\ astray = {}
    /\ staFuel = [requests |-> MaxRequests, frames |-> MaxFrames, refused |-> MaxRefused]

(* A step of a call; confirm: the refused answer was an SAE confirm. *)
Op(op, b) == [op |-> op, bss |-> b, confirm |-> FALSE]

At(t, op) == todo[t] # << >> /\ Head(todo[t]).op = op
StaBusy == todo["user"] # << >> \/ todo["event"] # << >>

(* A thread goes on with p; an empty p ends its call and drops the lock it holds. *)
Continue(t, p) ==
    /\ todo' = [todo EXCEPT ![t] = p]
    /\ wdev_lock' = IF p = << >> /\ wdev_lock = t THEN None ELSE wdev_lock

(* The call returns an error: the supplicant's request is over. *)
Fail(t) ==
    /\ Continue(t, << >>)
    /\ upper' = IF t = "user" THEN [upper EXCEPT !.wait = None] ELSE upper

Refused == staFuel.refused > 0 /\ staFuel' = [staFuel EXCEPT !.refused = @ - 1]

Strays(what, cond) == IF cond THEN astray \cup {what} ELSE astray

(* What cfg80211 makes of a deauthentication: it was connected there, or only trying. *)
skw_tx_mlme_mgmt(u, b) ==
    [wait |-> None,
     authed |-> IF u.authed = b THEN None ELSE u.authed,
     conn |-> IF u.conn = b THEN None ELSE u.conn]

Pending == {"AUTHING", "AUTHED", "ASSOCING"}

(***************************************************************************)
(* The supplicant's requests.  Each runs up to its first command, then one *)
(* command at a time (StaStep).                                            *)
(***************************************************************************)
Request(wait, p) ==
    /\ todo["user"] = << >> /\ wdev_lock = None
    /\ staFuel.requests > 0
    /\ staFuel' = [staFuel EXCEPT !.requests = @ - 1]
    /\ crossed' = (crossed \/ todo["event"] # << >>)
    /\ upper' = [upper EXCEPT !.wait = wait]
    /\ todo' = [todo EXCEPT !["user"] = p]
    /\ wdev_lock' = IF p = << >> THEN None ELSE "user"

(* skw_cfg80211_auth and skw_auth; conf: the second step of SAE.  On the BSS it is
   connected to skw_auth returns 0 at once, but there cfg80211 refuses the request. *)
skw_auth(b, conf) ==
    /\ upper.wait = None /\ upper.conn # b
    /\ conf => upper.authed = b
    /\ \/ /\ sta.sm \in {"AUTHING", "ASSOCING"}
          /\ Request(None, << >>)                       \* -EBUSY
          /\ sta' = [sta EXCEPT !.report = FALSE]
          /\ UNCHANGED astray
       \/ /\ sta.sm = "ASSOCED" /\ sta.bss # b
          /\ Request("auth", <<Op("told_left", sta.bss), Op("unjoin", sta.bss),
                               Op("join", b), Op("auth", b)>>)
          /\ sta' = [sta EXCEPT !.report = FALSE, !.sm = "NONE"]
          /\ UNCHANGED astray
       \/ /\ sta.sm = "NONE"
          /\ Request("auth", (IF sta.bss = None THEN << >> ELSE <<Op("unjoin", sta.bss)>>)
                \o <<Op("join", b), Op("auth", b)>>)
          /\ sta' = [sta EXCEPT !.report = FALSE]
          /\ UNCHANGED astray
       \/ /\ sta.sm = "AUTHED"                          \* on the BSS it has joined
          /\ Request("auth", <<Op("auth", b)>>)
          /\ sta' = [sta EXCEPT !.report = FALSE]
          /\ astray' = Strays("elsewhere", b # sta.bss)
    /\ UNCHANGED <<evq, fw>>

(* skw_assoc; with a connection elsewhere, a reassociation that tells nobody; on the BSS it is
   connected to skw_assoc returns 0 and nobody will answer. *)
skw_assoc(b) ==
    /\ upper.wait = None
    /\ \/ upper.authed = b /\ upper.conn = None
       \/ upper.conn # None
    /\ \/ /\ sta.sm \in {"AUTHING", "ASSOCING", "NONE"}
          /\ Request(None, << >>)                       \* -EBUSY, -EINVAL
          /\ UNCHANGED <<sta, astray>>
       \/ /\ sta.sm = "ASSOCED" /\ sta.bss = b
          /\ Request("assoc", << >>)
          /\ astray' = Strays("kept", TRUE) /\ UNCHANGED sta
       \/ /\ sta.sm = "ASSOCED" /\ sta.bss # b
          /\ Request("assoc", <<Op("unjoin", sta.bss), Op("join", b), Op("assoc", b)>>)
          /\ sta' = [sta EXCEPT !.sm = "NONE"]
          /\ astray' = Strays("moved", TRUE)
       \/ /\ sta.sm = "AUTHED"
          /\ Request("assoc", <<Op("assoc", b)>>)
          /\ astray' = Strays("elsewhere", b # sta.bss)
          /\ UNCHANGED sta
    /\ UNCHANGED <<evq, fw>>

(* skw_cfg80211_deauth tells of it when an attempt got as far as its first command ... *)
skw_cfg80211_deauth(b) ==
    /\ Request(None, <<Op("leave", b), Op("told_if_report", b)>>)
    /\ astray' = Strays("elsewhere", sta.bss \notin {None, b})
    /\ UNCHANGED <<sta, evq, fw>>

(* ... skw_cfg80211_disassoc always does. *)
skw_cfg80211_disassoc(b) ==
    /\ upper.conn = b
    /\ Request(None, <<Op("leave", b), Op("told_left", b)>>)
    /\ astray' = Strays("elsewhere", sta.bss \notin {None, b})
    /\ UNCHANGED <<sta, evq, fw>>

(***************************************************************************)
(* The steps of a call.                                                    *)
(***************************************************************************)
(* The firmware after each command it carries out. *)
skw_cmd_join(b) == [bss |-> b, asked |-> None]
skw_cmd_auth == [fw EXCEPT !.asked = "auth"]
skw_cmd_assoc == [fw EXCEPT !.asked = "assoc"]
skw_cmd_unjoin(s) == IF s.bss = None THEN [bss |-> None, asked |-> None] ELSE fw

skw_peer_ctx_bind(s, peer) == [s EXCEPT !.peer = peer]
skw_peer_ctx_transmit(s, enable) == [s EXCEPT !.entry = IF enable THEN s.peer ELSE None]

(* Fault: the peer outlives its network. *)
skw_unjoin_keepsPeer(s, b) ==
    {<<[s EXCEPT !.bss = None, !.entry = None], FALSE>>}

(* skw_unjoin: without a peer of that address there is nothing to do; a refused command
   leaves the BSS and the peer.  Each outcome is the new state and whether it failed. *)
skw_unjoin(s, b) ==
    LET off == skw_peer_ctx_transmit(s, FALSE)
    IN IF s.peer # b THEN {<<s, FALSE>>}
       ELSE {<<skw_peer_ctx_bind([off EXCEPT !.bss = None], None), FALSE>>, <<off, TRUE>>}

Unjoins(s, b, after(_)) ==
    \E r \in skw_unjoin(s, b) :
        /\ sta' = r[1]
        /\ IF r[2] THEN Refused ELSE UNCHANGED staFuel
        /\ fw' = skw_cmd_unjoin(r[1])
        /\ after(r[2])

(* skw_sta_leave takes no notice of a refusal. *)
skw_sta_leave(t) ==
    /\ At(t, "leave")
    /\ LET after(failed) == Continue(t, Tail(todo[t])) /\ UNCHANGED upper
       IN Unjoins([sta EXCEPT !.carrier = FALSE, !.timer = FALSE, !.sm = "NONE",
                              !.confirm = FALSE], Head(todo[t]).bss, after)
    /\ UNCHANGED <<evq, staGhosts>>

StepUnjoin(t) ==
    /\ At(t, "unjoin")
    /\ LET after(failed) == IF failed THEN Fail(t)
                            ELSE Continue(t, Tail(todo[t])) /\ UNCHANGED upper
       IN Unjoins(sta, Head(todo[t]).bss, after)
    /\ UNCHANGED <<evq, staGhosts>>

(* skw_join: the firmware's answer names the context the peer is bound to. *)
skw_join(t) ==
    /\ At(t, "join")
    /\ \/ /\ LET b == Head(todo[t]).bss
             IN /\ sta' = skw_peer_ctx_bind([sta EXCEPT !.bss = b], b)
                /\ fw' = skw_cmd_join(b)
          /\ Continue(t, Tail(todo[t]))
          /\ UNCHANGED <<upper, staFuel>>
       \/ Refused /\ Fail(t) /\ UNCHANGED <<sta, fw>>
    /\ UNCHANGED <<evq, staGhosts>>

(* The state, the timer and then the command, skw_cmd_auth or skw_cmd_assoc.  The peer's
   SAE confirm may have come before ours; a refused command undoes the join. *)
StepAsks(t) ==
    /\ At(t, "auth") \/ At(t, "assoc")
    /\ LET auth == At(t, "auth")
           b == Head(todo[t]).bss
       IN \/ /\ fw' = IF auth THEN skw_cmd_auth ELSE skw_cmd_assoc
             /\ sta' = IF auth
                    THEN [sta EXCEPT !.timer = TRUE, !.age = 0, !.retry = 0, !.report = TRUE,
                            !.sm = IF sta.confirm /\ upper.authed = b THEN "AUTHED"
                                                                      ELSE "AUTHING"]
                    ELSE [sta EXCEPT !.timer = TRUE, !.retry = 0, !.cbss = b,
                            !.sm = "ASSOCING"]
             /\ Continue(t, Tail(todo[t]))
             /\ UNCHANGED <<upper, staFuel>>
          \/ /\ Refused
             /\ \E r \in skw_unjoin([sta EXCEPT !.timer = FALSE, !.sm = "NONE",
                                    !.cbss = IF auth THEN @ ELSE None], b) :
                    /\ sta' = r[1]
                    /\ fw' = skw_cmd_unjoin(r[1])
             /\ Fail(t)
    /\ UNCHANGED <<evq, staGhosts>>

(* What is told to cfg80211; the flag of an SAE confirm is set after the leave that clears it. *)
StepTells(t) ==
    /\ LET b == Head(todo[t]).bss
       IN \/ At(t, "told_left") /\ upper' = [skw_tx_mlme_mgmt(upper, b) EXCEPT
                                                !.wait = IF t = "user" THEN upper.wait ELSE @]
             /\ UNCHANGED sta
          \/ At(t, "told_if_report") /\ UNCHANGED sta
             /\ upper' = IF sta.report THEN skw_tx_mlme_mgmt(upper, b) ELSE upper
          \/ At(t, "timed_out") /\ upper' = [upper EXCEPT !.wait = None] /\ UNCHANGED sta
          \/ /\ At(t, "auth_frame") /\ upper' = [upper EXCEPT !.wait = None, !.authed = None]
             /\ sta' = [sta EXCEPT !.confirm = @ \/ Head(todo[t]).confirm]
    /\ Continue(t, Tail(todo[t]))
    /\ UNCHANGED <<evq, fw, staGhosts, staFuel>>

StaStep(t) ==
    skw_sta_leave(t) \/ StepUnjoin(t) \/ skw_join(t) \/ StepAsks(t) \/ StepTells(t)

(***************************************************************************)
(* The firmware's frames and events.                                       *)
(***************************************************************************)
Frame(kind, b, ok, conf) == [kind |-> kind, bss |-> b, ok |-> ok, confirm |-> conf]

(* The firmware (external) passes on answers to what it was asked, and tells of losses. *)
FirmwareSends ==
    /\ fw.bss # None /\ staFuel.frames > 0 /\ Len(evq) < MaxQueue
    /\ staFuel' = [staFuel EXCEPT !.frames = @ - 1]
    /\ \E f \in [kind : {"auth", "assoc", "deauth", "discon"}, bss : {fw.bss},
                 ok : BOOLEAN, confirm : BOOLEAN] :
          /\ f.kind = "assoc" => fw.asked = "assoc" /\ ~f.confirm
          /\ f.kind = "auth" => fw.asked # None
          /\ f.kind \in {"deauth", "discon"} => f.ok /\ ~f.confirm
          /\ evq' = Append(evq, f)
    /\ UNCHANGED <<sta, todo, wdev_lock, fw, upper, staGhosts>>

(* The event work takes the next one; all but a disconnect wait for the lock. *)
Taken(kind) ==
    /\ todo["event"] = << >> /\ evq # << >>
    /\ Head(evq).kind = kind
    /\ evq' = Tail(evq)

EventRuns(p) ==
    /\ todo' = [todo EXCEPT !["event"] = p]
    /\ wdev_lock' = IF p = << >> THEN None ELSE "event"

(* skw_sta_rx_mgmt drops a frame that was sent again with the last one's sequence number, before it
   takes the lock; which frames are such is the air's choice. *)
RetryDropped ==
    /\ \E kind \in {"auth", "assoc", "deauth"} : Taken(kind)
    /\ UNCHANGED <<sta, todo, wdev_lock, fw, upper, staGhosts, staFuel>>

skw_sta_rx_deauth ==
    /\ Taken("deauth") /\ wdev_lock = None
    /\ LET b == Head(evq).bss
       IN EventRuns(IF sta.peer = b THEN <<Op("leave", b), Op("told_left", b)>>
                                    ELSE << >>)
    /\ UNCHANGED <<sta, fw, upper, staGhosts, staFuel>>

(* An answer is taken in whatever state it finds the station. *)
skw_sta_rx_auth ==
    /\ Taken("auth") /\ wdev_lock = None
    /\ LET f == Head(evq)
       IN IF sta.bss # f.bss
            THEN EventRuns(<< >>) /\ UNCHANGED <<sta, upper, astray>>
            ELSE /\ astray' = Strays("late", sta.sm \notin {"AUTHING", "AUTHED"})
                 /\ sta' = [sta EXCEPT !.sm = "AUTHED", !.age = 0, !.retry = 0,
                                       !.report = f.ok /\ @,
                                       !.confirm = (f.ok /\ f.confirm) \/ @]
                 /\ IF f.ok
                    THEN /\ upper' = [upper EXCEPT !.wait = None, !.authed = f.bss]
                         /\ EventRuns(<< >>)
                    ELSE /\ EventRuns(<<Op("leave", f.bss),
                                        [Op("auth_frame", f.bss) EXCEPT !.confirm = f.confirm]>>)
                         /\ UNCHANGED upper
    /\ UNCHANGED <<fw, crossed, staFuel>>

(* A refusal leaves the station joined: the next skw_auth undoes it. *)
skw_sta_rx_assoc ==
    /\ Taken("assoc") /\ wdev_lock = None
    /\ LET f == Head(evq)
       IN IF sta.bss = None \/ sta.peer # f.bss
            THEN UNCHANGED <<sta, upper>>
            ELSE /\ sta' = IF f.ok
                    THEN [skw_peer_ctx_transmit(sta, TRUE) EXCEPT
                                    !.sm = "ASSOCED", !.carrier = TRUE, !.cbss = None]
                    ELSE [sta EXCEPT !.sm = "NONE", !.report = FALSE, !.cbss = None]
                 /\ upper' = IF sta.cbss = None THEN upper
                             ELSE [wait |-> None, authed |-> None,
                                   conn |-> IF f.ok THEN f.bss ELSE None]
    /\ astray' = Strays("late", sta.sm # "ASSOCING" /\ sta.peer = Head(evq).bss)
    /\ EventRuns(<< >>)
    /\ UNCHANGED <<fw, crossed, staFuel>>

(* skw_event_disconnect: without the lock, for any BSS, and silent during an association. *)
skw_event_disconnect ==
    /\ Taken("discon")
    /\ LET b == Head(evq).bss
       IN /\ todo' = [todo EXCEPT !["event"] = <<Op("leave", b),
                        IF sta.cbss = None THEN Op("told_left", b) ELSE Op("quiet", b)>>]
          /\ astray' = Strays("elsewhere", sta.bss \notin {None, b}) \cup Strays("silent", sta.cbss # None)
    /\ crossed' = (crossed \/ todo["user"] # << >>)
    /\ UNCHANGED <<sta, wdev_lock, fw, upper, staFuel>>

StepQuiet ==
    /\ At("event", "quiet")
    /\ sta' = [sta EXCEPT !.cbss = None]
    /\ Continue("event", Tail(todo["event"]))
    /\ UNCHANGED <<evq, fw, upper, staGhosts, staFuel>>

(***************************************************************************)
(* The timer and its work.                                                 *)
(***************************************************************************)
skw_sta_timer ==
    /\ sta.timer
    /\ sta' = [sta EXCEPT !.timer = FALSE, !.work = TRUE, !.age = IF @ < 2 THEN @ + 1 ELSE 2]
    /\ UNCHANGED <<todo, wdev_lock, evq, fw, upper, staGhosts, staFuel>>

(* A second expiry since the step began is surely later than SKW_STEP_TIMEOUT, the
   first may be; after it the whole attempt may also be older than SKW_CONNECT_TIMEOUT. *)
Old == {late \in BOOLEAN : (late => sta.age > 0) /\ (sta.age = 2 => late)}

GivesUp(s) ==
    /\ sta' = s
    /\ EventRuns(<<Op("leave", s.bss), Op("timed_out", s.bss)>>)

(* Fault: the timer is not started again. *)
RunsAgain_not(s) == sta' = s /\ EventRuns(<< >>)

RunsAgain(s) == sta' = [s EXCEPT !.timer = TRUE] /\ EventRuns(<< >>)

skw_sta_work ==
    /\ sta.work /\ todo["event"] = << >> /\ wdev_lock = None
    /\ LET s == [sta EXCEPT !.work = FALSE]
           asking == sta.sm \in {"AUTHING", "ASSOCING"}
       IN \E old \in Old :
            \/ /\ sta.sm \notin Pending
               /\ sta' = s /\ EventRuns(<< >>) /\ UNCHANGED <<fw, staFuel>>
            \/ /\ sta.sm = "AUTHED" /\ old
               /\ GivesUp([s EXCEPT !.report = FALSE]) /\ UNCHANGED <<fw, staFuel>>
            \/ /\ sta.sm \in Pending /\ ~old
               /\ RunsAgain(s) /\ UNCHANGED <<fw, staFuel>>
            \/ /\ asking /\ old /\ sta.retry + 1 >= MaxRetry
               /\ GivesUp([s EXCEPT !.report = FALSE, !.retry = @ + 1])
               /\ UNCHANGED <<fw, staFuel>>
            \/ /\ asking /\ old /\ sta.retry + 1 < MaxRetry
               /\ RunsAgain([s EXCEPT !.retry = @ + 1])
               /\ fw' = IF sta.sm = "AUTHING" THEN skw_cmd_auth ELSE skw_cmd_assoc
               /\ UNCHANGED staFuel
            \/ /\ asking /\ old /\ sta.retry + 1 < MaxRetry /\ Refused
               /\ GivesUp([s EXCEPT !.report = FALSE, !.retry = @ + 1]) /\ UNCHANGED fw
            \/ /\ asking /\ sta.age > 0          \* SKW_CONNECT_TIMEOUT
               /\ GivesUp([s EXCEPT !.report = FALSE]) /\ UNCHANGED <<fw, staFuel>>
    /\ UNCHANGED <<evq, upper, staGhosts>>

(***************************************************************************)
(* The specification.                                                      *)
(***************************************************************************)
StaEvent ==
    \/ RetryDropped \/ skw_sta_rx_deauth \/ skw_sta_rx_auth \/ skw_sta_rx_assoc
    \/ skw_event_disconnect \/ skw_sta_work

StaNext ==
    \/ \E b \in Bss : \/ \E conf \in BOOLEAN : skw_auth(b, conf)
                      \/ skw_assoc(b) \/ skw_cfg80211_deauth(b) \/ skw_cfg80211_disassoc(b)
    \/ \E t \in {"user", "event"} : StaStep(t)
    \/ StepQuiet \/ StaEvent \/ skw_sta_timer \/ FirmwareSends

(* Calls go on, timers expire and the work queue runs; the supplicant and the firmware
   owe nothing.  The lock keeps coming free, since no call waits for another. *)
StaFairness ==
    /\ WF_StaVars(StaStep("user") /\ staFuel' = staFuel)
    /\ WF_StaVars((StaStep("event") \/ StepQuiet) /\ staFuel' = staFuel)
    /\ WF_StaVars(skw_sta_timer)
    /\ WF_StaVars(StaEvent /\ staFuel' = staFuel)
    /\ WF_StaVars(skw_sta_work /\ staFuel' = staFuel)

StaSpec == StaInit /\ [][StaNext]_StaVars /\ StaFairness

(***************************************************************************)
(* Properties.                                                             *)
(***************************************************************************)
(* What the model claims nothing of: a request side by side with a disconnect event, which has no
   lock, and whatever was applied to another BSS or in another state than it was meant for. *)
Misapplied == crossed \/ astray \cap {"elsewhere", "late"} # {}

(* Between calls the BSS, its peer context and the transmit entry name one access point,
   and an attempt or a connection always has one, whatever was refused on the way. *)
StaBound ==
    Misapplied \/ StaBusy \/
        /\ sta.bss = sta.peer
        /\ sta.entry \in {None, sta.peer}
        /\ sta.sm # "NONE" => sta.peer # None
        /\ sta.sm = "ASSOCED" => sta.entry = sta.peer /\ sta.carrier

(* cfg80211 never believes in a connection the driver has left: every way out of it, the
   supplicant's, the access point's or the firmware's, is told; all but a reassociation's move. *)
StaToldLeft ==
    Misapplied \/ StaBusy \/ "moved" \in astray
    \/ (upper.conn # None => sta.peer = upper.conn /\ sta.sm = "ASSOCED")

(* No attempt hangs: it connects or it is given up, whatever the firmware leaves unanswered, and
   also when a disconnect event ends it. *)
StaAttemptEnds == []<>(sta.sm \notin Pending \/ Misapplied)

(* The supplicant's request gets an answer, an error or a timeout.  The code owes it in two cases:
   a disconnect event ends an association (skw_event_disconnect has the call commented out), and an
   association with the BSS it has joined is taken for done (skw_assoc); nothing is claimed then. *)
StaAnswered == []<>(upper.wait = None \/ Misapplied \/ astray \cap {"silent", "kept"} # {})

(* skw_sta_leave asserts the lock of the wireless device. *)
StaLeaveLocked == \A t \in {"user", "event"} : At(t, "leave") => wdev_lock = t

(* Driver, transmit path and cfg80211 agree on the station's access point. *)
StaSafe == StaBound /\ StaToldLeft
=============================================================================
