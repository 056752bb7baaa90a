-------------------------------- MODULE SkwAp --------------------------------
(***************************************************************************)
(* skwifi's access point: hostapd's calls through cfg80211, the stations'  *)
(* frames, the access list's work and, when hostapd is not the SME         *)
(* (iface->sap.sme_external), the driver's own one with its clients and    *)
(* their timer (skw_mlme.c).  Only hostapd's calls hold the wiphy lock:    *)
(* the event work and the worker touch the same peers without it.          *)
(***************************************************************************)
EXTENDS Integers, Sequences, FiniteSets
LOCAL INSTANCE SequencesExt

CONSTANTS
    Stations,
    MaxAllowed,     \* sap.max_sta_allowed
    MaxAir,         \* bound: frames of stations and events of the firmware
    MaxCalls,       \* bound: calls of hostapd
    MaxApQueue,     \* bound: events waiting
    MaxApRefused    \* bound: commands refused

ASSUME ApConstants == IsFiniteSet(Stations) /\ MaxAllowed > 0

VARIABLES
    sme_external,
    up,         \* the access point is started
    peer,       \* each station's peer: its state, whether it may transmit, DEAUTHED
    client,     \* the driver's SME: state, timer and the reply whose status is awaited
    host,       \* what hostapd believes of a station, "stale" once the station started over (external)
    fwsta,      \* the stations the firmware knows (external)
    denied,     \* the stations the access list shuts out
    acl_work,   \* SKW_WORK_ACL_CHECK is queued
    apq,        \* frames, events and local events for the event work
    apTodo,     \* what each thread has still to do
    reauth,     \* associated stations that have started again (ghost)
    kicked,     \* of these, the ones sent a deauthentication (ghost)
    overlap,    \* two threads have worked on one station, or an event came too late (ghost)
    apFuel

apGhosts == <<reauth, kicked>>
ApVars == <<sme_external, up, peer, client, host, fwsta, denied, acl_work, apq, apTodo,
            apGhosts, overlap, apFuel>>

ApThreads == {"host", "event", "work"}
Unbound == [st |-> "unbound", on |-> FALSE, deauthed |-> FALSE]
NoClient == [st |-> "none", timer |-> FALSE, reply |-> "none"]

ApInit ==
    /\ sme_external \in BOOLEAN
    /\ up = FALSE
    /\ peer = [s \in Stations |-> Unbound]
    /\ client = [s \in Stations |-> NoClient]
    /\ host = [s \in Stations |-> "gone"]
    /\ fwsta = {} /\ denied = {} /\ acl_work = FALSE
    /\ apq = << >> /\ apTodo = [t \in ApThreads |-> << >>]
    /\ reauth = {} /\ kicked = {} /\ overlap = FALSE
    /\ apFuel = [air |-> MaxAir, calls |-> MaxCalls, refused |-> MaxApRefused]

Bound == {s \in Stations : peer[s].st # "unbound"}
Associated(s) == peer[s].st \in {"ASSOCED", "COMPLETED"}

Job(op, s) == [op |-> op, sta |-> s, tx |-> FALSE]
Deletions(S) == LET order == SetToSeq(S) IN [i \in DOMAIN order |-> Job("del", order[i])]
ApAt(t, op) == apTodo[t] # << >> /\ Head(apTodo[t]).op = op
ApIdle(t) == apTodo[t] = << >>
WorkedOn(s) == {t \in ApThreads : \E i \in DOMAIN apTodo[t] : apTodo[t][i].sta = s}

Runs(t, p) == apTodo' = [apTodo EXCEPT ![t] = p]

ApRefused == apFuel.refused > 0 /\ apFuel' = [apFuel EXCEPT !.refused = @ - 1]
ApCall == up /\ ApIdle("host") /\ apFuel.calls > 0 /\ apFuel' = [apFuel EXCEPT !.calls = @ - 1]

(* skw_peer_ctx_transmit and skw_set_state. *)
SetPeer(s, st, on) == peer' = [peer EXCEPT ![s].st = st, ![s].on = on]

(***************************************************************************)
(* Adding and deleting a station, up to and after their commands.          *)
(***************************************************************************)
(* skw_add_station: a peer that exists is only set back; otherwise ADD_STA names the
   context to bind. *)
skw_add_station(t) ==
    /\ ApAt(t, "add")
    /\ LET s == Head(apTodo[t]).sta
       IN \/ /\ peer' = [peer EXCEPT ![s] = [st |-> "AUTHED", on |-> FALSE,
                            deauthed |-> peer[s].st # "unbound" /\ peer[s].deauthed]]
             /\ fwsta' = IF peer[s].st = "unbound" THEN fwsta \cup {s} ELSE fwsta
             /\ reauth' = IF peer[s].st = "unbound" THEN reauth \ {s} ELSE reauth
             /\ UNCHANGED <<host, apFuel>>
          \/ /\ peer[s].st = "unbound" /\ ApRefused
             /\ host' = IF t = "host" THEN [host EXCEPT ![s] = "gone"] ELSE host
             /\ UNCHANGED <<peer, fwsta, reauth>>
    /\ Runs(t, Tail(apTodo[t]))
    /\ UNCHANGED <<sme_external, up, client, denied, acl_work, apq, kicked>>

(* Fault: a station known to be gone is sent a deauthentication all the same. *)
skw_sap_del_sta_loud(t) ==
    /\ ApAt(t, "del")
    /\ LET s == Head(apTodo[t]).sta
       IN IF s \notin Bound
            THEN Runs(t, Tail(apTodo[t])) /\ UNCHANGED <<peer, client>>
            ELSE /\ peer' = [peer EXCEPT ![s] = [st |-> "NONE", on |-> FALSE, deauthed |-> TRUE]]
                 /\ client' = [client EXCEPT ![s] = NoClient]
                 /\ Runs(t, <<[Job("del_cmd", s) EXCEPT !.tx = TRUE]>> \o Tail(apTodo[t]))
    /\ UNCHANGED <<sme_external, up, host, fwsta, denied, acl_work, apq, reauth, kicked, apFuel>>

(* skw_sap_del_sta: the peer stops, the driver's client goes, and a station that is
   known to be gone is not sent a frame. *)
skw_sap_del_sta(t) ==
    /\ ApAt(t, "del")
    /\ LET s == Head(apTodo[t]).sta
       IN IF s \notin Bound
            THEN Runs(t, Tail(apTodo[t])) /\ UNCHANGED <<peer, client>>
            ELSE /\ peer' = [peer EXCEPT ![s] = [st |-> "NONE", on |-> FALSE, deauthed |-> TRUE]]
                 /\ client' = [client EXCEPT ![s] = NoClient]
                 /\ Runs(t, <<[Job("del_cmd", s) EXCEPT !.tx = ~peer[s].deauthed]>>
                                \o Tail(apTodo[t]))
    /\ UNCHANGED <<sme_external, up, host, fwsta, denied, acl_work, apq, reauth, kicked, apFuel>>

(* DEL_STA: the peer is unbound only when the firmware has let it go. *)
skw_cmd_del_sta(t) ==
    /\ ApAt(t, "del_cmd")
    /\ LET s == Head(apTodo[t]).sta
       IN /\ \/ /\ fwsta' = fwsta \ {s}
                /\ peer' = [peer EXCEPT ![s] = Unbound]
                /\ UNCHANGED apFuel
             \/ ApRefused /\ UNCHANGED <<fwsta, peer>>
          /\ kicked' = IF Head(apTodo[t]).tx /\ s \in reauth THEN kicked \cup {s} ELSE kicked
    /\ Runs(t, Tail(apTodo[t]))
    /\ UNCHANGED <<sme_external, up, client, host, denied, acl_work, apq, reauth>>

(***************************************************************************)
(* hostapd's calls.                                                        *)
(***************************************************************************)
skw_start_ap ==
    /\ ~up /\ ApIdle("host")
    /\ up' = TRUE
    /\ UNCHANGED <<sme_external, peer, client, host, fwsta, denied, acl_work, apq, apTodo,
                   apGhosts, apFuel>>

(* Also a deletion of the broadcast address: skw_sap_flush_sta. *)
skw_stop_ap ==
    /\ ApCall
    /\ Runs("host", Deletions(Bound) \o <<Job("stopped", "none")>>)
    /\ host' = [s \in Stations |-> "gone"]
    /\ UNCHANGED <<sme_external, up, peer, client, fwsta, denied, acl_work, apq,
                   reauth, kicked>>

Stopped ==
    /\ ApAt("host", "stopped")
    /\ Runs("host", << >>)
    /\ up' = FALSE /\ denied' = {}
    /\ host' = [s \in Stations |-> "gone"]
    /\ UNCHANGED <<sme_external, peer, client, fwsta, acl_work, apq, reauth, kicked, apFuel>>

(* hostapd adds only what its list lets in; it is the SME or it does not add at all. *)
HostAdds(s) ==
    /\ sme_external /\ s \notin denied /\ host[s] = "gone"
    /\ ApCall
    /\ Runs("host", <<Job("add", s)>>)
    /\ host' = [host EXCEPT ![s] = "auth"]
    /\ UNCHANGED <<sme_external, up, peer, client, fwsta, denied, acl_work, apq, reauth, kicked>>

(* skw_change_station: ASSOCIATED lets it transmit, AUTHORIZED completes it. *)
skw_change_station(s) ==
    /\ \/ /\ sme_external /\ host[s] = "auth"
          /\ host' = [host EXCEPT ![s] = "assoc"]
          /\ IF s \in Bound THEN SetPeer(s, "ASSOCED", TRUE) ELSE UNCHANGED peer
       \/ /\ host[s] \in {"assoc", "stale"} /\ peer[s].st = "ASSOCED"
          /\ SetPeer(s, "COMPLETED", peer[s].on)
          /\ UNCHANGED host
    /\ ApCall
    /\ UNCHANGED <<sme_external, up, client, fwsta, denied, acl_work, apq, apTodo, apGhosts>>

skw_del_station(s) ==
    /\ host[s] # "gone"
    /\ \/ ApCall
       \/ host[s] = "leaving" /\ ApIdle("host") /\ UNCHANGED apFuel
    /\ Runs("host", <<Job("del", s)>>)
    /\ host' = [host EXCEPT ![s] = "gone"]
    /\ UNCHANGED <<sme_external, up, peer, client, fwsta, denied, acl_work, apq, reauth, kicked>>

(* skw_set_mac_acl, with a change of the list of the stations shut out; an empty list
   is freed and nothing is checked. *)
skw_set_mac_acl(s) ==
    /\ ApCall
    /\ denied' = IF s \in denied THEN denied \ {s} ELSE denied \cup {s}
    /\ acl_work' = (acl_work \/ denied' # {})
    /\ host' = IF s \in denied THEN host ELSE [host EXCEPT ![s] = "gone"]
    /\ UNCHANGED <<sme_external, up, peer, client, fwsta, apq, apTodo, reauth, kicked>>

skw_ap_acl_check ==
    /\ acl_work /\ ApIdle("work")
    /\ acl_work' = FALSE
    /\ Runs("work", Deletions(Bound \cap denied))
    /\ UNCHANGED <<sme_external, up, peer, client, host, fwsta, denied, apq, reauth, kicked,
                   apFuel>>

(***************************************************************************)
(* Frames and events.                                                      *)
(***************************************************************************)
(* The stations and the firmware (external). *)
OnAir(k, s) ==
    /\ up /\ apFuel.air > 0 /\ Len(apq) < MaxApQueue
    /\ k = "del_sta" => s \in fwsta
    /\ apFuel' = [apFuel EXCEPT !.air = @ - 1]
    /\ apq' = Append(apq, [kind |-> k, sta |-> s, ack |-> TRUE])
    /\ UNCHANGED <<sme_external, up, peer, client, host, fwsta, denied, acl_work, apTodo,
                   apGhosts>>

(* The firmware reports whether a reply of the driver's SME was acknowledged. *)
TxStatus(s, ack) ==
    /\ client[s].reply # "none" /\ Len(apq) < MaxApQueue
    /\ \A i \in DOMAIN apq : apq[i].sta = s => apq[i].kind # client[s].reply
    /\ apq' = Append(apq, [kind |-> client[s].reply, sta |-> s, ack |-> ack])
    /\ UNCHANGED <<sme_external, up, peer, client, host, fwsta, denied, acl_work, apTodo,
                   apGhosts, apFuel>>

ApTaken(kind, s) ==
    /\ ApIdle("event") /\ apq # << >>
    /\ Head(apq).kind = kind /\ Head(apq).sta = s
    /\ apq' = Tail(apq)

(* The others that count against the limit, in the order of their contexts: a station
   that has one is let in only when it is met before the limit is used up. *)
skw_sta_access_allowed(s) ==
    /\ s \notin denied
    /\ s \in Bound \/ Cardinality(Bound) < MaxAllowed

(* skw_sap_rx_mgmt for AUTH, and skw_mlme_ap_auth_handler. *)
skw_mlme_ap_auth_handler(s) ==
    /\ ApTaken("auth", s)
    /\ IF ~skw_sta_access_allowed(s)
        THEN \* only the firmware is told, whatever the driver knows of the station
             /\ fwsta' = fwsta \ {s}
             /\ UNCHANGED <<peer, client, host, apTodo, reauth>>
        ELSE /\ peer' = IF Associated(s) THEN [peer EXCEPT ![s].deauthed = TRUE] ELSE peer
             /\ reauth' = IF Associated(s) THEN reauth \cup {s} ELSE reauth
             /\ IF sme_external
                THEN /\ host' = IF Associated(s) THEN [host EXCEPT ![s] = "leaving"] ELSE host
                     /\ UNCHANGED <<client, apTodo>>
                ELSE /\ client' = [client EXCEPT ![s].st = "AUTHED"]
                     /\ Runs("event", (IF client[s].st = "none" THEN <<Job("add", s)>> ELSE << >>)
                                        \o <<Job("reply_auth", s)>>)
                     /\ host' = IF host[s] = "assoc" THEN [host EXCEPT ![s] = "stale"] ELSE host
             /\ UNCHANGED fwsta
    /\ UNCHANGED <<sme_external, up, denied, acl_work, kicked, apFuel>>

(* The reply is sent, and its status awaited; a refusal of the station, or of the
   firmware to send it, deletes the station. *)
skw_mlme_ap_reply(kind) ==
    /\ ApAt("event", "reply_" \o kind)
    /\ LET s == Head(apTodo["event"]).sta
       IN \/ /\ client' = IF client[s].st = "none" THEN client
                          ELSE [client EXCEPT ![s].reply = "status_" \o kind]
             /\ Runs("event", << >>) /\ UNCHANGED apFuel
          \/ /\ kind = "auth" /\ ApRefused
             /\ client' = IF client[s].st = "none" THEN client
                          ELSE [client EXCEPT ![s].st = "NONE"]
             /\ Runs("event", <<Job("del", s)>>)
    /\ UNCHANGED <<sme_external, up, peer, host, fwsta, denied, acl_work, apq, reauth, kicked>>

skw_mlme_ap_assoc_handler(s) ==
    /\ ApTaken("assoc", s)
    /\ IF ~sme_external /\ client[s].st \in {"AUTHED", "ASSOCED"}
        THEN Runs("event", <<Job("reply_assoc", s)>>)
        ELSE UNCHANGED apTodo
    /\ UNCHANGED <<sme_external, up, peer, client, host, fwsta, denied, acl_work, reauth,
                   kicked, apFuel>>

skw_mlme_ap_auth_cb(s) ==
    /\ ApTaken("status_auth", s)
    /\ IF client[s].reply # "status_auth" THEN UNCHANGED <<client, apTodo>>
       ELSE IF Head(apq).ack
        THEN /\ client' = [client EXCEPT ![s].reply = "none", ![s].timer = TRUE]
             /\ UNCHANGED apTodo
        ELSE /\ client' = [client EXCEPT ![s].reply = "none", ![s].st = "NONE"]
             /\ Runs("event", <<Job("del", s)>>)
    /\ UNCHANGED <<sme_external, up, peer, host, fwsta, denied, acl_work, reauth, kicked, apFuel>>

(* The station is associated whether or not its peer could be added. *)
skw_mlme_ap_assoc_cb(s) ==
    /\ ApTaken("status_assoc", s)
    /\ IF client[s].reply # "status_assoc" THEN UNCHANGED <<client, apTodo, peer, host, reauth>>
       ELSE IF Head(apq).ack
        THEN /\ client' = [client EXCEPT ![s] = [st |-> "ASSOCED", timer |-> FALSE, reply |-> "none"]]
             /\ IF s \in Bound THEN SetPeer(s, "ASSOCED", TRUE) ELSE UNCHANGED peer
             /\ host' = [host EXCEPT ![s] = "assoc"]
             /\ reauth' = reauth \ {s}
             /\ UNCHANGED apTodo
        ELSE /\ client' = [client EXCEPT ![s].reply = "none", ![s].st = "NONE"]
             /\ Runs("event", <<Job("del", s)>>)
             /\ UNCHANGED <<peer, host, reauth>>
    /\ UNCHANGED <<sme_external, up, fwsta, denied, acl_work, kicked, apFuel>>

(* DEAUTH and DISASSOC: the peer is known to be gone, and hostapd deletes an associated
   station (skw_mlme_ap_rx_mgmt). *)
ApRxDeauth(s) ==
    /\ ApTaken("deauth", s)
    /\ peer' = IF s \in Bound THEN [peer EXCEPT ![s].deauthed = TRUE] ELSE peer
    /\ IF sme_external \/ client[s].st = "ASSOCED"
        THEN /\ host' = IF host[s] = "gone" THEN host ELSE [host EXCEPT ![s] = "leaving"]
             /\ UNCHANGED apTodo
        ELSE /\ IF client[s].st = "AUTHED" THEN Runs("event", <<Job("del", s)>>)
                                           ELSE UNCHANGED apTodo
             /\ UNCHANGED host
    /\ UNCHANGED <<sme_external, up, client, fwsta, denied, acl_work, reauth, kicked,
                   apFuel>>

skw_event_del_sta(s) ==
    /\ ApTaken("del_sta", s)
    /\ host' = IF s \in Bound /\ host[s] # "gone" THEN [host EXCEPT ![s] = "leaving"] ELSE host
    /\ UNCHANGED <<sme_external, up, peer, client, fwsta, denied, acl_work, apTodo, apGhosts,
                   apFuel>>

(* The timer of a client: by the time its event is handled the client may have gone on. *)
skw_mlme_ap_auth_timeout(s) ==
    /\ client[s].timer
    /\ client' = [client EXCEPT ![s].timer = FALSE]
    /\ apq' = IF client[s].st = "ASSOCED" THEN apq
              ELSE Append(apq, [kind |-> "timeout", sta |-> s, ack |-> TRUE])
    /\ UNCHANGED <<sme_external, up, peer, host, fwsta, denied, acl_work, apTodo, apGhosts,
                   apFuel>>

skw_local_ap_auth_timeout(s) ==
    /\ ApTaken("timeout", s)
    /\ apTodo' = [apTodo EXCEPT !["event"] = <<Job("del", s)>>]
    /\ UNCHANGED <<sme_external, up, peer, client, host, fwsta, denied, acl_work, reauth,
                   kicked, apFuel>>

(***************************************************************************)
(* The specification.                                                      *)
(***************************************************************************)
ApStep(t) == skw_add_station(t) \/ skw_sap_del_sta(t) \/ skw_cmd_del_sta(t)
ApReplies == \E k \in {"auth", "assoc"} : skw_mlme_ap_reply(k)

ApEvent ==
    \E s \in Stations :
        \/ skw_mlme_ap_auth_handler(s) \/ skw_mlme_ap_assoc_handler(s)
        \/ skw_mlme_ap_auth_cb(s) \/ skw_mlme_ap_assoc_cb(s)
        \/ ApRxDeauth(s) \/ skw_event_del_sta(s) \/ skw_local_ap_auth_timeout(s)

(* An event that meets another thread's work on its station, or a station that has
   moved on since: one whose peer could not be added or that is shut out, one associated
   when its timeout is handled or its next reply fails, one the firmware is told to forget behind the driver's back. *)
Misfit ==
    LET e == Head(apq)
    IN \/ WorkedOn(e.sta) # {}
       \/ e.kind = "timeout" /\ client[e.sta].st = "ASSOCED"
       \/ e.kind = "status_assoc" /\ (e.sta \notin Bound \/ e.sta \in denied)
       \/ e.kind = "status_assoc" /\ ~e.ack /\ client[e.sta].st = "ASSOCED"
       \/ e.kind = "auth" /\ ~skw_sta_access_allowed(e.sta) /\ e.sta \in fwsta

Overlapping == \E s \in Stations : Cardinality(WorkedOn(s)) > 1

(* The list's work looks for a station that another thread is about to add. *)
Missed == acl_work /\ ~acl_work' /\ \E s \in denied : WorkedOn(s) # {}

ApMoves ==
    \/ \E t \in ApThreads : ApStep(t)
    \/ skw_start_ap \/ skw_stop_ap \/ Stopped \/ skw_ap_acl_check \/ ApReplies
    \/ \E s \in Stations :
          \/ HostAdds(s) \/ skw_change_station(s) \/ skw_del_station(s) \/ skw_set_mac_acl(s)
          \/ skw_mlme_ap_auth_timeout(s)
          \/ \E ack \in BOOLEAN : TxStatus(s, ack)
          \/ \E k \in {"auth", "assoc", "deauth", "del_sta"} : OnAir(k, s)

ApNext ==
    \/ ApMoves /\ overlap' = (overlap \/ Missed \/ Overlapping')
    \/ ApEvent /\ overlap' = (overlap \/ Misfit \/ Overlapping')

(* Threads and work queues run; the stations, hostapd and the firmware owe nothing.
   These are WF of the threads' steps and of skw_ap_acl_check, their guards spelt out. *)
ApFairness ==
    /\ \A t \in ApThreads :
          <>[](~ApIdle(t)) => []<><<apTodo'[t] # apTodo[t]>>_ApVars
    /\ <>[](acl_work /\ ApIdle("work")) => []<><<~acl_work'>>_ApVars

ApSpec == ApInit /\ [][ApNext]_ApVars /\ ApFairness

(***************************************************************************)
(* Properties.                                                             *)
(***************************************************************************)
Settled(s) == ~overlap /\ WorkedOn(s) = {}

(* A station has a peer in the driver exactly when the firmware knows it, whatever was
   refused on either side. *)
ApPeersInStep == \A s \in Stations : Settled(s) => (s \in Bound <=> s \in fwsta)

(* A station that starts over is never thrown out again by the deletion of its old self. *)
ApNoDeauthAfterReauth == kicked = {} \/ overlap

(* With the driver's own SME no more stations have a peer than are allowed. *)
ApLimit == ~sme_external => Cardinality(Bound) <= MaxAllowed

(* hostapd never believes in an association whose peer is gone: whichever of the station,
   the firmware, the list and hostapd ends it, hostapd hears of it or did it.  (With the
   driver's own SME it is not told of a station that starts over and fails.) *)
ApToldGone ==
    \A s \in Stations :
        (host[s] = "assoc" /\ Settled(s))
            => s \in Bound /\ (sme_external \/ client[s].st # "none")

(* A station the list shuts out loses its peer, unless the list or the firmware changes
   its mind. *)
ApDeniedLeaves ==
    \A s \in Stations :
        []<>(s \in Bound \cap denied => overlap \/ apFuel.refused < MaxApRefused)

(* Driver, firmware and hostapd agree on the access point's stations. *)
ApSafe == ApPeersInStep /\ ApNoDeauthAfterReauth /\ ApLimit /\ ApToldGone
=============================================================================
