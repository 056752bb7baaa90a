------------------------------- MODULE SkwMbssid -------------------------------
(***************************************************************************)
(* A beacon that announces several networks (skw_mbssid.c): the networks   *)
(* that do not transmit one of their own are described by profiles inside  *)
(* it, and the driver makes for each one the address and the elements of   *)
(* the beacon it would have sent, and reports it to cfg80211.              *)
(* An element is [id, sub, from]: sub is the extension of an "ext" element *)
(* and the owner of a "vendor" one, from tells the beacon's elements from  *)
(* a profile's.  A Multiple BSSID element also has max and profiles, the   *)
(* index element of a profile index, a non-inheritance element ids and     *)
(* exts.  A profile that starts without a capability element continues the *)
(* last one of the Multiple BSSID element before.  Lengths are counted in  *)
(* elements.                                                               *)
(***************************************************************************)
EXTENDS Integers, Sequences, FiniteSets, SequencesExt, FiniteSetsExt

CONSTANTS
    ScanBeacons,    \* the beacons received: [bssid, ies]
    MaxInformFails  \* bound: reports cfg80211 cannot store

ASSUME BeaconsAssumption == \A b \in ScanBeacons : b.bssid \in Nat /\ Len(b.ies) > 0

VARIABLES
    beacon,     \* the beacon being parsed
    elem, sub,  \* the Multiple BSSID element and the profile of it the parser is at
    seen,       \* the reports made: [bssid, index, ies]
    informFuel, \* reports that may still fail
    missed      \* a report failed

MbssidVars == <<beacon, elem, sub, seen, informFuel, missed>>

MbssidInit ==
    /\ beacon \in ScanBeacons /\ elem = 1 /\ sub = 1 /\ seen = <<>>
    /\ informFuel = MaxInformFails /\ missed = FALSE

NoElem == [id |-> "none"]
FirstOf(ies, P(_)) == LET at == {k \in DOMAIN ies : P(ies[k])} IN IF at = {} THEN 0 ELSE Min(at)
cfg80211_find_ie(id, ies) == FirstOf(ies, LAMBDA e : e.id = id)

(* skw_find_elem compares an element's length with match_offset - 2 + match_len in unsigned
   arithmetic: with an offset of 0 the sum wraps, and no element is long enough.  Every width
   beyond 8 bits gives the same answers. *)
Width == 16
MaxDatalen == 255
Matchable(match_len, match_offset) == (match_offset - 2 + match_len) % 2^Width <= MaxDatalen

skw_find_elem(id, ies, match, match_len, match_offset) ==
    IF ~Matchable(match_len, match_offset) THEN 0
    ELSE FirstOf(ies, LAMBDA e : e.id = id /\ (match_len = 0 \/ e.sub = match))

(* skw_get_profile_continuation: the first profile of the next Multiple BSSID element, if the
   current one is the last of its own and that one has no capability element. *)
skw_get_profile_continuation(ies, k, s) ==
    LET rest == SubSeq(ies, k + 1, Len(ies))
        n == skw_find_elem("mbssid", rest, "", 0, 0)
    IN IF n = 0 \/ s < Len(ies[k].profiles) THEN <<>>
       ELSE LET next == Head(rest[n].profiles) IN IF next # <<>> /\ next[1].id = "cap" THEN <<>> ELSE next

(* skw_merge_profile asks for the continuation of the same profile again and again, until the copy
   is full. *)
skw_merge_profile(ies, k, s) ==
    LET p == ies[k].profiles[s]
        next == skw_get_profile_continuation(ies, k, s)
        room == Len(ies)
    IN IF next = <<>> THEN p
       ELSE p \o FoldLeft(LAMBDA a, n : a \o next, <<>>, [n \in 1 .. room \div Len(next) |-> n])

(* skw_gen_new_bssid: the low max_bssid bits of the address are counted up by the index. *)
skw_gen_new_bssid(bssid, max_bssid, mbssid_index) ==
    LET size == 2^max_bssid IN (bssid - (bssid % size)) + (((bssid % size) + mbssid_index) % size)

is_skw_element_inherited(e, non_inherit) ==
    /\ e.id # "mbssid"
    /\ non_inherit # NoElem => IF e.id = "ext" THEN e.sub \notin non_inherit.exts ELSE e.id \notin non_inherit.ids

AfterSsid(ies) == SubSeq(ies, cfg80211_find_ie("ssid", ies) + 1, Len(ies))

(* Fault: an element of the profile that replaced one is not marked, and is copied again. *)
skw_gen_new_ie_unmarked(ies, profile) ==
    LET ssid == cfg80211_find_ie("ssid", profile)
        Step(st, old) ==
            LET t == cfg80211_find_ie(old.id, st.copy)
            IN IF t = 0 THEN (IF old.id = "mbssid" THEN st ELSE [st EXCEPT !.out = Append(@, old)])
               ELSE [st EXCEPT !.out = Append(@, st.copy[t])]
        merged == FoldLeft(Step, [out |-> IF ssid = 0 THEN <<>> ELSE <<profile[ssid]>>, copy |-> profile], AfterSsid(ies))
    IN merged.out \o SelectSeq(merged.copy, LAMBDA e : e.id \notin {"cap", "ssid"})

(* skw_gen_new_ie: the profile's SSID, then the beacon's elements, each replaced by the profile's
   element of the same kind if there is one, then what else the profile has.  An element that was
   used is marked by renaming it. *)
skw_gen_new_ie(ies, profile) ==
    LET ssid == cfg80211_find_ie("ssid", profile)
        n == skw_find_elem("ext", profile, "non_inheritance", 1, 0)
        non_inherit == IF n = 0 THEN NoElem ELSE profile[n]
        Step(st, old) ==
            LET t == IF old.id = "ext" THEN skw_find_elem("ext", st.copy, old.sub, 1, 2)
                     ELSE cfg80211_find_ie(old.id, st.copy)
            IN IF t = 0
               THEN IF is_skw_element_inherited(old, non_inherit) THEN [st EXCEPT !.out = Append(@, old)] ELSE st
               ELSE IF old.id = "vendor" /\ old.sub # st.copy[t].sub
               THEN [st EXCEPT !.out = Append(@, old)]
               ELSE [out |-> Append(st.out, st.copy[t]), copy |-> [st.copy EXCEPT ![t].id = "ssid"]]
        merged == FoldLeft(Step, [out |-> IF ssid = 0 THEN <<>> ELSE <<profile[ssid]>>, copy |-> profile], AfterSsid(ies))
    IN merged.out \o SelectSeq(merged.copy, LAMBDA e : e.id \notin {"cap", "ssid"})

(***************************************************************************)
(* skw_parse_mbssid_data, one profile a step.                              *)
(***************************************************************************)
Parsing == elem <= Len(beacon.ies)
AtProfile == Parsing /\ beacon.ies[elem].id = "mbssid" /\ sub <= Len(beacon.ies[elem].profiles)

NextElement ==
    /\ Parsing /\ ~AtProfile
    /\ elem' = elem + 1 /\ sub' = 1 /\ UNCHANGED <<beacon, seen, informFuel, missed>>

Index(profile) ==
    LET k == cfg80211_find_ie("index", profile) IN IF k = 0 THEN 0 ELSE profile[k].index
Starts(p) == p # <<>> /\ p[1].id = "cap"

Acceptable(index) == index \in 1 .. 46

(* A profile without a capability element, or without a valid index, is not a network. *)
SkipsProfile ==
    /\ AtProfile
    /\ ~Starts(beacon.ies[elem].profiles[sub]) \/ ~Acceptable(Index(skw_merge_profile(beacon.ies, elem, sub)))
    /\ sub' = sub + 1 /\ UNCHANGED <<beacon, elem, seen, informFuel, missed>>

Report(b, k, s) ==
    LET profile == skw_merge_profile(b.ies, k, s) IN
    [bssid |-> skw_gen_new_bssid(b.bssid, b.ies[k].max, Index(profile)), index |-> Index(profile),
     ies |-> skw_gen_new_ie(b.ies, profile)]

Reportable ==
    /\ AtProfile /\ Starts(beacon.ies[elem].profiles[sub])
    /\ Acceptable(Index(skw_merge_profile(beacon.ies, elem, sub)))
cfg80211_inform_bss ==
    /\ Reportable /\ seen' = Append(seen, Report(beacon, elem, sub)) /\ sub' = sub + 1
    /\ UNCHANGED <<beacon, elem, informFuel, missed>>
(* A report that cannot be stored ends this Multiple BSSID element, not the parsing. *)
InformFails ==
    /\ Reportable /\ informFuel > 0 /\ informFuel' = informFuel - 1 /\ missed' = TRUE
    /\ elem' = elem + 1 /\ sub' = 1 /\ UNCHANGED <<beacon, seen>>

MbssidNext == NextElement \/ SkipsProfile \/ cfg80211_inform_bss \/ InformFails

MbssidSpec == MbssidInit /\ [][MbssidNext]_MbssidVars

(***************************************************************************)
(* What the networks of a beacon are.                                      *)
(***************************************************************************)
Kind(e) == <<e.id, e.sub>>
Split == \E k \in DOMAIN beacon.ies : beacon.ies[k].id = "mbssid" /\ ~Starts(beacon.ies[k].profiles[1])
Profiles == UNION {ToSet(beacon.ies[k].profiles) : k \in {j \in DOMAIN beacon.ies : beacon.ies[j].id = "mbssid"}}
Sizes == {beacon.ies[k].max : k \in {j \in DOMAIN beacon.ies : beacon.ies[j].id = "mbssid"}}
Vendors(p) == {k \in DOMAIN p : p[k].id = "vendor"}
(* Profiles the parser is meant for: one vendor element at most, and no exception from what is
   inherited. *)
Plain(p) == Cardinality(Vendors(p)) <= 1 /\ \A k \in DOMAIN p : p[k].sub # "non_inheritance"

Own(p) == {e \in ToSet(p) : e.id # "cap"}
Inherited(p) ==
    {e \in ToSet(beacon.ies) : e.id \notin {"ssid", "mbssid"} /\ \A q \in Own(p) : Kind(q) # Kind(e)}
Network(p) == Own(p) \union Inherited(p)

(* Every network the beacon describes is reported, with its own elements, those of the beacon it
   does not replace and no element twice.  Excluded: profiles split over two Multiple BSSID
   elements, which are reported by their first part only, and those with exceptions or with
   several vendor elements. *)
MbssidComplete ==
    ~Parsing /\ ~missed /\ ~Split =>
        \A p \in Profiles : Acceptable(Index(p)) /\ Plain(p) =>
            \E r \in ToSet(seen) : r.index = Index(p) /\ ToSet(r.ies) = Network(p) /\ Len(r.ies) = Cardinality(Network(p))

(* The networks have addresses of their own, in the block of 2^max addresses the transmitter's is
   in, if their indices are within that block. *)
MbssidDistinct ==
    \A j, k \in DOMAIN seen :
        \A n \in Sizes : Cardinality(Sizes) = 1 /\ seen[j].index < 2^n /\ seen[k].index < 2^n =>
            /\ seen[j].bssid # beacon.bssid
            /\ seen[j].bssid \div 2^n = beacon.bssid \div 2^n
            /\ seen[j].index # seen[k].index => seen[j].bssid # seen[k].bssid

(* The networks of a beacon are reported completely and under addresses of their own. *)
MbssidExact == MbssidComplete /\ MbssidDistinct
================================================================================
