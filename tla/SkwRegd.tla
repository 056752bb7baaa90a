-------------------------------- MODULE SkwRegd --------------------------------
(***************************************************************************)
(* The regulatory domain of the Wi-Fi driver, which manages its own        *)
(* (skw_regd.c): a country code chooses a domain of the driver's table,    *)
(* the kernel gets it, and the firmware gets the channels it may transmit  *)
(* on as a few runs of channels.  Requests come from private ioctls under  *)
(* the rtnl lock, vendor commands under the wiphy's lock and debugfs under *)
(* none; without the rtnl lock the kernel only queues the new domain.      *)
(* A domain is a sequence of rules [lo, hi, bw, no_ir, power]; a channel   *)
(* is [freq, hw], 2 * HalfWidth wide.                                      *)
(***************************************************************************)
EXTENDS Integers, Sequences, FiniteSets, SequencesExt, FiniteSetsExt

CONSTANTS
    RegChannels,    \* wiphy->bands: the channels, in the order of their bands
    RegDb,          \* skw_regdb: country -> rules
    RegCodes,       \* the codes asked for: countries, unknown ones and "bad"
    HalfWidth,      \* half of 20 MHz
    BandLimit,      \* how near to a rule's ends a frequency of its band is
    MaxRegRules,    \* rules[8] of struct skw_regdom
    MaxRegCalls,    \* bound: requests
    MaxRegFaults    \* bound: refused domains and commands, and crashes of the chip

ASSUME RegAssumption ==
    /\ HalfWidth \in Nat /\ BandLimit \in Nat
    /\ \A a, b \in DOMAIN RegChannels : a < b => RegChannels[a].freq < RegChannels[b].freq /\ RegChannels[a].hw < RegChannels[b].hw
    /\ "00" \in DOMAIN RegDb
    /\ \A c \in DOMAIN RegDb : \A a, b \in DOMAIN RegDb[c] :
        a < b => RegDb[c][a].lo <= RegDb[c][b].lo /\ RegDb[c][a].hi <= RegDb[c][b].hi

VARIABLES
    regd,       \* skw->regd, by the country it is of
    kernelRegd, \* the domain cfg80211 has for the wiphy
    requested,  \* rdev->requested_regd: the domain reg_work has yet to apply, or "none"
    country,    \* skw->country
    fwRegd,     \* what the firmware enforces: [country, rules]
    regCall,    \* caller -> [pc, code, alone]: alone says that nothing happened besides since it began
    regGhost,   \* why the driver and the firmware may differ: "initial", "crossed", "refused", "empty", "rebooted"
    regFuel

RegVars == <<regd, kernelRegd, requested, country, fwRegd, regCall, regGhost, regFuel>>

RegCallers == {"ioctl", "vendor", "debugfs"}
Awaits == [pc |-> "idle", code |-> "", alone |-> TRUE]

(* Probing applies the domain of the initial country to the kernel, not to the firmware. *)
RegInit ==
    /\ regd = "00" /\ kernelRegd = "00" /\ requested = "none" /\ country = "00"
    /\ fwRegd = [country |-> "default", rules |-> <<>>]
    /\ regCall = [c \in RegCallers |-> Awaits] /\ regGhost = {"initial"}
    /\ regFuel = [calls |-> MaxRegCalls, faults |-> MaxRegFaults]

is_skw_valid_reg_code(code) == code # "bad"
is_skw_valid_reg_rule(r) == r.lo > 0 /\ r.hi > r.lo /\ r.bw <= r.hi - r.lo
is_skw_valid_rd(rd) == \A k \in DOMAIN rd : is_skw_valid_reg_rule(rd[k])

Distance(a, b) == IF a < b THEN b - a ELSE a - b
skw_freq_in_rule_band(r, freq) == Distance(freq, r.lo) <= BandLimit \/ Distance(freq, r.hi) <= BandLimit
skw_does_bw_fit_range(r, freq) == freq - HalfWidth >= r.lo /\ freq + HalfWidth <= r.hi

(* skw_freq_reg_info: the first rule the channel fits in, from the first rule of its band on;
   0 for none. *)
skw_freq_reg_info(rd, freq) ==
    LET band == {k \in DOMAIN rd : skw_freq_in_rule_band(rd[k], freq)}
        fit == {k \in DOMAIN rd : skw_does_bw_fit_range(rd[k], freq) /\ \E b \in band : b <= k}
    IN IF fit = {} THEN 0 ELSE Min(fit)

(* Fault: a run of channels ends one channel early. *)
skw_cmd_set_regdom_short(rd) ==
    FoldLeft(LAMBDA st, c :
        LET rr == skw_freq_reg_info(rd, c.freq) IN
        IF rr = 0 \/ rd[rr].no_ir THEN st
        ELSE IF rr # st.last
        THEN [last |-> rr, rules |-> Append(st.rules, [start |-> c.hw, nr |-> 0, power |-> rd[rr].power])]
        ELSE [st EXCEPT !.rules[Len(st.rules)].nr = c.hw - st.rules[Len(st.rules)].start],
        [last |-> 0, rules |-> <<>>], RegChannels).rules

(* skw_cmd_set_regdom: neighbouring channels of one rule become one run; channels without a rule,
   or on which nothing may be sent first, are left out. *)
skw_cmd_set_regdom(rd) ==
    FoldLeft(LAMBDA st, c :
        LET rr == skw_freq_reg_info(rd, c.freq) IN
        IF rr = 0 \/ rd[rr].no_ir THEN st
        ELSE IF rr # st.last
        THEN [last |-> rr, rules |-> Append(st.rules, [start |-> c.hw, nr |-> 1, power |-> rd[rr].power])]
        ELSE [st EXCEPT !.rules[Len(st.rules)].nr = c.hw - st.rules[Len(st.rules)].start + 1],
        [last |-> 0, rules |-> <<>>], RegChannels).rules

(***************************************************************************)
(* A request.                                                              *)
(***************************************************************************)
RegKnown(code) == is_skw_valid_reg_code(code) /\ code \in DOMAIN RegDb /\ is_skw_valid_rd(RegDb[code])
Others(c) == \E d \in RegCallers \ {c} : regCall[d] # Awaits
Crossing(c) == IF Others(c) THEN {"crossed"} ELSE {}
Disturbed(calls) == [c \in RegCallers |-> IF calls[c] = Awaits THEN Awaits ELSE [calls[c] EXCEPT !.alone = FALSE]]
RegBegins(c, code) == [Disturbed(regCall) EXCEPT ![c] = [pc |-> "command", code |-> code, alone |-> ~Others(c)]]

(* __skw_set_wiphy_regd: the kernel refuses, or takes the domain: at once if somebody holds the
   rtnl lock (an ioctl does itself), in its own work otherwise.  Either way it replaces the domain
   that was requested before. *)
WiphyRegd(c, code, accepted) ==
    IF ~accepted THEN UNCHANGED <<kernelRegd, requested>>
    ELSE \/ kernelRegd' = code /\ requested' = "none"
         \/ c # "ioctl" /\ requested' = code /\ UNCHANGED kernelRegd

(* Fault: a domain set at once leaves the one that was queued. *)
WiphyRegd_queued(c, code, accepted) ==
    IF ~accepted THEN UNCHANGED <<kernelRegd, requested>>
    ELSE \/ kernelRegd' = code /\ UNCHANGED requested
         \/ c # "ioctl" /\ requested' = code /\ UNCHANGED kernelRegd

(* reg_process_self_managed_hints of the kernel's reg_work. *)
reg_work ==
    /\ requested # "none" /\ kernelRegd' = requested /\ requested' = "none"
    /\ UNCHANGED <<regd, country, fwRegd, regCall, regGhost, regFuel>>

(* skw_set_regdom up to the command: an unknown country changes nothing; a known one is in force
   in the driver, even if the kernel refuses it. *)
skw_set_regdom(c, code) ==
    /\ regCall[c] = Awaits /\ regFuel.calls > 0
    /\ IF ~RegKnown(code) THEN regFuel' = [regFuel EXCEPT !.calls = @ - 1] /\ UNCHANGED <<regd, kernelRegd, requested, regCall, regGhost>>
       ELSE \E accepted \in BOOLEAN :
            /\ accepted \/ regFuel.faults > 0
            /\ regFuel' = [regFuel EXCEPT !.calls = @ - 1, !.faults = IF accepted THEN @ ELSE @ - 1]
            /\ regd' = code /\ WiphyRegd(c, code, accepted)
            /\ regCall' = IF accepted THEN RegBegins(c, code) ELSE Disturbed(regCall)
            /\ regGhost' = regGhost \union Crossing(c) \union (IF accepted THEN {} ELSE {"refused"})
    /\ UNCHANGED <<country, fwRegd>>

(* The channels are worked out from skw->regd as it is now; a domain without any is not sent, and
   reported as done. *)
SendsNothing(c) ==
    /\ regCall[c].pc = "command" /\ skw_cmd_set_regdom(RegDb[regd]) = <<>>
    /\ regCall' = [regCall EXCEPT ![c] = Awaits]
    /\ regGhost' = regGhost \union {"empty"} \union Crossing(c)
    /\ UNCHANGED <<regd, kernelRegd, requested, country, fwRegd, regFuel>>
SKW_CMD_SET_REGD(c) ==
    /\ regCall[c].pc = "command" /\ skw_cmd_set_regdom(RegDb[regd]) # <<>>
    /\ \E ok \in BOOLEAN :
        /\ ok \/ regFuel.faults > 0
        /\ fwRegd' = IF ok THEN [country |-> regCall[c].code, rules |-> skw_cmd_set_regdom(RegDb[regd])] ELSE fwRegd
        /\ regCall' = [regCall EXCEPT ![c] = IF ok THEN [@ EXCEPT !.pc = "return"] ELSE Awaits]
        /\ regFuel' = IF ok THEN regFuel ELSE [regFuel EXCEPT !.faults = @ - 1]
        /\ regGhost' = (regGhost \union Crossing(c)) \union (IF ok THEN {} ELSE {"refused"})
    /\ UNCHANGED <<regd, kernelRegd, requested, country>>

(* A request that nothing disturbed puts an end to earlier disagreement. *)
RegdomSet(c) ==
    /\ regCall[c].pc = "return" /\ country' = regCall[c].code /\ regCall' = [regCall EXCEPT ![c] = Awaits]
    /\ regGhost' = IF regCall[c].alone THEN {} ELSE regGhost \union {"crossed"}
    /\ UNCHANGED <<regd, kernelRegd, requested, fwRegd, regFuel>>

(* The chip crashes and is recovered: nobody sends the domain again. *)
ChipRestarts ==
    /\ regFuel.faults > 0 /\ regFuel' = [regFuel EXCEPT !.faults = @ - 1]
    /\ fwRegd' = [country |-> "default", rules |-> <<>>] /\ regGhost' = regGhost \union {"rebooted"}
    /\ regCall' = Disturbed(regCall) /\ UNCHANGED <<regd, kernelRegd, requested, country>>

(* The ways in.  The ioctl and the vendor command look at the length of the code first; "bad" is
   also a code of another length. *)
skw_regd_write(code) == skw_set_regdom("debugfs", code)
skw_android_cmd(code) == skw_set_regdom("ioctl", code)
skw_ioctl(code) == code # "bad" /\ skw_set_regdom("ioctl", code)
skw_vendor_set_country(code) == code # "bad" /\ skw_set_regdom("vendor", code)

RegNext ==
    \/ \E code \in RegCodes :
        \/ skw_regd_write(code) \/ skw_android_cmd(code)
        \/ skw_ioctl(code) \/ skw_vendor_set_country(code)
    \/ \E c \in RegCallers :
        \/ SendsNothing(c) \/ SKW_CMD_SET_REGD(c) \/ RegdomSet(c)
    \/ reg_work \/ ChipRestarts

RegSpec == RegInit /\ [][RegNext]_RegVars

(***************************************************************************)
(* Properties.                                                             *)
(***************************************************************************)
RegAtRest == \A c \in RegCallers : regCall[c] = Awaits
OnAir(rules) ==
    {k \in DOMAIN RegChannels : \E r \in ToSet(rules) :
        RegChannels[k].hw \in r.start .. r.start + r.nr - 1}
Power(rules, k) == {r.power : r \in {q \in ToSet(rules) : RegChannels[k].hw \in q.start .. q.start + q.nr - 1}}
Permitted(rd) ==
    {k \in DOMAIN RegChannels : \E r \in DOMAIN rd : skw_does_bw_fit_range(rd[r], RegChannels[k].freq)
        /\ ~rd[r].no_ir /\ \A q \in 1 .. r - 1 : ~skw_does_bw_fit_range(rd[q], RegChannels[k].freq)}

(* After a request that went through, however many came before it, failed or were unknown, the
   driver, the kernel and the firmware have the domain of the same country, the kernel at the
   latest when its queued work, if there is any, has run.  Excluded: requests
   that overlap (debugfs takes no lock), a request that failed after the driver had taken the
   domain, a domain without channels, and a restart of the chip, until the next request. *)
RegdInForce ==
    RegAtRest /\ regGhost = {} =>
        /\ regd = country /\ fwRegd.country = country
        /\ (IF requested = "none" THEN kernelRegd ELSE requested) = country
        /\ fwRegd.rules = skw_cmd_set_regdom(RegDb[country])

(* The runs of channels the firmware has been given are exactly the channels the country's
   domain permits, each with the power of its own rule, and there are no more of them than the
   message holds.  Excluded: requests that overlap. *)
RegdCovers ==
    fwRegd.rules # <<>> /\ "crossed" \notin regGhost =>
        LET rd == RegDb[fwRegd.country]
            rules == fwRegd.rules
        IN /\ OnAir(rules) = Permitted(rd) /\ Len(rules) <= MaxRegRules
           /\ \A k \in OnAir(rules) :
                Power(rules, k) = {rd[skw_freq_reg_info(rd, RegChannels[k].freq)].power}

(* Driver, kernel and firmware obey one country's domain, the firmware channel by channel. *)
RegdSafe == RegdInForce /\ RegdCovers
================================================================================
