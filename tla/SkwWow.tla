-------------------------------- MODULE SkwWow ---------------------------------
(***************************************************************************)
(* What may wake the host over Wi-Fi.  Two users set the firmware's rules: *)
(* cfg80211, with patterns under a mask (skw_wow_enable), and a private    *)
(* ioctl, with a text that lists what not to wake for                      *)
(* (skw_wow_filter_set).  Both encode a pattern into a rule of bounded     *)
(* size: segments of a header and consecutive bytes.                       *)
(* A byte of a pattern stands for its own place in it.                     *)
(***************************************************************************)
EXTENDS Integers, Sequences, FiniteSets, SequencesExt

CONSTANTS
    Masked,         \* cfg80211's requests: sequences of patterns [offset, mask], mask a sequence of BOOLEAN
    Texts,          \* the texts: sequences of patterns, sequences of parts [offset, diff, len]
    Header,         \* sizeof(struct skw_pkt_pattern)
    RuleSize,       \* the bytes of a rule
    EthDataLen,     \* the largest offset a text may name
    SKW_MAX_WOW_RULE_NUM,
    MaxWowCalls,    \* bound: requests
    MaxWowRefused   \* bound: refused commands and restarts of the chip

(* The parser of texts takes one pattern more than its message has room for: such texts are left
   out. *)
ASSUME WowAssumption ==
    /\ Header \in Nat \ {0} /\ RuleSize > Header
    /\ \A t \in Texts : Len(t) <= SKW_MAX_WOW_RULE_NUM

VARIABLES
    fwWow,      \* the firmware's rules: [by, rules], by "none" when waking is off
    listed,     \* skw_wow_flted: the text shown, <<>> after "disable" and at first
    wakeup,     \* device_set_wakeup_enable
    asked,      \* what the last successful request asked for
    wowFuel

WowVars == <<fwWow, listed, wakeup, asked, wowFuel>>

NoWow == [by |-> "none", rules |-> <<>>]
WowInit ==
    /\ fwWow = NoWow /\ listed = <<>> /\ wakeup = FALSE /\ asked = [by |-> "none", what |-> <<>>]
    /\ wowFuel = [calls |-> MaxWowCalls, refused |-> MaxWowRefused]

SAME == 0
DIFF == 1
PAT_TYPE_ETH == 0
Segment(op, type, offset, bytes) == [op |-> op, type_offset |-> type, offset |-> offset, bytes |-> bytes]

(* Fault: a byte that does not matter does not move the next segment. *)
MaskedRule_sticky(p) ==
    LET Step(st, j) ==
            IF st.full THEN st
            ELSE IF ~p.mask[j] THEN [st EXCEPT !.start = FALSE]
            ELSE IF ~st.start /\ st.vi + Header >= RuleSize THEN [st EXCEPT !.full = TRUE]
            ELSE LET segs == IF st.start THEN st.segs
                             ELSE Append(st.segs, Segment(SAME, PAT_TYPE_ETH, p.offset + st.gap, <<>>))
                     vi == st.vi + 1 + IF st.start THEN 0 ELSE Header
                 IN [vi |-> vi, start |-> TRUE, gap |-> st.gap + 1, full |-> vi >= RuleSize,
                     segs |-> [segs EXCEPT ![Len(segs)].bytes = Append(@, j)]]
    IN FoldLeft(Step, [vi |-> 0, start |-> FALSE, gap |-> 0, full |-> FALSE, segs |-> <<>>],
                [j \in DOMAIN p.mask |-> j]).segs

(* The loop of skw_wow_enable over one pattern: a run of bytes that matter is a segment; a rule
   that is full ends where it is. *)
MaskedRule(p) ==
    LET Step(st, j) ==
            IF st.full THEN st
            ELSE IF ~p.mask[j] THEN [st EXCEPT !.start = FALSE, !.gap = @ + 1]
            ELSE IF ~st.start /\ st.vi + Header >= RuleSize THEN [st EXCEPT !.full = TRUE]
            ELSE LET segs == IF st.start THEN st.segs
                             ELSE Append(st.segs, Segment(SAME, PAT_TYPE_ETH, p.offset + st.gap, <<>>))
                     vi == st.vi + 1 + IF st.start THEN 0 ELSE Header
                 IN [vi |-> vi, start |-> TRUE, gap |-> st.gap + 1, full |-> vi >= RuleSize,
                     segs |-> [segs EXCEPT ![Len(segs)].bytes = Append(@, j)]]
    IN FoldLeft(Step, [vi |-> 0, start |-> FALSE, gap |-> 0, full |-> FALSE, segs |-> <<>>],
                [j \in DOMAIN p.mask |-> j]).segs

(***************************************************************************)
(* The text of the private ioctl.                                          *)
(***************************************************************************)
SizeOf(pattern) == FoldLeft(LAMBDA n, part : n + Header + part.len, 0, pattern)

(* A pattern parses if its offsets are in range and it leaves room in its rule.  One that fills
   the rule is taken as too long when it is the last. *)
PatternFits(pattern, last) ==
    /\ \A k \in DOMAIN pattern : pattern[k].offset <= EthDataLen
    /\ SizeOf(pattern) < RuleSize \/ (SizeOf(pattern) = RuleSize /\ ~last)

(* The text has a pattern, and each of them parses. *)
Parses(text) ==
    /\ text # <<>>
    /\ \A k \in DOMAIN text : PatternFits(text[k], k = Len(text))

(* The rule of a pattern: the place of a part is counted from where it is in the text. "!" is
   written into the field that says where an offset counts from. *)
TextRule(pattern) ==
    [k \in DOMAIN pattern |->
        Segment(PAT_TYPE_ETH, IF pattern[k].diff THEN DIFF ELSE 0, pattern[k].offset, [b \in 1 .. pattern[k].len |-> <<k, b>>])]

(***************************************************************************)
(* Requests.                                                               *)
(***************************************************************************)
(* SKW_CMD_SET_SPD_ACTION, with what to do when the firmware accepts it. *)
Sends(new, Accepted) ==
    /\ wowFuel.calls > 0
    /\ \/ fwWow' = new /\ Accepted /\ wowFuel' = [wowFuel EXCEPT !.calls = @ - 1]
       \/ /\ wowFuel.refused > 0 /\ wowFuel' = [wowFuel EXCEPT !.calls = @ - 1, !.refused = @ - 1]
          /\ UNCHANGED <<fwWow, listed, asked>>

(* skw_set_wakeup: the device is marked whatever the firmware says. *)
skw_wow_enable(patterns) ==
    /\ Sends([by |-> "cfg80211", rules |-> [i \in DOMAIN patterns |-> MaskedRule(patterns[i])]],
             asked' = [by |-> "cfg80211", what |-> patterns] /\ UNCHANGED listed)
    /\ wakeup' = TRUE
(* wow->any: every frame wakes the host. *)
EnableAny ==
    /\ Sends([by |-> "any", rules |-> <<>>], asked' = [by |-> "cfg80211", what |-> <<>>] /\ UNCHANGED listed)
    /\ wakeup' = TRUE
skw_wow_disable ==
    /\ Sends(NoWow, asked' = [by |-> "cfg80211", what |-> <<>>] /\ UNCHANGED listed)
    /\ wakeup' = FALSE

(* skw_wow_filter_set("enable,..."): a text that does not parse changes nothing. *)
skw_wow_filter_set(text) ==
    /\ IF Parses(text)
       THEN Sends([by |-> "ioctl", rules |-> [k \in DOMAIN text |-> TextRule(text[k])]],
                  asked' = [by |-> "ioctl", what |-> text] /\ listed' = text)
       ELSE wowFuel.calls > 0 /\ wowFuel' = [wowFuel EXCEPT !.calls = @ - 1] /\ UNCHANGED <<fwWow, listed, asked>>
    /\ UNCHANGED wakeup
(* skw_wow_filter_set("disable") *)
FilterDisabled ==
    /\ Sends(NoWow, asked' = [by |-> "ioctl", what |-> <<>>] /\ listed' = <<>>)
    /\ UNCHANGED wakeup

(* The chip crashes and comes back without rules. *)
WowLost ==
    /\ wowFuel.refused > 0 /\ wowFuel' = [wowFuel EXCEPT !.refused = @ - 1]
    /\ fwWow' = NoWow /\ asked' = [by |-> "none", what |-> <<>>] /\ UNCHANGED <<listed, wakeup>>

WowNext ==
    \/ \E patterns \in Masked : skw_wow_enable(patterns)
    \/ \E t \in Texts : skw_wow_filter_set(t)
    \/ EnableAny \/ skw_wow_disable \/ FilterDisabled \/ WowLost

WowSpec == WowInit /\ [][WowNext]_WowVars

(***************************************************************************)
(* Properties.                                                             *)
(***************************************************************************)
Matters(p) == {<<p.offset + j - 1, j>> : j \in {k \in DOMAIN p.mask : p.mask[k]}}
Compared(segs) == UNION {{<<segs[s].offset + k - 1, segs[s].bytes[k]>> : k \in DOMAIN segs[s].bytes} : s \in DOMAIN segs}
Runs(p) == {j \in DOMAIN p.mask : p.mask[j] /\ (j = 1 \/ ~p.mask[j - 1])}
Needed(p) == Cardinality(Matters(p)) + Header * Cardinality(Runs(p))

(* The rule the firmware gets for a masked pattern compares exactly the bytes that matter, each at
   its own place in the frame; one that is too long for a rule is cut, so that it compares the
   first of them, and never overruns the rule. *)
WowExact ==
    asked.by = "cfg80211" => \A i \in DOMAIN asked.what :
        LET p == asked.what[i]
            got == Compared(fwWow.rules[i])
        IN /\ got \subseteq Matters(p)
           /\ Needed(p) <= RuleSize => got = Matters(p)
           /\ \A a \in Matters(p) \ got, b \in got : b[1] < a[1]
           /\ Cardinality(got) + Header * Len(fwWow.rules[i]) <= RuleSize

(* The text that "list" shows is the filter the firmware has, over failed and malformed requests,
   unless cfg80211 changed the rules or the chip restarted since.  A filter comes from a text with
   room for every byte of it in its rule. *)
WowListTrue ==
    asked.by = "ioctl" =>
        /\ listed = asked.what
        /\ fwWow.rules = [k \in DOMAIN listed |-> TextRule(listed[k])]
        /\ \A k \in DOMAIN listed : SizeOf(listed[k]) <= RuleSize

(* The chip wakes the host for what was asked of it, and the list shows it. *)
WowSafe == WowExact /\ WowListTrue
================================================================================
