----------------------------- MODULE MCSkwTables ------------------------------
(***************************************************************************)
(* The tables and translations of the drivers: keys and packet numbers,    *)
(* the fragment table, the firmware image and its download, the services'  *)
(* devices, multiple-BSSID beacons, regulatory domains and wake-up         *)
(* patterns, and the front panel with its service.                         *)
(*                                                                         *)
(* These components share no state that either of them models, so they are *)
(* checked as a sum: a behaviour is one of one component, chosen at the    *)
(* start, and the variables of the others keep the first values of one of  *)
(* their behaviours.  An invariant or a property of a component holds of   *)
(* the sum exactly if it holds of the component's own specification.       *)
(***************************************************************************)
EXTENDS SkwKeys, SkwFrag, SkwImage, SkwBind, SkwMbssid, SkwRegd, SkwWow,
        FrontPanel

\* What the sender of fragments sends, by how many fragments and to whom, and its networks.
SentMsdus ==
    <<[of |-> 3, dest |-> "all"], [of |-> 2, dest |-> "peer"],
      [of |-> 2, dest |-> "else"], [of |-> 1, dest |-> "own"]>>
SomeNetworks ==
    {[cipher |-> "open", ap |-> FALSE], [cipher |-> "mixed", ap |-> TRUE],
     [cipher |-> "ccmp", ap |-> TRUE]}

\* Firmware directories: which files have their names, which their fallback names, the image
\* with its markers (all there; no head word before them; no NV section; NV before the head),
\* and an NV file that is absent, fits, fills its place or is too long.
GoodIram ==
    <<"x", "kees", "0616", "@iram", "@dram", "m", "TAIL0", "TAIL1", "TSVN", "n", "n", "DEVN", "c">>
BothFiles == {"dram", "iram"}
FirmwareDir(n, f, i, v) == [named |-> n, fallback |-> f, iram |-> i, nv |-> v]
FirmwareDirs ==
    {FirmwareDir(BothFiles, {}, GoodIram, v) : v \in {<<>>, <<"v", "w">>, <<"v", "w", "u">>}}
    \union {FirmwareDir({"dram"}, BothFiles, GoodIram, <<"v">>), FirmwareDir({"dram"}, {"dram"}, GoodIram, <<>>)}
    \union {FirmwareDir(BothFiles, {}, i, <<"v">>) :
        i \in {<<"kees", "0616", "@iram", "@dram", "TAIL0", "TAIL1", "c">>,
               <<"x", "kees", "0616", "@iram", "@dram", "TSVN", "n", "DEVN", "c">>,
               <<"TSVN", "n", "DEVN", "kees", "0616", "@iram", "@dram", "TAIL0", "TAIL1", "c">>}}
FirstDir == CHOOSE d \in FirmwareDirs : TRUE
DramWords == <<"d1", "d2", "d3">>

\* Beacons: one multiple-BSSID element of two profiles, with every choice of what the
\* transmitting and the first other network carry; and two such elements, the second with a
\* plain profile, one that is continued, or one that lists what it does not inherit.
Elem(i, s, f) == [id |-> i, sub |-> s, from |-> f]
Ssid(f) == Elem("ssid", "", f)
Cap == Elem("cap", "", "p")
IndexElem(n) == [id |-> "index", sub |-> "", from |-> "p", index |-> n]
BeaconKinds == <<<<"ht", "">>, <<"ext", "he">>, <<"vendor", "A">>, <<"vendor", "B">>, <<"rsn", "">>>>
Carried(kinds, f) ==
    LET here == SelectSeq(BeaconKinds, LAMBDA k : k \in kinds)
    IN [i \in DOMAIN here |-> Elem(here[i][1], here[i][2], f)]
Profile(n, kinds) == <<Cap, Ssid("p"), IndexElem(n)>> \o Carried(kinds, "p")
MbssidElem(n, ps) == [id |-> "mbssid", sub |-> "", from |-> "b", max |-> n, profiles |-> ps]
NonInherit == [id |-> "ext", sub |-> "non_inheritance", from |-> "p", ids |-> {"ht"}, exts |-> {}]
SomeBeacons ==
    {[bssid |-> b,
      ies |-> <<Ssid("b")>> \o Carried(ks, "b") \o <<MbssidElem(n, <<Profile(1, ps), Profile(i, {})>>)>>] :
        b \in {4, 7}, n \in {1, 2}, i \in {0, 2, 3},
        ks \in SUBSET {BeaconKinds[k] : k \in 1 .. 4}, ps \in SUBSET {BeaconKinds[k] : k \in 1 .. 5}}
    \union
    {[bssid |-> 5,
      ies |-> <<Ssid("b"), MbssidElem(2, <<Profile(1, {})>>), Elem("ht", "", "b"), MbssidElem(2, <<q>>)>>] :
        q \in {Profile(3, {<<"ht", "">>}), <<IndexElem(1)>>, <<Cap, Ssid("p"), IndexElem(2), NonInherit>>}}
FirstBeacon == CHOOSE b \in SomeBeacons : TRUE

\* Channels of two bands, and domains whose rules overlap, touch, span a gap, or fit no channel.
SomeChannels ==
    <<[freq |-> 10, hw |-> 1], [freq |-> 11, hw |-> 2], [freq |-> 12, hw |-> 3], [freq |-> 13, hw |-> 4],
      [freq |-> 40, hw |-> 36], [freq |-> 44, hw |-> 40], [freq |-> 48, hw |-> 44], [freq |-> 60, hw |-> 100]>>
RegRule(l, h, b, n, p) == [lo |-> l, hi |-> h, bw |-> b, no_ir |-> n, power |-> p]
SomeDb == [c \in {"00", "US", "JP", "QQ", "EE"} |->
    CASE c = "00" -> <<RegRule(8, 14, 4, FALSE, 1), RegRule(12, 16, 4, TRUE, 1), RegRule(38, 50, 8, TRUE, 1)>>
      [] c = "US" -> <<RegRule(8, 15, 4, FALSE, 3), RegRule(38, 46, 8, FALSE, 1),
                       RegRule(46, 50, 4, FALSE, 2), RegRule(58, 62, 4, FALSE, 4)>>
      [] c = "JP" -> <<RegRule(8, 13, 4, FALSE, 2), RegRule(11, 15, 4, FALSE, 1), RegRule(42, 62, 8, FALSE, 1)>>
      [] c = "QQ" -> <<RegRule(8, 9, 4, FALSE, 2)>>
      [] c = "EE" -> <<RegRule(70, 90, 4, FALSE, 2)>>]
SomeCodes == {"00", "US", "JP", "QQ", "EE", "bad", "ZZ"}

\* Patterns of one and two pieces under every mask, and filters of up to two texts that fit,
\* fill or overrun a rule.
Pattern(n) == {[offset |-> 3, mask |-> m] : m \in [1 .. n -> BOOLEAN]}
Patterns == {<<p>> : p \in Pattern(6)} \union {<<p, q>> : p \in Pattern(2), q \in Pattern(1)}
Part(o, d, n) == [offset |-> o, diff |-> d, len |-> n]
SomeFilters ==
    {<<Part(0, FALSE, n)>> : n \in {1, 5, 6}} \union {<<Part(9, FALSE, 1)>>}
    \union {<<Part(2, FALSE, 1), Part(4, TRUE, 1)>>, <<Part(2, FALSE, 2), Part(4, FALSE, 1)>>,
            <<Part(2, FALSE, 2), Part(4, FALSE, 2)>>}
Filters == UNION {[1 .. n -> SomeFilters] : n \in {0, 1, 2}}

\* A panel of two digits, and two times of day.
PanelGlyphs == {" ", "0", "1"}
PanelMap == [g \in PanelGlyphs |-> CASE g = " " -> 0 [] g = "0" -> 1 [] g = "1" -> 2]
PanelTimes == {<<"0", "0">>, <<"0", "1">>}

VARIABLE side  \* the component that takes the steps

vars == <<KeyVars, FragVars, ImageVars, BindVars, MbssidVars, RegVars, WowVars,
          PanelVars, side>>

Init ==
    /\ side \in {"keys", "frag", "image", "bind", "mbssid", "regd", "wow",
                 "panel"}
    /\ KeyInit
    /\ FragInit /\ (side # "frag" => network.cipher = "open")
    /\ ImageInit /\ (side # "image" => files = FirstDir /\ ~dt.present /\ ~busDev)
    /\ BindInit /\ (side # "bind" => cp_ver = "V10")
    /\ MbssidInit /\ (side # "mbssid" => beacon = FirstBeacon)
    /\ RegInit
    /\ WowInit
    /\ PanelInit

Next ==
    \/ /\ side = "keys" /\ KeyNext
       /\ UNCHANGED <<FragVars, ImageVars, BindVars, MbssidVars, RegVars,
                      WowVars, PanelVars, side>>
    \/ /\ side = "frag" /\ FragNext
       /\ UNCHANGED <<KeyVars, ImageVars, BindVars, MbssidVars, RegVars,
                      WowVars, PanelVars, side>>
    \/ /\ side = "image" /\ ImageNext
       /\ UNCHANGED <<KeyVars, FragVars, BindVars, MbssidVars, RegVars,
                      WowVars, PanelVars, side>>
    \/ /\ side = "bind" /\ BindNext
       /\ UNCHANGED <<KeyVars, FragVars, ImageVars, MbssidVars, RegVars,
                      WowVars, PanelVars, side>>
    \/ /\ side = "mbssid" /\ MbssidNext
       /\ UNCHANGED <<KeyVars, FragVars, ImageVars, BindVars, RegVars, WowVars,
                      PanelVars, side>>
    \/ /\ side = "regd" /\ RegNext
       /\ UNCHANGED <<KeyVars, FragVars, ImageVars, BindVars, MbssidVars,
                      WowVars, PanelVars, side>>
    \/ /\ side = "wow" /\ WowNext
       /\ UNCHANGED <<KeyVars, FragVars, ImageVars, BindVars, MbssidVars,
                      RegVars, PanelVars, side>>
    \/ /\ side = "panel" /\ PanelNext
       /\ UNCHANGED <<KeyVars, FragVars, ImageVars, BindVars, MbssidVars,
                      RegVars, WowVars, side>>

Spec == Init /\ [][Next]_vars
===============================================================================
