-------------------------------- MODULE SkwBind --------------------------------
(***************************************************************************)
(* The devices the SDIO platform driver hangs on its ports: the service    *)
(* ports when the card is probed, Wi-Fi and then Bluetooth when the chip   *)
(* has booted the first time, Wi-Fi again whenever somebody turns it on,   *)
(* and all of them undone when the card goes (skw_sdio_rx.c,               *)
(* skw_sdio_main.c).  Each step of binding may fail; nobody undoes what    *)
(* was bound before it, and the callers ignore what binding returns.  The  *)
(* chip says which of two port layouts is used.                            *)
(***************************************************************************)
EXTENDS Integers, Sequences, FiniteSets, SequencesExt

CONSTANTS
    MaxProbes,      \* bound: times the card is probed
    MaxPowers,      \* bound: times Wi-Fi is turned on or off by hand
    MaxBindFaults   \* bound: failing allocations and registrations

VARIABLES
    cp_ver,         \* skw_cp_ver: "V10" or "V20"
    sdio_ports,     \* the device and the buffers of each port
    registered,     \* the platform devices the kernel has
    cmd_port,       \* wifi_pdata.cmd_port, which outlives the card
    card,           \* "absent", "booting" or "online" (booted, or failed to)
    binder,         \* who binds Wi-Fi, and the first boot then Bluetooth: [pc, ret]
    bindGhost,      \* twice: unregistered when already gone; stale: a port names a device that was
                    \* never registered; raced: two callers found Wi-Fi unbound
    bindFuel

BindVars == <<cp_ver, sdio_ports, registered, cmd_port, card, binder, bindGhost, bindFuel>>

NoDev == <<"none", 0>>
Wifi == {<<"WIFI", n>> : n \in 0 .. MaxPowers + MaxProbes}
Unused == [pdev |-> NoDev, read_buffer |-> FALSE, write_buffer |-> FALSE]
Channels == 0 .. 11                       \* SDIO2_MAX_CH_NUM
Resting == [pc |-> "idle", ret |-> -1]

WIFI_CMD_PORT == 5
SDIO2_WIFI_CMD_PORT == 6
WIFI_DATA_PORT == 6                       \* what skw_sdio_bind_WIFI_driver looks at, in either layout

BindInit ==
    /\ cp_ver \in {"V10", "V20"}
    /\ sdio_ports = [p \in Channels |-> Unused] /\ registered = {} /\ cmd_port = WIFI_CMD_PORT
    /\ card = "absent" /\ binder = [c \in {"boot", "user"} |-> Resting]
    /\ bindGhost = [twice |-> FALSE, stale |-> FALSE, raced |-> FALSE]
    /\ bindFuel = [probes |-> MaxProbes, powers |-> MaxPowers, faults |-> MaxBindFaults]

(* The service devices and the Bluetooth devices with their ports, in the order they are made. *)
Services ==
    IF cp_ver = "V10" THEN <<<<"ATC", 0>>, <<"LOG", 1>>, <<"LOOPCHECK", 7>>>>
    ELSE <<<<"ATC", 0>>, <<"LOG", 9>>, <<"LOOPCHECK", 1>>, <<"BSPUPDATE", 11>>>>
Bluetooth ==
    IF cp_ver = "V10" THEN <<<<"BTDATA", 2>>, <<"BTCMD", 3>>, <<"BTAUDIO", 4>>>>
    ELSE <<<<"BTDATA", 5>>, <<"BTCMD", 2>>, <<"BTAUDIO", 3>>, <<"BTISOC", 4>>, <<"BTLOG", 10>>>>

(* How far the binding of devs gets: the number of the last device it touches, and how far that
   one got: not registered, registered, with its read buffer, with both buffers. *)
Stages == {"nothing", "registered", "reads", "whole"}
Ends(devs) == {<<n, stage>> \in (DOMAIN devs) \X Stages : n < Len(devs) => stage # "whole"}
FaultsOf(devs, end) == IF end = <<Len(devs), "whole">> THEN 0 ELSE 1

Bound(ports, dev, stage) ==
    IF stage = "nothing" THEN ports
    ELSE [ports EXCEPT ![dev[2]] = [pdev |-> dev, read_buffer |-> stage \in {"reads", "whole"},
                                    write_buffer |-> stage = "whole"]]
BoundUpTo(ports, devs, end) ==
    FoldLeft(LAMBDA ps, i : Bound(ps, devs[i], IF i < end[1] THEN "whole" ELSE end[2]),
             ports, [i \in 1 .. end[1] |-> i])
Made(devs, end) == {devs[i] : i \in 1 .. IF end[2] = "nothing" THEN end[1] - 1 ELSE end[1]}

(* skw_sdio_bind_platform_driver clears the first eight ports (MAX_CH_NUM), whatever the layout. *)
skw_sdio_bind_platform_driver(end) ==
    BoundUpTo([p \in Channels |-> IF p < 8 THEN Unused ELSE sdio_ports[p]], Services, end)

(* skw_sdio_probe. *)
skw_sdio_probe ==
    /\ card = "absent" /\ bindFuel.probes > 0
    /\ \E end \in Ends(Services) :
        /\ FaultsOf(Services, end) <= bindFuel.faults
        /\ bindFuel' = [bindFuel EXCEPT !.probes = @ - 1, !.faults = @ - FaultsOf(Services, end)]
        /\ sdio_ports' = skw_sdio_bind_platform_driver(end)
        /\ registered' = registered \cup Made(Services, end)
    /\ card' = "booting" /\ binder' = [binder EXCEPT !["boot"] = [pc |-> "check", ret |-> -1]]
    /\ UNCHANGED <<cp_ver, cmd_port, bindGhost>>

(* skw_sdio_boot_cp fails: neither Wi-Fi nor Bluetooth is bound. *)
FirstBootFails ==
    /\ card = "booting" /\ binder["boot"].pc = "check"
    /\ card' = "online" /\ binder' = [binder EXCEPT !["boot"] = Resting]
    /\ UNCHANGED <<cp_ver, sdio_ports, registered, cmd_port, bindGhost, bindFuel>>

----------------------------------------------------------------------------
(* Wi-Fi. *)

(* skw_sdio_bind_WIFI_driver returned to c: the first boot goes on to Bluetooth. *)
BoundWifi(c, result) == [pc |-> IF c = "boot" THEN "bt" ELSE "idle", ret |-> result]

(* skw_sdio_bind_WIFI_driver: a bound port means that there is nothing to do. *)
skw_sdio_bind_WIFI_check(c) ==
    /\ binder[c].pc = "check"
    /\ binder' = [binder EXCEPT ![c] = IF sdio_ports[WIFI_DATA_PORT].pdev # NoDev
                                       THEN BoundWifi(c, 0) ELSE [pc |-> "bind", ret |-> -1]]
    /\ UNCHANGED <<cp_ver, sdio_ports, registered, cmd_port, card, bindGhost, bindFuel>>

NextWifi == <<"WIFI", bindFuel.powers + bindFuel.probes>>
WifiUp == registered \cap Wifi # {}
WifiPorts == IF cp_ver = "V10" THEN {WIFI_CMD_PORT, WIFI_DATA_PORT} ELSE {SDIO2_WIFI_CMD_PORT, 7, 8}

(* The rest of it: a device was allocated, from there on the command port is the layout's, then the
   ports name the device before it is registered, and still do if that fails. *)
skw_sdio_bind_WIFI_driver(c) ==
    /\ binder[c].pc = "bind"
    /\ \E outcome \in {"ok", "no device", "no data", "not added"} :
        /\ IF outcome = "ok" THEN UNCHANGED bindFuel
           ELSE bindFuel.faults > 0 /\ bindFuel' = [bindFuel EXCEPT !.faults = @ - 1]
        /\ binder' = [binder EXCEPT ![c] = BoundWifi(c, IF outcome = "ok" THEN 0 ELSE -1)]
        /\ cmd_port' = IF cp_ver = "V20" /\ outcome # "no device" THEN SDIO2_WIFI_CMD_PORT ELSE cmd_port
        /\ sdio_ports' = IF outcome \in {"no device", "no data"} THEN sdio_ports
                         ELSE [p \in Channels |-> IF p \in WifiPorts THEN [sdio_ports[p] EXCEPT !.pdev = NextWifi]
                                                  ELSE sdio_ports[p]]
        /\ registered' = IF outcome = "ok" THEN registered \cup {NextWifi} ELSE registered
        /\ bindGhost' = [bindGhost EXCEPT !.stale = @ \/ outcome = "not added",
                                          !.raced = @ \/ WifiUp]
    /\ UNCHANGED <<cp_ver, card>>

(* skw_sdio_bind_BT_driver, the last thing the first boot does. *)
skw_sdio_bind_BT_driver ==
    /\ binder["boot"].pc = "bt"
    /\ \E end \in Ends(Bluetooth) :
        /\ FaultsOf(Bluetooth, end) <= bindFuel.faults
        /\ bindFuel' = [bindFuel EXCEPT !.faults = @ - FaultsOf(Bluetooth, end)]
        /\ sdio_ports' = BoundUpTo(sdio_ports, Bluetooth, end)
        /\ registered' = registered \cup Made(Bluetooth, end)
    /\ card' = "online" /\ binder' = [binder EXCEPT !["boot"].pc = "idle"]
    /\ UNCHANGED <<cp_ver, cmd_port, bindGhost>>

(* skw_sdio_unbind_sdio_port_driver: the port forgets its device and buffers, then the device goes. *)
skw_sdio_unbind_sdio_port_driver(st, p) ==
    LET pdev == st.ports[p].pdev
    IN [ports |-> [st.ports EXCEPT ![p] = Unused],
        registered |-> st.registered \ {pdev},
        twice |-> st.twice \/ (pdev # NoDev /\ pdev \notin st.registered)]

skw_sdio_unbind_platform_driver == <<0, 1, 7>>

(* Fault: port 5 is unbound, which is Wi-Fi's command port in the first layout only. *)
skw_sdio_unbind_WIFI_cmd == <<WIFI_CMD_PORT>>

skw_sdio_unbind_WIFI_driver == <<IF cp_ver = "V20" THEN SDIO2_WIFI_CMD_PORT ELSE WIFI_DATA_PORT>>
skw_sdio_unbind_BT_driver == <<2, 3, 4>>

Unbinds(list) ==
    \E st \in {FoldLeft(skw_sdio_unbind_sdio_port_driver,
                        [ports |-> sdio_ports, registered |-> registered, twice |-> FALSE], list)} :
        /\ sdio_ports' = st.ports /\ registered' = st.registered
        /\ bindGhost' = [bindGhost EXCEPT !.twice = @ \/ st.twice]

(* skw_sdio_wifi_power_on, from the debug file or the Wi-Fi driver. *)
skw_sdio_wifi_power_on(on) ==
    /\ binder["user"].pc = "idle" /\ card # "absent" /\ bindFuel.powers > 0
    /\ bindFuel' = [bindFuel EXCEPT !.powers = @ - 1]
    /\ IF on
       THEN /\ binder' = [binder EXCEPT !["user"] = [pc |-> "check", ret |-> -1]]
            /\ UNCHANGED <<sdio_ports, registered, bindGhost>>
       ELSE /\ binder' = [binder EXCEPT !["user"] = Resting]
            /\ Unbinds(skw_sdio_unbind_WIFI_driver)
    /\ UNCHANGED <<cp_ver, cmd_port, card>>

(* skw_sdio_remove. *)
skw_sdio_remove ==
    /\ card = "online" /\ \A c \in DOMAIN binder : binder[c].pc = "idle"
    /\ card' = "absent" /\ binder' = [c \in DOMAIN binder |-> Resting]
    /\ Unbinds(skw_sdio_unbind_platform_driver \o skw_sdio_unbind_WIFI_driver \o skw_sdio_unbind_BT_driver)
    /\ UNCHANGED <<cp_ver, cmd_port, bindFuel>>

BindNext ==
    \/ skw_sdio_probe \/ FirstBootFails \/ skw_sdio_bind_BT_driver \/ skw_sdio_remove
    \/ \E on \in BOOLEAN : skw_sdio_wifi_power_on(on)
    \/ \E c \in DOMAIN binder : skw_sdio_bind_WIFI_check(c) \/ skw_sdio_bind_WIFI_driver(c)

BindSpec == BindInit /\ [][BindNext]_BindVars

----------------------------------------------------------------------------
(* With the first layout nothing that is already gone is unregistered again, and when the card is
   gone no device is left on it, however far binding got and however often Wi-Fi was turned off
   and on.  With the second layout removal undoes ports 0 to 4, 6 and 7: what may outlive the card
   is exactly the devices of ports 5, 9, 10 and 11, and Wi-Fi never does. *)
BindUndone ==
    (~bindGhost.stale /\ ~bindGhost.raced) =>
        /\ cp_ver = "V10" => ~bindGhost.twice
        /\ card = "absent" =>
            registered \subseteq (IF cp_ver = "V10" THEN {}
                                  ELSE {<<"BTDATA", 5>>, <<"LOG", 9>>, <<"BTLOG", 10>>, <<"BSPUPDATE", 11>>})

(* A call that turned Wi-Fi on successfully leaves the driver a device (skw_sdio_wifi_power_on),
   unless an earlier registration failed. *)
BindPowersOn ==
    (binder["user"].ret = 0 /\ card # "absent" /\ ~bindGhost.stale) => WifiUp

(* What the debug file shows is whether Wi-Fi is there (skw_sdio_wifi_status), with the second
   layout and once some binding of Wi-Fi had a device to bind: until then it reads port 5, which is
   Bluetooth's data port there. *)
BindStatusTrue ==
    (cp_ver = "V20" /\ cmd_port = SDIO2_WIFI_CMD_PORT /\ ~bindGhost.stale /\ ~bindGhost.raced) =>
        (sdio_ports[cmd_port].pdev # NoDev <=> WifiUp)

(* The services' devices are registered and undone in pairs, and what is reported of them is
   true. *)
BindSafe == BindUndone /\ BindPowersOn /\ BindStatusTrue
=============================================================================
