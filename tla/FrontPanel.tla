------------------------------ MODULE FrontPanel ------------------------------
(***************************************************************************)
(* The BM201 front panel: the HT1628 driver (skykirin_ht1628.c) with its   *)
(* lock, its cached state and the transactions it sends to the controller, *)
(* and the service bm201-front-panel, which shows the clock through the    *)
(* driver's sysfs files.                                                   *)
(*                                                                         *)
(* One step is one transaction on the wires, or one system call of the     *)
(* service.  A store that the driver refuses changes nothing and is left   *)
(* out.  External: the controller, driver core (the sysfs files outlive    *)
(* ht1628_remove and go after it, when no store is under way), the         *)
(* freezer, the clock, and an operator who writes the files too.           *)
(***************************************************************************)
EXTENDS Naturals, Sequences

CONSTANTS
    NumDigits,      \* HT1628_NUM_DIGITS
    Glyphs,         \* printable characters, the blank one included
    Seg7,           \* what map_to_seg7 gives for each
    ClockTexts,     \* the times of day the service may read
    SymbolSets,     \* values of the symbol byte
    Levels,         \* brightness values up to 7
    MaxOperator,    \* bound: stores of the operator
    MaxBinds,       \* bound: times the driver is bound
    MaxSleeps       \* bound: system sleeps

Blank == " "
ASSUME PanelAssumption ==
    /\ NumDigits \in Nat \ {0}
    /\ Blank \in Glyphs /\ Seg7 \in [Glyphs -> Nat] /\ Seg7[Blank] = 0
    /\ ClockTexts \subseteq [1 .. NumDigits -> Glyphs]
    /\ SymbolSets \subseteq Nat /\ Levels \subseteq Nat /\ 0 \in SymbolSets /\ 7 \in Levels

VARIABLES
    drv,        \* new, probing, bound, removing, gone, suspended or off
    attrs,      \* the sysfs files exist
    holder,     \* who holds panel->lock, or "none"
    todo,       \* the transactions its holder has still to send
    panel,      \* struct ht1628_panel
    chip,       \* the controller: data mode, display RAM, display control
    dpc,        \* where the service is
    last,       \* its last_text and last_symbols, <<>> for the empty string
    operated, binds, sleeps,    \* counters of the bounds
    late,       \* a store reached the controller after it was switched off
    foreign     \* text, symbols or enabled set by anyone but the service

PanelVars == <<drv, attrs, holder, todo, panel, chip, dpc, last,
               operated, binds, sleeps, late, foreign>>
ServiceVars == <<dpc, last>>
LifeVars == <<drv, attrs, binds, sleeps>>

DigitAddr(i) == 2 * (i - 1)
SymbolAddr == 2 * NumDigits
RamBytes == 0 .. SymbolAddr + 1
Dark == [a \in RamBytes |-> 0]
Leftover == [a \in RamBytes |-> 9]      \* RAM nobody has written: any segments lit

-----------------------------------------------------------------------------
(* The wires.  A transaction is a command byte and its data.               *)

Bare(c) == [cmd |-> c]
Bytes(a, bytes) == [cmd |-> "addr", addr |-> a, bytes |-> bytes]
ht1628_write_control(p, on) == <<[cmd |-> "control", on |-> on, level |-> p.brightness]>>
ht1628_write_digits(p) == [i \in 1 .. NumDigits |-> Bytes(DigitAddr(i), <<p.digits[i]>>)]
ht1628_write_symbols(p) == <<Bytes(SymbolAddr, <<p.symbols>>)>>
ht1628_restore(p) ==
    <<Bare("mode7x10"), Bare("auto"), Bytes(DigitAddr(1), [a \in 1 .. SymbolAddr + 2 |-> 0]), Bare("fixed")>>
    \o ht1628_write_digits(p) \o ht1628_write_symbols(p) \o ht1628_write_control(p, p.enabled)

\* What the controller does with a transaction.
Obeyed(c, t) ==
    CASE t.cmd = "mode7x10" -> [c EXCEPT !.mode = TRUE]
      [] t.cmd = "auto" -> [c EXCEPT !.auto = TRUE]
      [] t.cmd = "fixed" -> [c EXCEPT !.auto = FALSE]
      [] t.cmd = "control" -> [c EXCEPT !.on = t.on, !.level = t.level]
      [] OTHER -> [c EXCEPT !.ram = [a \in RamBytes |->
             IF c.auto THEN IF a - t.addr + 1 \in DOMAIN t.bytes THEN t.bytes[a - t.addr + 1] ELSE @[a]
             ELSE IF a = t.addr THEN t.bytes[Len(t.bytes)] ELSE @[a]]]

\* mutex_lock, the assignments made under it, and what is then to be sent.
Locked(who, p, ts) == holder = "none" /\ holder' = who /\ panel' = p /\ todo' = ts

\* One transaction; the last one is followed by mutex_unlock.
ht1628_transaction ==
    /\ holder # "none"
    /\ chip' = Obeyed(chip, Head(todo))
    /\ todo' = Tail(todo)
    /\ holder' = IF Len(todo) = 1 THEN "none" ELSE holder
    /\ UNCHANGED <<panel, ServiceVars, LifeVars, operated, late, foreign>>

-----------------------------------------------------------------------------
(* The sysfs files.  A store needs its file; late stores are noted.        *)

Store(who, p, ts) ==
    /\ attrs /\ drv # "suspended"
    /\ Locked(who, p, ts)
    /\ late' = (late \/ drv \in {"removing", "off"})
    /\ UNCHANGED chip

Padded(s) == [i \in 1 .. NumDigits |-> IF i <= Len(s) THEN s[i] ELSE Blank]
text_store(who, s) ==
    LET p == [panel EXCEPT !.text = Padded(s), !.digits = [i \in 1 .. NumDigits |-> Seg7[Padded(s)[i]]]]
    IN Len(s) <= NumDigits /\ Store(who, p, ht1628_write_digits(p))
symbols_store(who, v) ==
    LET p == [panel EXCEPT !.symbols = v] IN Store(who, p, ht1628_write_symbols(p))
brightness_store(who, v) ==
    LET p == [panel EXCEPT !.brightness = v]
    IN v <= 7 /\ Store(who, p, ht1628_write_control(p, p.enabled))
enabled_store(who, v) ==
    LET p == [panel EXCEPT !.enabled = v] IN Store(who, p, ht1628_write_control(p, v))

OperatorStores ==
    /\ operated < MaxOperator /\ operated' = operated + 1
    /\ \/ \E n \in 0 .. NumDigits : \E s \in [1 .. n -> Glyphs] : text_store("operator", s) /\ foreign' = TRUE
       \/ \E v \in SymbolSets : symbols_store("operator", v) /\ foreign' = TRUE
       \/ \E v \in Levels : brightness_store("operator", v) /\ UNCHANGED foreign
       \/ \E v \in BOOLEAN : enabled_store("operator", v) /\ foreign' = TRUE
    /\ UNCHANGED <<ServiceVars, LifeVars>>

-----------------------------------------------------------------------------
(* The driver's life.                                                      *)

Fresh == [text |-> [i \in 1 .. NumDigits |-> Blank], digits |-> [i \in 1 .. NumDigits |-> 0],
          symbols |-> 0, brightness |-> 7, enabled |-> TRUE]

ht1628_probe ==
    /\ drv \in {"new", "gone"} /\ binds < MaxBinds
    /\ Locked("core", Fresh, ht1628_restore(Fresh))
    /\ drv' = "probing" /\ binds' = binds + 1
    /\ foreign' = (foreign \/ dpc \in {"update", "symbols"})
    /\ late' = FALSE
    /\ UNCHANGED <<attrs, sleeps, chip, ServiceVars, operated>>

\* devm_device_add_group: the files appear, or the display is switched off again.
ProbeEnds ==
    /\ drv = "probing" /\ holder = "none"
    /\ \/ drv' = "bound" /\ attrs' = TRUE /\ UNCHANGED <<holder, panel, todo>>
       \/ drv' = "gone" /\ Locked("core", panel, ht1628_write_control(panel, FALSE)) /\ UNCHANGED attrs
    /\ UNCHANGED <<binds, sleeps, chip, ServiceVars, operated, late, foreign>>

ht1628_remove ==
    /\ drv = "bound"
    /\ Locked("core", panel, ht1628_write_control(panel, FALSE))
    /\ drv' \in {"removing", "off"}     \* off: ht1628_shutdown, which keeps the files
    /\ UNCHANGED <<attrs, binds, sleeps, chip, ServiceVars, operated, late, foreign>>

\* The managed attribute group goes after remove has returned.
FilesGo ==
    /\ drv = "removing" /\ holder = "none"
    /\ drv' = "gone" /\ attrs' = FALSE
    /\ UNCHANGED <<binds, sleeps, holder, todo, panel, chip, ServiceVars, operated, late, foreign>>

ht1628_suspend ==
    /\ drv = "bound" /\ sleeps < MaxSleeps
    /\ Locked("core", panel, ht1628_write_control(panel, FALSE))
    /\ drv' = "suspended" /\ sleeps' = sleeps + 1
    /\ UNCHANGED <<attrs, binds, chip, ServiceVars, operated, late, foreign>>

\* Fault: resume only switches the display on again, and the RAM may be gone.
ht1628_resume_control ==
    /\ drv = "suspended"
    /\ Locked("core", panel, ht1628_write_control(panel, panel.enabled))
    /\ drv' = "bound"
    /\ UNCHANGED <<attrs, binds, sleeps, chip, ServiceVars, operated, late, foreign>>

ht1628_resume ==
    /\ drv = "suspended"
    /\ Locked("core", panel, ht1628_restore(panel))
    /\ drv' = "bound"
    /\ UNCHANGED <<attrs, binds, sleeps, chip, ServiceVars, operated, late, foreign>>

\* The controller loses its supply while the system sleeps.
SupplyLost ==
    /\ drv = "suspended" /\ holder = "none"
    /\ chip' = [mode |-> FALSE, auto |-> FALSE, ram |-> Leftover, on |-> FALSE, level |-> 0]
    /\ UNCHANGED <<LifeVars, holder, todo, panel, ServiceVars, operated, late, foreign>>

-----------------------------------------------------------------------------
(* The service bm201-front-panel.  Each step starts a system call; the     *)
(* next one waits for its store to end.                                    *)

ServiceRuns == holder # "service" /\ drv # "suspended"
ServiceFails == dpc' = "failed" /\ UNCHANGED <<last, holder, todo, panel, chip, late>>

ServiceStarts ==
    /\ dpc = "start" /\ ServiceRuns
    /\ \/ ~attrs /\ ServiceFails
       \/ brightness_store("service", 7) /\ dpc' = "enable" /\ UNCHANGED last
    /\ UNCHANGED <<LifeVars, operated, foreign>>

ServiceEnables ==
    /\ dpc = "enable" /\ ServiceRuns
    /\ \/ ~attrs /\ ServiceFails
       \/ enabled_store("service", TRUE) /\ dpc' = "update" /\ UNCHANGED last
    /\ UNCHANGED <<LifeVars, operated, foreign>>

\* update_panel up to the text: the clock may be unreadable, and what has not changed is not
\* written.
UpdateText ==
    /\ dpc = "update" /\ ServiceRuns
    /\ \/ ServiceFails
       \/ \E t \in ClockTexts :
             \/ attrs /\ t = last.text /\ dpc' = "symbols" /\ UNCHANGED <<last, holder, todo, panel, chip, late>>
             \/ t # last.text /\ text_store("service", t) /\ dpc' = "symbols" /\ last' = [last EXCEPT !.text = t]
    /\ UNCHANGED <<LifeVars, operated, foreign>>

\* The rest of update_panel, and the sleep.
UpdateSymbols ==
    /\ dpc = "symbols" /\ ServiceRuns
    /\ \E v \in SymbolSets :
          \/ <<v>> # last.symbols /\ ~attrs /\ ServiceFails
          \/ <<v>> = last.symbols /\ dpc' = "update" /\ UNCHANGED <<last, holder, todo, panel, chip, late>>
          \/ <<v>> # last.symbols /\ symbols_store("service", v) /\ dpc' = "update"
             /\ last' = [last EXCEPT !.symbols = <<v>>]
    /\ UNCHANGED <<LifeVars, operated, foreign>>

\* systemd stops the service between any two calls, or its process has ended.
ServiceStops ==
    /\ dpc \in {"start", "enable", "update", "symbols"} /\ ServiceRuns
    /\ dpc' = "failed"
    /\ UNCHANGED <<last, holder, todo, panel, chip, late, LifeVars, operated, foreign>>

\* ExecStopPost: bm201-front-panel-stop.  Restart=no.
StopPost ==
    /\ dpc = "failed" /\ ServiceRuns /\ dpc' = "stopped"
    /\ \/ ~attrs /\ UNCHANGED <<holder, todo, panel, chip, late>>
       \/ enabled_store("service", FALSE)
    /\ UNCHANGED <<last, LifeVars, operated, foreign>>

-----------------------------------------------------------------------------
PanelInit ==
    /\ drv = "new" /\ attrs = FALSE /\ holder = "none" /\ todo = <<>> /\ panel = Fresh
    /\ chip = [mode |-> FALSE, auto |-> FALSE, ram |-> Leftover, on |-> FALSE, level |-> 0]
    /\ dpc = "start" /\ last = [text |-> <<>>, symbols |-> <<>>]
    /\ operated = 0 /\ binds = 0 /\ sleeps = 0 /\ late = FALSE /\ foreign = FALSE

PanelNext ==
    \/ ht1628_transaction \/ OperatorStores
    \/ ht1628_probe \/ ProbeEnds \/ ht1628_remove \/ FilesGo
    \/ ht1628_suspend \/ ht1628_resume \/ SupplyLost
    \/ ServiceStarts \/ ServiceEnables \/ UpdateText \/ UpdateSymbols \/ ServiceStops \/ StopPost

PanelSpec == PanelInit /\ [][PanelNext]_PanelVars

-----------------------------------------------------------------------------
\* What the files say is shown: the segments of the text, the symbols and nothing else.
RamOf(p) ==
    [a \in RamBytes |->
        IF \E i \in 1 .. NumDigits : a = DigitAddr(i)
        THEN Seg7[p.text[CHOOSE i \in 1 .. NumDigits : a = DigitAddr(i)]]
        ELSE IF a = SymbolAddr THEN p.symbols ELSE 0]

PanelTypeOK ==
    /\ drv \in {"new", "probing", "bound", "removing", "gone", "suspended", "off"}
    /\ holder \in {"none", "operator", "core", "service"} /\ (holder = "none" <=> todo = <<>>)
    /\ panel.text \in [1 .. NumDigits -> Glyphs] /\ panel.symbols \in SymbolSets
    /\ panel.brightness \in Levels
    /\ dpc \in {"start", "enable", "update", "symbols", "failed", "stopped"}

\* While the driver is bound and the lock is free, the controller shows what the files say.
ShowsState ==
    drv = "bound" /\ holder = "none" =>
        /\ chip.mode /\ ~chip.auto /\ chip.ram = RamOf(panel)
        /\ chip.on = panel.enabled /\ chip.level = panel.brightness

\* A panel that was switched off stays dark, unless a store came through the files that outlive
\* ht1628_remove and ht1628_shutdown.
DarkWhenOff ==
    drv \in {"removing", "gone", "suspended", "off"} /\ holder = "none" /\ ~late => ~chip.on

\* What the service believes it has written is there, if nobody else wrote and the driver was
\* not bound anew meanwhile; and once it has stopped, nothing is left lit.
ServiceTruth ==
    holder = "none" /\ attrs /\ ~foreign =>
        /\ dpc \in {"update", "symbols"} /\ last.text # <<>> => panel.text = last.text
        /\ dpc = "update" /\ last.symbols # <<>> => <<panel.symbols>> = last.symbols
        /\ dpc = "stopped" /\ ~late => ~chip.on \/ chip.ram = Dark

\* The panel's promise (skykirin_ht1628.c and bm201-front-panel): whatever stores, sleeps, binds
\* and stops interleave, the controller shows the cached state, is dark when it was switched
\* off, and agrees with what the service last wrote.
PanelSafe == PanelTypeOK /\ ShowsState /\ DarkWhenOff /\ ServiceTruth
===============================================================================
