------------------------------- MODULE FileBoot -------------------------------
(***************************************************************************)
(* The signed-file boot transaction of the two boards with a Mica loader:  *)
(* boards/cx3576/loader/mica-file-boot.c (eMMC, with a volatile write      *)
(* cache) and boards/s905x5m/loader/mica-file-boot.c (SD, synchronous      *)
(* writes).  The two files differ in the gate before the watchdog, the     *)
(* device they accept, the flush and the recovery they enter; everything   *)
(* else is one text, modelled once.                                        *)
(*                                                                         *)
(* The loader is sequential.  What makes it hard is that it can lose power *)
(* or be reset between any two of its steps, that a write may land, fail   *)
(* or tear, that a read may fail, and that the records must outlive all of *)
(* it.  The operating system that runs between two boots, the medium and   *)
(* the firmware's hardware are external; they do what the loader's own     *)
(* checks expect of them.                                                  *)
(***************************************************************************)
EXTENDS BootRecords

CONSTANTS
    Board,              \* "cx3576" or "s905x5m"
    NoId,               \* no deployment
    Disks,              \* the partition tables a disk may carry
    AssemblyRecords,    \* the records the assembly may write
    AssemblyFlags,      \* the flag byte it may write them with
    MaxReadFaults,      \* bound: boots whose environment read meets a read error
    MaxOutages          \* bound: power losses and resets from outside

ASSUME BoardAssumption == Board \in {"cx3576", "s905x5m"}
ASSUME NoIdAssumption == NoId \notin Id
ASSUME AssemblyAssumption == AssemblyRecords \subseteq Records /\ AssemblyFlags \subseteq 0 .. 255
ASSUME BoundsAssumption == MaxReadFaults \in Nat /\ MaxOutages \in Nat

VARIABLES
    media,      \* the two environment copies as they survive a power loss
    seen,       \* the two copies as a read returns them (the device's cache included)
    disk,       \* the partition table
    pc,         \* where the board is
    wdt,        \* the boot watchdog runs
    buffer,     \* RAM: the copies buffer
    slot,       \* RAM: the copy the records came from
    records,    \* RAM: the decoded records
    next,       \* RAM: the selected record
    retiring,   \* RAM: the pending write retires the selected record
    running,    \* the deployment whose kernel runs, or NoId
    healthy,    \* that kernel is up and services its watchdog
    attempts,   \* history: launches of each id as a candidate since its installation
    readFaults, \* history: boots that met a read error
    outages     \* history: outages so far

store == <<media, seen>>
ram == <<buffer, slot, records, next, retiring>>
os == <<running, healthy>>
history == <<attempts, readFaults, outages>>
vars == <<store, disk, pc, wdt, ram, os, history>>

Slots == {0, 1}
Flags == 0 .. 255

\* A copy whose CRC is wrong is as good as blank: only its CRC is looked at.
Copy == [crc : BOOLEAN, flag : Flags, text : Text \cup {NoText}]
Bad == [crc |-> FALSE, flag |-> 0, text |-> NoText]
cleared == [s \in Slots |-> Bad]

LoaderPCs == {"policy", "watchdog", "storage", "read", "select", "write", "flush",
              "readback", "load", "bootm", "failed", "reset"}
PCs == LoaderPCs \cup {"off", "kernel", "recovery"}

-----------------------------------------------------------------------------
(* The disk.                                                               *)

\* What valid_layout compares the first three partitions with.
layout ==
    CASE Board = "cx3576" -> [starts |-> <<64, 36864, 2134016>>,
                              sizes |-> <<36800, 2097152, 524288>>]
      [] OTHER -> [starts |-> <<64, 262144, 2359296>>,
                   sizes |-> <<262080, 2097152, 524288>>]
names == <<"firmware", "system", "data">>

\* Exactly three partitions at the fixed places; only the last may be larger.
valid_layout(d) ==
    /\ d.blksz = 512
    /\ \A i \in 1 .. 3 :
          /\ i \in DOMAIN d.parts
          /\ d.parts[i].start = layout.starts[i]
          /\ d.parts[i].name = names[i]
          /\ IF i = 3 THEN d.parts[i].size >= layout.sizes[i]
                      ELSE d.parts[i].size = layout.sizes[i]
    /\ 4 \notin DOMAIN d.parts

\* The slot of a pair of copies, and the records it decodes to.
chosen(c) == mica_boot_slot(c[0].crc, c[0].flag, c[1].crc, c[1].flag)
decode_environment(copy) == mica_boot_parse(copy.text)
durable == IF chosen(media) = -1 THEN NoRecords ELSE decode_environment(media[chosen(media)])

\* A copy as persist_environment builds it, or as the system writes it.
newCopy(flag, r) == [crc |-> TRUE, flag |-> (flag + 1) % 256, text |-> mica_boot_render(r)]

\* What an interrupted or failed write can leave of old when new was written.
landings(old, new) == {old, new, Bad}

-----------------------------------------------------------------------------
(* The loader.                                                             *)

recovery == pc' = "recovery" /\ UNCHANGED <<store, disk, ram, os, history>>

proceed(to) == pc' = to /\ UNCHANGED <<store, disk, ram, os, history>>

PowerOn ==
    /\ pc = "off"
    /\ proceed("policy")
    /\ UNCHANGED wdt

\* env_set("verify") first; then, on cx3576, the recovery key.
CheckRecoveryKey ==
    /\ pc = "policy" /\ Board = "cx3576"
    /\ \E verify, key \in BOOLEAN : IF ~verify \/ key THEN recovery ELSE proceed("watchdog")
    /\ UNCHANGED wdt

\* On s905x5m, the firmware must run from eMMC boot0.
CheckBoot0 ==
    /\ pc = "policy" /\ Board = "s905x5m"
    /\ \E verify, boot0 \in BOOLEAN : IF ~verify \/ ~boot0 THEN recovery ELSE proceed("watchdog")
    /\ UNCHANGED wdt

\* Fault: the boot goes on with a watchdog that was not started.
StartWatchdogUnarmed ==
    /\ pc = "watchdog"
    /\ recovery \/ proceed("storage")
    /\ UNCHANGED wdt

StartWatchdog ==
    /\ pc = "watchdog"
    /\ \/ recovery /\ UNCHANGED wdt
       \/ proceed("storage") /\ wdt' = TRUE

\* The device, its kind, its partition table and the buffer.
OpenDisk ==
    /\ pc = "storage"
    /\ \E available \in BOOLEAN :
          IF available /\ valid_layout(disk) THEN proceed("read") ELSE recovery
    /\ UNCHANGED wdt

\* Fault: the slot that comes back is the one to be written.
read_environmentSwapped(unreadable) ==
    LET copies == [s \in Slots |-> IF s \in unreadable THEN Bad ELSE seen[s]]
        from == chosen(copies)
        decoded == IF from = -1 THEN NoRecords ELSE decode_environment(copies[from])
    IN  IF decoded = NoRecords
        THEN pc' = "recovery" /\ UNCHANGED ram
        ELSE /\ pc' = "select"
             /\ buffer' = copies /\ slot' = 1 - from /\ records' = decoded
             /\ UNCHANGED <<next, retiring>>

\* A copy that cannot be read counts as invalid.  Only the CRC decides the slot; the
\* entry of the slot is decoded after that.
read_environment(unreadable) ==
    LET valid == [s \in Slots |-> s \notin unreadable /\ seen[s].crc]
        copies == [s \in Slots |-> IF s \in unreadable THEN Bad ELSE seen[s]]
        from == mica_boot_slot(valid[0], copies[0].flag, valid[1], copies[1].flag)
        decoded == IF from = -1 THEN NoRecords ELSE decode_environment(copies[from])
    IN  IF decoded = NoRecords
        THEN pc' = "recovery" /\ UNCHANGED ram
        ELSE /\ pc' = "select"
             /\ buffer' = copies /\ slot' = from /\ records' = decoded
             /\ UNCHANGED <<next, retiring>>

ReadEnvironment ==
    /\ pc = "read"
    /\ \E unreadable \in SUBSET Slots :
          /\ unreadable # {} => readFaults < MaxReadFaults
          /\ readFaults' = IF unreadable = {} THEN readFaults ELSE readFaults + 1
          /\ read_environment(unreadable)
    /\ UNCHANGED <<store, disk, wdt, os, attempts, outages>>

\* persist_environment up to the write: render, then build the pending copy in the
\* buffer of the other slot.
preparePending(r) ==
    IF mica_boot_render(r) = NoText
    THEN pc' = "recovery" /\ UNCHANGED buffer
    ELSE /\ pc' = "write"
         /\ buffer' = [buffer EXCEPT ![1 - slot] = newCopy(buffer[slot].flag, r)]

\* Fault: the trial is taken in RAM only.
SelectNextUnpaid ==
    LET n == mica_boot_next(records) IN
    /\ pc = "select"
    /\ \/ n = 0 /\ pc' = "recovery" /\ UNCHANGED <<next, records>>
       \/ /\ n # 0 /\ next' = n /\ pc' = "load"
          /\ records' = IF records[n].tries < 0 THEN records
                        ELSE setTries(records, n, records[n].tries - 1)
    /\ UNCHANGED <<store, disk, wdt, buffer, slot, retiring, os, history>>

\* A candidate pays for its launch before anything of it is loaded.
SelectNext ==
    LET n == mica_boot_next(records) IN
    /\ pc = "select"
    /\ \/ /\ n = 0
          /\ pc' = "recovery" /\ UNCHANGED ram
       \/ /\ n # 0 /\ records[n].tries > 0
          /\ next' = n /\ records' = setTries(records, n, records[n].tries - 1)
          /\ preparePending(records') /\ UNCHANGED <<slot, retiring>>
       \/ /\ n # 0 /\ records[n].tries < 0
          /\ next' = n /\ pc' = "load" /\ UNCHANGED <<buffer, slot, records, retiring>>
    /\ UNCHANGED <<store, disk, wdt, os, history>>

pending == buffer[1 - slot]

\* blk_dwrite on SD: done when it returns.  It may report a failure, or report success
\* and have stored something else.
WriteSd ==
    /\ pc = "write" /\ Board = "s905x5m"
    /\ \E left \in landings(media[1 - slot], pending) :
          /\ media' = [media EXCEPT ![1 - slot] = left]
          /\ seen' = [seen EXCEPT ![1 - slot] = left]
    /\ pc' \in {"readback", "recovery"}
    /\ UNCHANGED <<disk, wdt, ram, os, history>>

\* Fault: the copy in use is overwritten.
WriteEmmcInPlace ==
    /\ pc = "write" /\ Board = "cx3576"
    /\ \E left \in landings(seen[slot], pending) : seen' = [seen EXCEPT ![slot] = left]
    /\ pc' \in {"flush", "recovery"}
    /\ UNCHANGED <<media, disk, wdt, ram, os, history>>

\* Fault: no flush between the write and the launch.
WriteEmmcUnflushed ==
    /\ pc = "write" /\ Board = "cx3576"
    /\ \E left \in landings(seen[1 - slot], pending) : seen' = [seen EXCEPT ![1 - slot] = left]
    /\ pc' \in {"readback", "recovery"}
    /\ UNCHANGED <<media, disk, wdt, ram, os, history>>

\* blk_dwrite on eMMC: the device may keep the copy in its cache, where reads find it.
WriteEmmc ==
    /\ pc = "write" /\ Board = "cx3576"
    /\ \E left \in landings(seen[1 - slot], pending) : seen' = [seen EXCEPT ![1 - slot] = left]
    /\ pc' \in {"flush", "recovery"}
    /\ UNCHANGED <<media, disk, wdt, ram, os, history>>

\* mmc_flush_cache.
FlushCache ==
    /\ pc = "flush"
    /\ \/ pc' = "readback" /\ media' = seen
       \/ pc' = "recovery" /\ UNCHANGED media
    /\ UNCHANGED <<seen, disk, wdt, ram, os, history>>

\* Fault: what is read back is not compared.
ReadBackUnchecked ==
    /\ pc = "readback"
    /\ pc' = IF retiring THEN "reset" ELSE "load"
    /\ UNCHANGED <<store, disk, wdt, ram, os, history>>

\* Read the copy back over the buffer of the slot and compare.
ReadBack ==
    /\ pc = "readback"
    /\ \E back \in {seen[1 - slot], Bad} :
          /\ buffer' = [buffer EXCEPT ![slot] = back]
          /\ pc' = IF back # pending THEN "recovery" ELSE IF retiring THEN "reset" ELSE "load"
    /\ UNCHANGED <<store, disk, wdt, slot, records, next, retiring, os, history>>

\* The FIT file: present, of a legal size, read whole, with an FDT header of its size.
LoadFit ==
    /\ pc = "load"
    /\ \/ proceed("bootm")
       \/ proceed("failed")
    /\ UNCHANGED wdt

\* bootm verifies the signature; it returns only when the image does not boot.
Bootm ==
    LET selected == records[next] IN
    /\ pc = "bootm"
    /\ attempts' = IF selected.tries < 0 THEN attempts
                   ELSE [attempts EXCEPT ![selected.id] = @ + 1]
    /\ \/ /\ pc' = "kernel" /\ running' = selected.id /\ healthy' \in BOOLEAN
          /\ buffer' = cleared /\ slot' = 0 /\ records' = NoRecords
          /\ next' = 0 /\ retiring' = FALSE
       \/ pc' = "failed" /\ UNCHANGED <<ram, os>>
    /\ UNCHANGED <<store, disk, wdt, readFaults, outages>>

\* Fault: a candidate that failed once is given up like a confirmed image.
SelectedFailedForGood ==
    /\ pc = "failed"
    /\ records' = setTries(records, next, 0)
    /\ retiring' = TRUE
    /\ preparePending(records') /\ UNCHANGED <<slot, next>>
    /\ UNCHANGED <<store, disk, wdt, os, history>>

\* Fault: a confirmed image that failed is not retired.
SelectedFailedKept ==
    /\ pc = "failed" /\ pc' = "reset"
    /\ UNCHANGED <<store, disk, wdt, ram, os, history>>

\* A confirmed image that did not boot is retired; a candidate has paid already.
SelectedFailed ==
    /\ pc = "failed"
    /\ IF records[next].tries < 0
       THEN /\ records' = setTries(records, next, 0)
            /\ retiring' = TRUE
            /\ preparePending(records') /\ UNCHANGED <<slot, next>>
       ELSE pc' = "reset" /\ UNCHANGED ram
    /\ UNCHANGED <<store, disk, wdt, os, history>>

\* A reset of the SoC: RAM and the watchdog start over.
restart ==
    /\ wdt' = FALSE /\ running' = NoId /\ healthy' = FALSE
    /\ buffer' = cleared /\ slot' = 0 /\ records' = NoRecords /\ next' = 0 /\ retiring' = FALSE

Reset ==
    /\ pc = "reset"
    /\ pc' = "policy" /\ restart
    /\ UNCHANGED <<store, disk, history>>

Loader ==
    \/ CheckRecoveryKey \/ CheckBoot0 \/ StartWatchdog \/ OpenDisk \/ ReadEnvironment
    \/ SelectNext \/ WriteSd \/ WriteEmmc \/ FlushCache \/ ReadBack
    \/ LoadFit \/ Bootm \/ SelectedFailed \/ Reset

-----------------------------------------------------------------------------
(* External: the medium, the power, the watchdog and the running system.   *)

\* The eMMC writes its cache back when it likes.
Writeback ==
    /\ seen # media
    /\ media' = seen
    /\ UNCHANGED <<seen, disk, pc, wdt, ram, os, history>>

\* Where a write may be under way, in the driver, in the device's cache or in the
\* running system, and what it may leave there.
underWay == IF pc = "kernel" THEN 1 - chosen(media) ELSE 1 - slot
interrupted ==
    CASE pc = "write" -> landings(media[underWay], pending)
      [] pc = "kernel" -> {media[underWay], Bad}
      [] OTHER -> IF seen # media THEN landings(media[underWay], seen[underWay])
                  ELSE {media[underWay]}

\* Power goes, or something outside resets the board.  Out of recovery it is the
\* operator's way back and needs no bound.
Outage ==
    /\ pc # "off"
    /\ outages < MaxOutages \/ pc = "recovery"
    /\ outages' = IF pc = "recovery" THEN outages ELSE outages + 1
    /\ \E left \in interrupted : media' = [media EXCEPT ![underWay] = left]
    /\ seen' = media'
    /\ pc' = "off" /\ restart
    /\ UNCHANGED <<disk, attempts, readFaults>>

\* A kernel that hangs or panics: the armed watchdog, or panic=5, resets the board.
WatchdogReset ==
    /\ pc = "kernel" /\ wdt /\ ~healthy
    /\ pc' = "policy" /\ restart
    /\ UNCHANGED <<store, disk, history>>

Hang ==
    /\ pc = "kernel" /\ healthy
    /\ healthy' = FALSE
    /\ UNCHANGED <<store, disk, pc, wdt, ram, running, history>>

Reboot ==
    /\ pc = "kernel" /\ healthy
    /\ pc' = "policy" /\ restart
    /\ UNCHANGED <<store, disk, history>>

\* The system replaces the records the way the loader does: the other copy, one flag on.
osWrite(r) ==
    LET s == chosen(media) IN
    /\ media' = [media EXCEPT ![1 - s] = newCopy(media[s].flag, r)]
    /\ seen' = media'
    /\ UNCHANGED <<disk, pc, wdt, ram, os, readFaults, outages>>

\* The running deployment passed its health check.
Confirm ==
    /\ pc = "kernel" /\ healthy
    /\ \E i \in DOMAIN durable :
          /\ durable[i].id = running /\ durable[i].tries # Confirmed
          /\ osWrite(setTries(durable, i, Confirmed))
    /\ UNCHANGED attempts

\* A new candidate is installed in front of the running deployment.
Install ==
    /\ pc = "kernel" /\ healthy
    /\ \E i \in DOMAIN durable, new \in [id : Id \ {running}, kernel : Kernel,
                                         generation : 1 .. GenerationLimit, tries : {TrialLimit}] :
          /\ durable[i].id = running
          /\ \A j \in DOMAIN durable : new.generation > durable[j].generation
          /\ osWrite([k \in 1 .. 2 |-> IF k = 1 THEN new ELSE durable[i]])
          /\ attempts' = [attempts EXCEPT ![new.id] = 0]

System == WatchdogReset \/ Hang \/ Reboot \/ Confirm \/ Install

-----------------------------------------------------------------------------
\* The assembly writes one copy, or both alike; a disk never assembled has none.
Init ==
    /\ \E r \in AssemblyRecords, f \in AssemblyFlags, both \in BOOLEAN, blank \in BOOLEAN :
          LET first == [crc |-> TRUE, flag |-> f, text |-> mica_boot_render(r)]
          IN  media = IF blank THEN cleared
                      ELSE [s \in Slots |-> IF s = 0 \/ both THEN first ELSE Bad]
    /\ seen = media
    /\ disk \in Disks
    /\ pc = "off" /\ wdt = FALSE
    /\ buffer = cleared /\ slot = 0 /\ records = NoRecords /\ next = 0 /\ retiring = FALSE
    /\ running = NoId /\ healthy = FALSE
    /\ attempts = [i \in Id |-> 0] /\ readFaults = 0 /\ outages = 0

Next == PowerOn \/ Loader \/ System \/ Writeback \/ Outage

Spec == Init /\ [][Next]_vars

\* The loader runs on while the board has power, the watchdog it armed expires under a
\* kernel that does not service it, and the operator switches the board on again.
FairSpec == Spec /\ WF_vars(PowerOn) /\ WF_vars(Loader) /\ WF_vars(WatchdogReset)

-----------------------------------------------------------------------------
(* Properties.                                                             *)

\* Every variable keeps its type.
TypeOK ==
    /\ media \in [Slots -> Copy] /\ seen \in [Slots -> Copy]
    /\ disk \in Disks
    /\ pc \in PCs /\ wdt \in BOOLEAN
    /\ buffer \in [Slots -> Copy] /\ slot \in Slots
    /\ records \in Records \cup {NoRecords} /\ next \in 0 .. RecordLimit
    /\ retiring \in BOOLEAN
    /\ running \in Id \cup {NoId} /\ healthy \in BOOLEAN
    /\ attempts \in [Id -> Nat]
    /\ readFaults \in 0 .. MaxReadFaults /\ outages \in 0 .. MaxOutages

\* Three trials: a candidate is never launched more often than the trials it was
\* installed with, whatever is lost, torn or repeated in between.  The only thing that
\* buys another launch is a boot that could not read a copy of the environment.
TrialBudget == \A i \in Id : attempts[i] <= TrialLimit + readFaults

\* What loader/README.md says of it: three trials exhaust a candidate.
ThreeTrialsExhaust == \A i \in Id : attempts[i] <= TrialLimit

\* No step, and no outage in the middle of one, turns records the loader can read into
\* none.
RecordsSurvive == [][durable # NoRecords => durable' # NoRecords]_vars

\* A write goes to the copy that the next boot would not use.
InactiveOnly == [][\A s \in Slots : media'[s] # media[s] => s # chosen(media)]_vars

\* With no read error, the two copies are one ledger: what the next boot would decode
\* changes only by a trial of the first live record being consumed, by that record being
\* retired, or by the running system; and a candidate is launched only on a trial that has
\* already left the copies that survive a power loss.
Ledger == INSTANCE BootLedger WITH
    ledger <- durable,
    paid <- IF pc \in {"flush", "readback", "load", "bootm"} /\ ~retiring
               /\ records[next].tries >= 0 /\ chosen(media) # slot
            THEN records[next].id ELSE NoId
ImplementsLedger == Ledger!Spec

\* The reset loop ends: however many images fail to load or verify, a board that is
\* switched on comes to a running kernel or to recovery.
Settles == (pc = "policy") ~> (pc \in {"kernel", "recovery"})

\* A candidate at the front cannot hold the board in a loop of resets: a healthy kernel
\* comes up, or the candidate loses the front, or the board waits in recovery.
front(i) == LET n == mica_boot_next(durable) IN n # 0 /\ durable[n].id = i /\ durable[n].tries > 0
CandidateResolved == \A i \in Id : []<>(front(i) => healthy \/ pc = "recovery")
=============================================================================
