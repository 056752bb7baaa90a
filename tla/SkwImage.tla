------------------------------- MODULE SkwImage -------------------------------
(***************************************************************************)
(* Bringing up the Seekwave chip over SDIO: seekwave_boot_probe powers it, *)
(* reads the firmware files, finds the load addresses and the NV region in *)
(* the IRAM image, puts the board's NV data there, and writes both images  *)
(* into the chip's memory (skw_boot.c, skw_sdio_main.c).  The direct       *)
(* transfers share one address register with whoever else uses them.       *)
(* A word of an image is four bytes; a memory region stands for an address.*)
(***************************************************************************)
EXTENDS Integers, Sequences, FiniteSets, SequencesExt

CONSTANTS
    Firmware,       \* the firmware directories considered: [named, fallback: the images present,
                    \* iram: that image's words, nv: the NV file's words, <<>> if there is none]
    DramImage,
    HeadRange,      \* IMG_HEAD_INFOR_RANGE in words
    BlockWords,     \* cur_blksize, in words
    BusTries,       \* how often probe looks for the bus
    MaxOthers,      \* bound: transfers of others
    MaxImageFaults  \* bound: failing transfers and allocations

Images == {"dram", "iram"}
ASSUME ImageAssumption ==
    /\ Firmware \subseteq [named : SUBSET Images, fallback : SUBSET Images, iram : Seq(STRING), nv : Seq(STRING)]
    /\ DramImage \in Seq(STRING)
    /\ HeadRange \in Nat /\ BlockWords \in Nat \ {0} /\ {BusTries, MaxOthers, MaxImageFaults} \subseteq Nat

VARIABLES
    files,      \* the firmware directory
    dt,         \* the device tree's node: [present, activeLow]
    pin,        \* level of CHIP_EN
    busDev,     \* skw_get_bus_dev finds the card
    probe,      \* seekwave_boot_probe: [pc, tries, ret]
    boot_data,
    addressReg, \* the chip's address register
    transfer_mutex,
    tr,         \* direct transfers of "boot" and "other": [pc, op, addr, data, done, ret]
    mem,        \* the chip's memory
    started,    \* the download-done flag has been written
    imageGhost, \* masked: a failed DRAM write was overlooked; unlocked: an address was set over another's
    imageFuel

ImageVars == <<files, dt, pin, busDev, probe, boot_data, addressReg, transfer_mutex, tr, mem, started,
               imageGhost, imageFuel>>

Regions == {"dram", "iram", "zero", "config", "regs"}
Idle == [pc |-> "idle", op |-> "none", addr |-> "zero", data |-> <<>>, done |-> 0, ret |-> 0]
NoBoot == [chip_en |-> [polarity |-> 0], dram |-> <<>>, iram |-> <<>>, nv |-> <<>>,
           dram_dl_addr |-> "zero", iram_dl_addr |-> "zero"]

ImageInit ==
    /\ files \in Firmware
    /\ dt \in [present : BOOLEAN, activeLow : BOOLEAN] /\ (dt.activeLow => dt.present)
    /\ pin = 0 /\ busDev \in BOOLEAN
    /\ probe = [pc |-> "start", tries |-> 0, ret |-> 0] /\ boot_data = NoBoot
    /\ addressReg = "zero" /\ transfer_mutex = "free" /\ tr = [c \in {"boot", "other"} |-> Idle]
    /\ mem = [r \in Regions |-> <<>>] /\ started = FALSE
    /\ imageGhost = [masked |-> FALSE, unlocked |-> FALSE]
    /\ imageFuel = [others |-> MaxOthers, faults |-> MaxImageFaults]

Faults == imageFuel.faults > 0 /\ imageFuel' = [imageFuel EXCEPT !.faults = @ - 1]
Chip == <<addressReg, transfer_mutex, tr, mem, started, imageGhost>>

----------------------------------------------------------------------------
(* Power. *)

(* Bit 0 of the property's flags cell; without a node, active high. *)
GpioFlags == IF dt.present /\ dt.activeLow THEN 1 ELSE 0

(* seekwave_boot_parse_dt: chip_en carries the level that turns the chip off in its bit 0, and
   the pin is requested at the other level. *)
seekwave_boot_parse_dt ==
    /\ probe.pc = "start"
    /\ boot_data' = [boot_data EXCEPT !.chip_en = [polarity |-> GpioFlags]]
    /\ pin' = 1 - GpioFlags
    /\ probe' = [probe EXCEPT !.pc = "bus"]
    /\ UNCHANGED <<files, dt, busDev, Chip, imageFuel>>

(* skw_get_bus_dev: the first failure turns the chip off and on; after that only patience helps. *)
skw_get_bus_dev ==
    /\ probe.pc = "bus"
    /\ IF busDev
       THEN probe' = [probe EXCEPT !.pc = "files"] /\ UNCHANGED pin
       ELSE IF probe.tries <= BusTries
       THEN /\ probe' = [probe EXCEPT !.tries = @ + 1]
            /\ pin' = IF probe.tries = 0 THEN 1 - boot_data.chip_en.polarity ELSE pin
       ELSE probe' = [probe EXCEPT !.pc = "done", !.ret = -1] /\ UNCHANGED pin
    /\ UNCHANGED <<files, dt, busDev, boot_data, Chip, imageFuel>>

(* The card answers once its chip has power. *)
CardAppears ==
    /\ ~busDev /\ pin = IF dt.activeLow THEN 0 ELSE 1
    /\ busDev' = TRUE
    /\ UNCHANGED <<files, dt, pin, probe, boot_data, Chip, imageFuel>>

----------------------------------------------------------------------------
(* Files. *)

(* skw_request_firmwares, without running out of memory: nothing is kept unless both images are
   there.  A missing NV file is no failure. *)
skw_request_firmwares(present) ==
    IF present = {"dram", "iram"}
    THEN [boot_data EXCEPT !.dram = DramImage, !.iram = files.iram, !.nv = files.nv]
    ELSE boot_data

(* The IRAM copy cannot be allocated: the DRAM copy stays. *)
NoMemory(present) ==
    IF present = {"dram", "iram"} THEN [boot_data EXCEPT !.dram = DramImage] ELSE boot_data

At(img, i) == IF i + 1 \in DOMAIN img THEN img[i + 1] ELSE "x"
First(S) == CHOOSE i \in S : \A j \in S : i <= j
Scanned == 0 .. HeadRange - 1

Heads(img) == {i \in Scanned : At(img, i) = "kees" /\ At(img, i + 1) = "0616"}
Tails(img) == {i \in Scanned : At(img, i) = "TAIL0" /\ At(img, i + 1) = "TAIL1" /\ i > First(Heads(img))}
(* Offset 0 means that the mark has not been found. *)
NvHeads(img) == {i \in Scanned \ {0} : At(img, i) = "TSVN"}
NvTails(img) == {i \in Scanned : At(img, i) = "DEVN" /\ i > First(NvHeads(img))}

nv_data_size(img) ==
    IF NvHeads(img) = {} \/ NvTails(img) = {} THEN 0 ELSE First(NvTails(img)) - First(NvHeads(img)) - 1

(* The word after the header's end is IRAM's address, the next DRAM's. *)
LoadsAt(img, k) == LET w == At(img, First(Heads(img)) + 1 + k)
                   IN IF w = "@iram" THEN "iram" ELSE IF w = "@dram" THEN "dram" ELSE "zero"

WithNv(img, nv) ==
    LET h == First(NvHeads(img))
    IN [i \in DOMAIN img |-> IF i - h - 1 \in DOMAIN nv THEN nv[i - h - 1] ELSE img[i]]

(* skw_boot_init from the files on: an image without header and tail is left as it is. *)
Analysed(b) ==
    IF b.iram = <<>> \/ Heads(b.iram) = {} THEN b
    ELSE IF Tails(b.iram) = {} THEN b
    ELSE [b EXCEPT !.iram_dl_addr = LoadsAt(b.iram, 1), !.dram_dl_addr = LoadsAt(b.iram, 2),
                   !.iram = IF b.nv # <<>> /\ Len(b.nv) <= nv_data_size(b.iram) THEN WithNv(b.iram, b.nv) ELSE @]

(* skw_boot_init tries the bus's names, then the older ones; probe goes on whatever it returns. *)
skw_boot_init ==
    /\ probe.pc = "files"
    /\ \E present \in {IF files.named = {"dram", "iram"} THEN files.named ELSE files.fallback} :
         \/ boot_data' = Analysed(skw_request_firmwares(present)) /\ UNCHANGED imageFuel
         \/ Faults /\ boot_data' = NoMemory(present)
    /\ probe' = [probe EXCEPT !.pc = IF boot_data'.iram # <<>> /\ boot_data'.dram # <<>> THEN "config" ELSE "debug"]
    /\ UNCHANGED <<files, dt, pin, busDev, Chip>>

(* skw_sdio_cpdebug_boot: nothing to load; the chip runs what it has. *)
skw_sdio_cpdebug_boot ==
    /\ probe.pc = "debug" /\ probe' = [probe EXCEPT !.pc = "done"]
    /\ UNCHANGED <<files, dt, pin, busDev, boot_data, Chip, imageFuel>>

----------------------------------------------------------------------------
(* Direct transfers: take the mutex, set the address, move the data, let go. *)

Calls(c, op, addr, data) == tr' = [tr EXCEPT ![c] = [pc |-> IF op = "dt_read" THEN "address" ELSE "enter",
                                                     op |-> op, addr |-> addr, data |-> data, done |-> 0, ret |-> 0]]
Sdio == <<files, dt, pin, busDev, probe, boot_data>>

skw_sdio_transfer_enter(c) ==
    /\ tr[c].pc = "enter" /\ transfer_mutex = "free" /\ transfer_mutex' = c
    /\ tr' = [tr EXCEPT ![c] = [tr[c] EXCEPT !.pc = IF tr[c].op = "dt_read" THEN "data" ELSE "address"]]
    /\ UNCHANGED <<Sdio, addressReg, mem, started, imageGhost, imageFuel>>

(* A skw_sdio_dt_read sets its address after another's, or another one after a skw_sdio_dt_read's. *)
Exposed(c) == \E d \in DOMAIN tr \ {c} : \/ tr[c].op = "dt_read" /\ tr[d].pc = "data"
                                         \/ tr[d].op = "dt_read" /\ tr[d].pc \in {"enter", "data"}

(* skw_sdio_dt_set_address, four bytes under the host's claim; skw_sdio_dt_read sets it before it
   takes the mutex. *)
skw_sdio_dt_set_address(c) ==
    /\ tr[c].pc = "address"
    /\ imageGhost' = [imageGhost EXCEPT !.unlocked = @ \/ Exposed(c)]
    /\ \/ /\ addressReg' = tr[c].addr /\ UNCHANGED imageFuel
          /\ tr' = [tr EXCEPT ![c] = [tr[c] EXCEPT !.pc = IF tr[c].op = "dt_read" THEN "enter" ELSE "data"]]
       \/ /\ Faults /\ addressReg' = "zero"
          /\ tr' = [tr EXCEPT ![c] = [tr[c] EXCEPT !.ret = -1, !.pc = IF tr[c].op = "dt_read" THEN "end" ELSE "exit"]]
    /\ UNCHANGED <<Sdio, transfer_mutex, mem, started>>

Writes(op) == op \in {"dt_write", "writel"}

(* Fault: the last, shorter block is left out. *)
Chunks_short(data) == {SubSeq(data, 1, k) : k \in {l \in 0 .. Len(data) : l % BlockWords = 0}}

(* What a loop of blocks, the last one shorter, may have moved. *)
Chunks(data) == {SubSeq(data, 1, k) : k \in {l \in 0 .. Len(data) : l % BlockWords = 0} \cup {Len(data)}}
Whole(data) == CHOOSE p \in Chunks(data) : \A q \in Chunks(data) : Len(q) <= Len(p)

(* The loop of skw_sdio_dt_write and skw_sdio_dt_read, or one word, under the host's claim. *)
MovesData(c) ==
    /\ tr[c].pc = "data"
    /\ \E part \in Chunks(tr[c].data) :
        /\ IF part = Whole(tr[c].data) THEN UNCHANGED imageFuel ELSE Faults
        /\ mem' = IF Writes(tr[c].op) THEN [mem EXCEPT ![addressReg] = part] ELSE mem
        /\ tr' = [tr EXCEPT ![c] = [tr[c] EXCEPT !.pc = "exit",
                                                 !.ret = IF part = Whole(tr[c].data) THEN 0 ELSE -1,
                                                 !.done = IF addressReg = tr[c].addr THEN 1 ELSE 2]]
    /\ UNCHANGED <<Sdio, addressReg, transfer_mutex, started, imageGhost>>

(* skw_sdio_transfer_exit, then skw_sdio_abort if the transfer failed. *)
skw_sdio_transfer_exit(c) ==
    /\ tr[c].pc = "exit" /\ transfer_mutex' = "free"
    /\ tr' = [tr EXCEPT ![c] = [tr[c] EXCEPT !.pc = "end"]]
    /\ UNCHANGED <<Sdio, addressReg, mem, started, imageGhost, imageFuel>>

OtherCalls ==
    /\ tr["other"].pc \in {"idle", "end"} /\ imageFuel.others > 0
    /\ probe.pc \notin {"start", "bus", "files", "debug"}
    /\ imageFuel' = [imageFuel EXCEPT !.others = @ - 1]
    /\ \E op \in {"dt_read", "writel", "readl"} : Calls("other", op, "regs", <<"w">>)
    /\ UNCHANGED <<Sdio, addressReg, transfer_mutex, mem, started, imageGhost>>

----------------------------------------------------------------------------
(* skw_sdio_boot_cp of the first boot. *)

Loads(pc, addr, data, next) ==
    /\ probe.pc = pc /\ tr["boot"].pc = "idle" /\ Calls("boot", "dt_write", addr, data)
    /\ probe' = [probe EXCEPT !.pc = next]
    /\ UNCHANGED <<files, dt, pin, busDev, boot_data, addressReg, transfer_mutex, mem, started, imageGhost, imageFuel>>

BootWrites ==
    \/ Loads("config", "config", <<"0">>, "config?")
    \/ Loads("dram", boot_data.dram_dl_addr, boot_data.dram, "dram?")
    \/ Loads("iram", boot_data.iram_dl_addr, boot_data.iram, "iram?")

Follows(pc) == CASE pc = "config?" -> "dram" [] pc = "dram?" -> "iram" [] OTHER -> "flag"

(* Only the last write's result is looked at: the two before it share its variable. *)
BootWritten ==
    /\ probe.pc \in {"config?", "dram?", "iram?"} /\ tr["boot"].pc = "end"
    /\ tr' = [tr EXCEPT !["boot"] = Idle]
    /\ probe' = IF probe.pc = "iram?" /\ tr["boot"].ret # 0
                THEN [probe EXCEPT !.pc = "done"]      \* skw_boot_loader drops the result
                ELSE [probe EXCEPT !.pc = Follows(probe.pc)]
    /\ imageGhost' = [imageGhost EXCEPT !.masked = @ \/ (probe.pc = "dram?" /\ tr["boot"].ret # 0)]
    /\ UNCHANGED <<files, dt, pin, busDev, boot_data, addressReg, transfer_mutex, mem, started, imageFuel>>

(* The download-done flag: the chip starts what it has. *)
BootStarts ==
    /\ probe.pc = "flag"
    /\ \/ started' = TRUE /\ UNCHANGED imageFuel
       \/ Faults /\ UNCHANGED started
    /\ probe' = [probe EXCEPT !.pc = "done"]
    /\ UNCHANGED <<files, dt, pin, busDev, boot_data, addressReg, transfer_mutex, tr, mem, imageGhost>>

ImageNext ==
    \/ seekwave_boot_parse_dt \/ skw_get_bus_dev \/ CardAppears \/ skw_boot_init \/ skw_sdio_cpdebug_boot
    \/ \E c \in DOMAIN tr : \/ skw_sdio_transfer_enter(c) \/ skw_sdio_dt_set_address(c)
                            \/ MovesData(c) \/ skw_sdio_transfer_exit(c)
    \/ OtherCalls \/ BootWrites \/ BootWritten \/ BootStarts

ImageSpec == ImageInit /\ [][ImageNext]_ImageVars

----------------------------------------------------------------------------
(* The board's NV data goes between the image's NV marks, if it fits, and nothing else of the
   image changes (skw_boot_init). *)
ImageNvInPlace ==
    boot_data.iram # <<>> =>
        /\ Len(boot_data.iram) = Len(files.iram)
        /\ \A i \in DOMAIN files.iram : boot_data.iram[i] # files.iram[i] =>
             /\ \E h \in 1 .. i - 1 : files.iram[h] = "TSVN" /\ \A j \in h + 1 .. i : files.iram[j] # "DEVN"
             /\ \E t \in i + 1 .. Len(files.iram) : files.iram[t] = "DEVN"

(* A chip that is started has both images whole at the addresses the image names, although any
   transfer may fail half-way; the two known exceptions are a failed DRAM write, whose result is
   overwritten, and an address set outside the mutex (skw_sdio_boot_cp, skw_sdio_dt_read). *)
ImageWhole ==
    (started /\ ~imageGhost.masked /\ ~imageGhost.unlocked /\ boot_data.iram_dl_addr # boot_data.dram_dl_addr) =>
        mem[boot_data.iram_dl_addr] = boot_data.iram /\ mem[boot_data.dram_dl_addr] = boot_data.dram

(* A transfer moves its data at the address it was given, whatever the others do, as long as no
   skw_sdio_dt_read sets its address while another transfer has set its own. *)
DirectAddressed == \A c \in DOMAIN tr : tr[c].done = 2 => imageGhost.unlocked

(* The chip is not held in reset while it is looked for or loaded, whatever the polarity of its
   enable pin (seekwave_boot_parse_dt, SKW_CHIP_POWERON). *)
ImagePowered == probe.pc # "start" => pin = IF dt.activeLow THEN 0 ELSE 1

(* The images reach the powered chip whole, where they belong, with the board's data in its
   place. *)
ImageSafe == ImageNvInPlace /\ ImageWhole /\ DirectAddressed /\ ImagePowered
=============================================================================
