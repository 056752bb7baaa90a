--------------------------- MODULE FileBootProofs ---------------------------
(***************************************************************************)
(* Theorems of FileBoot for every board, every set of ids and kernels,     *)
(* every generation limit and any number of outages and read errors.       *)
(*                                                                         *)
(* TrialBudget is not inductive: whether a launch is covered depends on    *)
(* which of the two copies a boot decodes, and that on flags, on a torn    *)
(* write and on the device's cache.  Inv adds what the copies hold in each *)
(* phase of the transaction.                                               *)
(***************************************************************************)
EXTENDS FileBoot, BootRecordsProofs

successor(f) == (f + 1) % 256

\* Both copies valid: the flags are equal or one is the other's successor.
Adjacent(c) ==
    c[0].crc /\ c[1].crc => \/ c[0].flag = c[1].flag
                            \/ c[0].flag = successor(c[1].flag)
                            \/ c[1].flag = successor(c[0].flag)

\* A copy with a right CRC holds records.
Decodable(c) == \A s \in Slots : c[s].crc => c[s].text \in Text

\* With launches att and read errors rf, every candidate of r is covered, with extra
\* launches forgiven.
Covered(att, rf, r, extra) ==
    \A i \in DOMAIN r : r[i].tries >= 0 => att[r[i].id] + r[i].tries <= TrialLimit + rf + extra
CopyCovered(att, rf, copy, extra) == copy.crc => Covered(att, rf, decode_environment(copy), extra)

\* The copies on the medium: the one that counts covers its candidates, the other one
\* may be a trial behind.
MediaOK(c, att, rf) ==
    /\ Decodable(c) /\ Adjacent(c)
    /\ \A s \in Slots : CopyCovered(att, rf, c[s], 1)
    /\ \A s \in Slots : chosen(c) = s => CopyCovered(att, rf, c[s], 0)
MediaInv == MediaOK(media, attempts, readFaults)

\* After the read, until a write: the slot's copy is what the records came from.
HasRead ==
    /\ records \in Records
    /\ media[slot].crc /\ buffer[slot] = media[slot]
    /\ Covered(attempts, readFaults, records, 0)
    /\ CopyCovered(attempts, readFaults, media[slot], 0)

\* A write is prepared: the pending copy holds the records in RAM.
HasPending ==
    /\ records \in Records /\ next \in DOMAIN records
    /\ media[slot].crc /\ CopyCovered(attempts, readFaults, media[slot], 0)
    /\ pending = newCopy(media[slot].flag, records)
    /\ Covered(attempts, readFaults, records, 0)

\* The selected candidate's next launch is covered.
Paid == attempts[records[next].id] + records[next].tries + 1 <= TrialLimit + readFaults

\* The write is on the medium.
HasPersisted ==
    /\ records \in Records /\ next \in DOMAIN records
    /\ media[slot].crc /\ media[1 - slot] = newCopy(media[slot].flag, records)

SelectInv == pc = "select" => HasRead /\ ~retiring
PendingInv ==
    pc \in {"write", "flush", "readback"} =>
        HasPending /\ (~retiring => records[next].tries >= 0 /\ Paid)
LoadInv ==
    pc \in {"load", "bootm", "failed"} =>
        /\ ~retiring /\ next \in DOMAIN records
        /\ records[next].tries < 0 => HasRead
        /\ records[next].tries >= 0 => HasPersisted
LaunchInv ==
    pc \in {"load", "bootm"} /\ records[next].tries >= 0 =>
        Paid /\ CopyCovered(attempts, readFaults, media[slot], 0)
KernelInv == pc = "kernel" => chosen(media) \in Slots
EarlyInv == pc \in {"off", "policy", "watchdog", "storage", "read"} => ~retiring
PhaseInv == SelectInv /\ PendingInv /\ LoadInv /\ LaunchInv /\ KernelInv /\ EarlyInv

\* Only the write of the pending copy makes the cache differ from the medium.
CacheInv ==
    seen # media => /\ pc \in {"flush", "recovery"} /\ HasPending
                    /\ seen \in {[media EXCEPT ![1 - slot] = pending],
                                 [media EXCEPT ![1 - slot] = Bad]}

Inv == TypeOK /\ TrialBudget /\ MediaInv /\ PhaseInv /\ CacheInv

-----------------------------------------------------------------------------
(* The copies.                                                             *)

\* The copies after left has come to stand beside slot s, and what left may be when r is
\* written there.
written(c, s, left) == [c EXCEPT ![1 - s] = left]
leavings(c, s, r) == {c[1 - s], newCopy(c[s].flag, r), Bad}

\* Records r may be written beside the valid copy s.
Writable(c, att, rf, s, r) ==
    /\ c \in [Slots -> Copy] /\ att \in [Id -> Nat] /\ rf \in Nat /\ MediaOK(c, att, rf)
    /\ s \in Slots /\ c[s].crc /\ CopyCovered(att, rf, c[s], 0)
    /\ r \in Records /\ Covered(att, rf, r, 0)

\* d is what such a write may leave.
WrittenOK(c, att, rf, s, r, left, d) ==
    /\ d \in [Slots -> Copy] /\ MediaOK(d, att, rf)
    /\ d[s] = c[s] /\ d[1 - s] = left
    /\ chosen(d) \in Slots
    /\ left = newCopy(c[s].flag, r) => chosen(d) = 1 - s

\* Which copy counts.
LEMMA ChosenSlot ==
    ASSUME NEW c \in [Slots -> Copy]
    PROVE  /\ chosen(c) \in {-1, 0, 1}
           /\ chosen(c) = -1 <=> ~c[0].crc /\ ~c[1].crc
           /\ \A s \in Slots : chosen(c) = s => c[s].crc
           /\ \A s \in Slots : c[s].crc /\ ~c[1 - s].crc => chosen(c) = s
           /\ \A s \in Slots : c[0].crc /\ c[1].crc /\ c[1 - s].flag = successor(c[s].flag)
                                  => chosen(c) = 1 - s
<1>1. /\ c[0].crc \in BOOLEAN /\ c[1].crc \in BOOLEAN
      /\ c[0].flag \in 0 .. 255 /\ c[1].flag \in 0 .. 255
    BY DEF Slots, Copy, Flags
<1>2. /\ chosen(c) \in {-1, 0, 1}
      /\ chosen(c) = -1 <=> ~c[0].crc /\ ~c[1].crc
      /\ chosen(c) = 0 => c[0].crc
      /\ chosen(c) = 1 => c[1].crc
      /\ c[0].crc /\ c[1].crc /\ c[1].flag = (c[0].flag + 1) % 256 => chosen(c) = 1
      /\ c[0].crc /\ c[1].crc /\ c[0].flag = (c[1].flag + 1) % 256 => chosen(c) = 0
      /\ ~c[0].crc /\ c[1].crc => chosen(c) = 1
      /\ c[0].crc /\ ~c[1].crc => chosen(c) = 0
    BY <1>1, SMTT(30) DEF chosen, mica_boot_slot
<1>3. 1 - 0 = 1 /\ 1 - 1 = 0
    OBVIOUS
<1> QED
    BY <1>2, <1>3, ZenonT(30) DEF Slots, successor

\* A copy built from records is a copy, and decodes to them.
LEMMA NewCopy ==
    ASSUME NEW f \in Flags, NEW r \in Records
    PROVE  /\ newCopy(f, r) \in Copy
           /\ newCopy(f, r).crc /\ newCopy(f, r).flag = successor(f)
           /\ newCopy(f, r).text \in Text
           /\ decode_environment(newCopy(f, r)) = r
<1>1. (f + 1) % 256 \in Flags
    BY DEF Flags
<1>2. /\ mica_boot_render(r) \in Text
      /\ mica_boot_parse(mica_boot_render(r)) = r
    BY RenderRecords
<1> QED
    BY <1>1, <1>2 DEF newCopy, Copy, successor, decode_environment

\* A bad copy is one.
LEMMA BadCopy == Bad \in Copy /\ ~Bad.crc
BY DEF Bad, Copy, Flags

\* Fewer launches and more read errors leave every copy covered.
LEMMA CoverMonotone ==
    ASSUME NEW c \in [Slots -> Copy], NEW att \in [Id -> Nat], NEW att2 \in [Id -> Nat],
           NEW rf \in Nat, NEW rf2 \in Nat, rf <= rf2, \A i \in Id : att2[i] <= att[i],
           MediaOK(c, att, rf)
    PROVE  /\ MediaOK(c, att2, rf2)
           /\ \A r \in Records, e \in {0, 1} : Covered(att, rf, r, e) => Covered(att2, rf2, r, e)
           /\ \A r \in Records : rf < rf2 /\ Covered(att, rf, r, 1) => Covered(att2, rf2, r, 0)
<1>1. \A r \in Records : \A i \in DOMAIN r : r[i].id \in Id /\ r[i].tries \in Int
    BY RecordEntry
<1>2. \A r \in Records, e \in {0, 1} : Covered(att, rf, r, e) => Covered(att2, rf2, r, e)
    BY <1>1 DEF Covered, TrialLimit
<1>3. \A r \in Records : rf < rf2 /\ Covered(att, rf, r, 1) => Covered(att2, rf2, r, 0)
    BY <1>1 DEF Covered, TrialLimit
<1>4. \A s \in Slots : c[s].crc => decode_environment(c[s]) \in Records
    BY ParseText DEF MediaOK, Decodable, decode_environment
<1> QED
    BY <1>2, <1>3, <1>4 DEF MediaOK, CopyCovered

\* Whatever a write next to a covered copy leaves, the copies stay in order, the copy beside
\* it is untouched, and if the new copy landed it is the one that counts.
LEMMA WriteCopy ==
    ASSUME NEW c, NEW att, NEW rf, NEW s, NEW r, Writable(c, att, rf, s, r),
           NEW left \in leavings(c, s, r)
    PROVE  WrittenOK(c, att, rf, s, r, left, written(c, s, left))
<1> USE DEF Writable
<1> DEFINE new == newCopy(c[s].flag, r)
           d == [c EXCEPT ![1 - s] = left]
<1>0. left \in {c[1 - s], new, Bad}
    BY DEF leavings
<1>1. c[s].flag \in Flags /\ 1 - s \in Slots /\ 1 - s # s /\ 1 - (1 - s) = s
    BY DEF Copy, Slots
<1>2. /\ new \in Copy /\ new.crc /\ new.flag = successor(c[s].flag)
      /\ new.text \in Text /\ decode_environment(new) = r
    BY <1>1, NewCopy
<1>3. left \in Copy
    BY <1>0, <1>1, <1>2, BadCopy
<1>4. d \in [Slots -> Copy] /\ d[s] = c[s] /\ d[1 - s] = left
    BY <1>1, <1>3
<1>5. \A t \in Slots : t = s \/ t = 1 - s
    BY DEF Slots
<1>6. Decodable(d)
    BY <1>0, <1>1, <1>2, <1>4, <1>5, BadCopy DEF MediaOK, Decodable
<1>7. left = new => chosen(d) = 1 - s
  <2>1. ASSUME left = new PROVE d[0].crc /\ d[1].crc /\ d[1 - s].flag = successor(d[s].flag)
    BY <2>1, <1>2, <1>4 DEF Slots
  <2>2. d \in [Slots -> Copy]
    BY <1>4
  <2> QED
    BY <2>1, <2>2, ChosenSlot, Zenon
<1>8. left = Bad => chosen(d) = s
  <2>1. ASSUME left = Bad PROVE d[s].crc /\ ~d[1 - s].crc
    BY <2>1, <1>4, BadCopy
  <2> QED
    BY <2>1, <1>4, ChosenSlot
<1>9. left = c[1 - s] => d = c
    BY <1>1, <1>4, <1>5
<1>10. chosen(d) \in Slots
    BY <1>4, ChosenSlot DEF Slots
<1>11. Adjacent(d)
  <2>1. CASE left = new
    BY <2>1, <1>2, <1>4 DEF Adjacent, Slots
  <2>2. CASE left = Bad
    BY <2>2, <1>4, BadCopy DEF Adjacent, Slots
  <2>3. CASE left = c[1 - s]
    BY <2>3, <1>9 DEF MediaOK
  <2> QED
    BY <1>0, <2>1, <2>2, <2>3
<1>12. CopyCovered(att, rf, new, 0)
    BY <1>2 DEF CopyCovered
<1>13. \A x \in Copy : x.crc /\ x.text \in Text /\ CopyCovered(att, rf, x, 0) => CopyCovered(att, rf, x, 1)
  <2>1. \A q \in Records : Covered(att, rf, q, 0) => Covered(att, rf, q, 1)
    BY RecordEntry DEF Covered, TrialLimit
  <2> QED
    BY <2>1, ParseText DEF CopyCovered, decode_environment
<1>14. \A t \in Slots : CopyCovered(att, rf, d[t], 1) /\ (chosen(d) = t => CopyCovered(att, rf, d[t], 0))
  <2>1. CASE left = new
    <3>1. CopyCovered(att, rf, d[s], 0) /\ CopyCovered(att, rf, d[1 - s], 0)
      BY <2>1, <1>4, <1>12
    <3>2. CopyCovered(att, rf, d[s], 1) /\ CopyCovered(att, rf, d[1 - s], 1)
      BY <3>1, <1>1, <1>4, <1>6, <1>13 DEF Decodable, CopyCovered
    <3> QED
      BY <3>1, <3>2, <1>5
  <2>2. CASE left = Bad
    <3>1. CopyCovered(att, rf, d[1 - s], 1) /\ CopyCovered(att, rf, d[1 - s], 0)
      BY <2>2, <1>4, BadCopy DEF CopyCovered
    <3>2. CopyCovered(att, rf, d[s], 1) /\ CopyCovered(att, rf, d[s], 0)
      BY <1>4 DEF MediaOK
    <3> QED
      BY <3>1, <3>2, <1>5
  <2>3. CASE left = c[1 - s]
    BY <2>3, <1>9 DEF MediaOK
  <2> QED
    BY <1>0, <2>1, <2>2, <2>3
<1> QED
    BY <1>4, <1>6, <1>7, <1>10, <1>11, <1>14 DEF MediaOK, written, WrittenOK

-----------------------------------------------------------------------------
(* The steps.                                                              *)

\* The initial states.
LEMMA InitInv == Init => Inv
<1> SUFFICES ASSUME Init PROVE Inv
    OBVIOUS
<1>1. PICK r \in AssemblyRecords, f \in AssemblyFlags, both \in BOOLEAN, blankDisk \in BOOLEAN :
         media = IF blankDisk THEN cleared
                 ELSE [s \in Slots |->
                         IF s = 0 \/ both
                         THEN [crc |-> TRUE, flag |-> f, text |-> mica_boot_render(r)] ELSE Bad]
    BY DEF Init
<1>2. r \in Records /\ f \in Flags
    BY AssemblyAssumption DEF Flags
<1> DEFINE first == [crc |-> TRUE, flag |-> f, text |-> mica_boot_render(r)]
<1>3. /\ first \in Copy /\ first.crc /\ first.flag = f /\ first.text \in Text
      /\ decode_environment(first) = r
    BY <1>2, RenderRecords DEF Copy, decode_environment
<1>4. media \in [Slots -> Copy] /\ \A s \in Slots : media[s] = first \/ media[s] = Bad
    BY <1>1, <1>3, BadCopy DEF cleared
<1>5. TypeOK
  <2>1. cleared \in [Slots -> Copy]
    BY BadCopy DEF cleared
  <2>2. wdt \in BOOLEAN /\ retiring \in BOOLEAN /\ healthy \in BOOLEAN
    BY DEF Init
  <2>3. /\ disk \in Disks /\ pc \in PCs /\ slot \in Slots /\ next \in 0 .. RecordLimit
        /\ readFaults \in 0 .. MaxReadFaults /\ outages \in 0 .. MaxOutages
    BY BoundsAssumption DEF Init, PCs, LoaderPCs, Slots, RecordLimit
  <2>4. attempts \in [Id -> Nat] /\ running \in Id \cup {NoId}
        /\ records \in Records \cup {NoRecords}
    BY DEF Init
  <2> QED
    BY <1>4, <2>1, <2>2, <2>3, <2>4 DEF Init, TypeOK
<1>6. \A x \in {0, 1} : Covered(attempts, readFaults, r, x)
    BY <1>2, RecordEntry DEF Init, Covered, Tries, Confirmed, TrialLimit
<1>7. \A s \in Slots : CopyCovered(attempts, readFaults, media[s], 0)
                       /\ CopyCovered(attempts, readFaults, media[s], 1)
    BY <1>3, <1>4, <1>6, BadCopy DEF CopyCovered
<1>8. Decodable(media) /\ Adjacent(media)
    BY <1>3, <1>4, BadCopy DEF Decodable, Adjacent, Slots
<1>9. MediaInv
    BY <1>7, <1>8 DEF MediaInv, MediaOK
<1>10. PhaseInv /\ CacheInv /\ TrialBudget
    BY DEF Init, PhaseInv, SelectInv, PendingInv, LoadInv, LaunchInv, KernelInv, EarlyInv,
           CacheInv, TrialBudget, TrialLimit
<1> QED
    BY <1>5, <1>9, <1>10 DEF Inv

\* The parts of the invariant that a step keeps when it touches neither the medium, nor
\* the records in RAM, nor the launches.
LEMMA ControlStep ==
    ASSUME Inv, UNCHANGED <<media, seen, disk, buffer, slot, records, next, retiring, attempts,
                            readFaults>>,
           pc' \in PCs, wdt' \in BOOLEAN, outages' \in 0 .. MaxOutages,
           running' \in Id \cup {NoId}, healthy' \in BOOLEAN
    PROVE  TypeOK' /\ TrialBudget' /\ MediaInv'
<1>1. TypeOK'
    BY DEF Inv, TypeOK
<1>2. TrialBudget' /\ MediaInv'
    BY DEF Inv, TrialBudget, MediaInv
<1> QED
    BY <1>1, <1>2

\* A step into recovery, from wherever the loader is.
LEMMA RecoveryStep ==
    ASSUME Inv, UNCHANGED <<media, seen, disk, buffer, slot, records, next, retiring, attempts,
                            readFaults, wdt, running, healthy, outages>>,
           pc' = "recovery"
    PROVE  Inv'
<1>1. TypeOK' /\ TrialBudget' /\ MediaInv'
    BY ControlStep DEF Inv, TypeOK, PCs
<1>2. PhaseInv'
    BY DEF PhaseInv, SelectInv, PendingInv, LoadInv, LaunchInv, KernelInv, EarlyInv
<1>3. CacheInv'
    BY DEF Inv, CacheInv, HasPending, pending
<1> QED
    BY <1>1, <1>2, <1>3 DEF Inv

\* The steps before the environment is read.
LEMMA EarlySteps ==
    ASSUME Inv,
           PowerOn \/ CheckRecoveryKey \/ CheckBoot0 \/ StartWatchdog \/ OpenDisk
    PROVE  Inv'
<1>1. UNCHANGED <<media, seen, disk, buffer, slot, records, next, retiring, attempts,
                  readFaults, running, healthy, outages>>
    BY DEF PowerOn, CheckRecoveryKey, CheckBoot0, StartWatchdog, OpenDisk, proceed, recovery,
           store, ram, os, history
<1>2. /\ pc \in {"off", "policy", "watchdog", "storage"}
      /\ pc' \in {"policy", "watchdog", "storage", "read", "recovery"}
      /\ wdt' \in BOOLEAN
    BY DEF PowerOn, CheckRecoveryKey, CheckBoot0, StartWatchdog, OpenDisk, proceed, recovery,
           Inv, TypeOK
<1>3. TypeOK' /\ TrialBudget' /\ MediaInv'
    BY <1>1, <1>2, ControlStep DEF Inv, TypeOK, PCs, LoaderPCs
<1>4. PhaseInv'
    BY <1>1, <1>2 DEF Inv, PhaseInv, SelectInv, PendingInv, LoadInv, LaunchInv, KernelInv, EarlyInv
<1>5. CacheInv'
    BY <1>1, <1>2 DEF Inv, CacheInv
<1> QED
    BY <1>3, <1>4, <1>5 DEF Inv

\* The copy the environment is read from is covered: it is the one that counts, or a read
\* error has just been counted.
LEMMA ReadStep == ASSUME Inv, ReadEnvironment PROVE Inv'
<1>1. PICK unreadable \in SUBSET Slots :
         /\ unreadable # {} => readFaults < MaxReadFaults
         /\ readFaults' = IF unreadable = {} THEN readFaults ELSE readFaults + 1
         /\ read_environment(unreadable)
    BY DEF ReadEnvironment
<1> DEFINE valid == [s \in Slots |-> s \notin unreadable /\ seen[s].crc]
           copies == [s \in Slots |-> IF s \in unreadable THEN Bad ELSE seen[s]]
           from == mica_boot_slot(valid[0], copies[0].flag, valid[1], copies[1].flag)
           decoded == IF from = -1 THEN NoRecords ELSE decode_environment(copies[from])
<1>2. /\ pc = "read" /\ UNCHANGED <<media, seen, disk, wdt, running, healthy, attempts, outages>>
      /\ next' = next /\ retiring' = retiring
    BY <1>1 DEF ReadEnvironment, read_environment, store, os, ram
<1>3. seen = media /\ ~retiring
    BY <1>2 DEF Inv, CacheInv, PhaseInv, EarlyInv
<1>4. copies \in [Slots -> Copy] /\ \A s \in Slots : copies[s] = media[s] \/ copies[s] = Bad
    BY <1>3, BadCopy DEF Inv, TypeOK
<1>5. \A s \in Slots : valid[s] = copies[s].crc
  <2> SUFFICES ASSUME NEW s \in Slots PROVE valid[s] = copies[s].crc
    OBVIOUS
  <2>1. CASE s \in unreadable
    <3>1. copies[s] = Bad
      BY <2>1
    <3>2. Bad.crc = FALSE
      BY DEF Bad
    <3>3. valid[s] = FALSE
      BY <2>1
    <3> QED
      BY <3>1, <3>2, <3>3, Zenon
  <2>2. CASE s \notin unreadable
    <3>1. seen[s].crc \in BOOLEAN
      BY <1>3 DEF Inv, TypeOK, Copy
    <3> QED
      BY <2>2, <3>1
  <2> QED
    BY <2>1, <2>2
<1>6. from = chosen(copies)
  <2>1. valid[0] = copies[0].crc /\ valid[1] = copies[1].crc
    BY <1>5 DEF Slots
  <2> QED
    BY <2>1, Zenon DEF chosen
<1>7. readFaults' \in 0 .. MaxReadFaults /\ readFaults <= readFaults' /\ readFaults' \in Nat
      /\ readFaults \in Nat /\ (unreadable # {} => readFaults < readFaults')
    BY <1>1, BoundsAssumption DEF Inv, TypeOK
<1>8. /\ attempts \in [Id -> Nat] /\ media \in [Slots -> Copy]
      /\ MediaOK(media, attempts, readFaults)
    BY DEF Inv, TypeOK, MediaInv
<1>9. /\ MediaOK(media, attempts, readFaults')
      /\ \A r \in Records, e \in {0, 1} :
            Covered(attempts, readFaults, r, e) => Covered(attempts, readFaults', r, e)
      /\ \A r \in Records :
            readFaults < readFaults' /\ Covered(attempts, readFaults, r, 1)
              => Covered(attempts, readFaults', r, 0)
  <2>1. \A i \in Id : attempts[i] <= attempts[i]
    BY <1>8
  <2> QED
    BY <1>7, <1>8, <2>1, CoverMonotone
<1>10. MediaInv'
    BY <1>2, <1>9 DEF MediaInv
<1>11. TrialBudget'
    BY <1>2, <1>7, <1>8 DEF Inv, TrialBudget, TrialLimit
<1>12. CacheInv'
    BY <1>2, <1>3 DEF CacheInv
<1>13. CASE decoded = NoRecords
  <2>1. pc' = "recovery" /\ UNCHANGED <<buffer, slot, records, next, retiring>>
    BY <1>1, <1>13 DEF read_environment, ram
  <2>2. TypeOK'
    BY <1>2, <1>7, <2>1 DEF Inv, TypeOK, PCs
  <2>3. PhaseInv'
    BY <2>1 DEF PhaseInv, SelectInv, PendingInv, LoadInv, LaunchInv, KernelInv, EarlyInv
  <2> QED
    BY <1>10, <1>11, <1>12, <2>2, <2>3 DEF Inv
<1>14. CASE decoded # NoRecords
  <2>1. pc' = "select" /\ buffer' = copies /\ slot' = from /\ records' = decoded
    BY <1>1, <1>14 DEF read_environment
  <2>2. from \in Slots /\ copies[from].crc /\ decoded = decode_environment(copies[from])
    BY <1>4, <1>6, <1>14, ChosenSlot DEF Slots
  <2>3. copies[from] = media[from] /\ media[from].crc /\ from \notin unreadable
    BY <1>4, <2>2, BadCopy
  <2>4. decoded \in Records
    BY <1>8, <2>2, <2>3, ParseText DEF MediaOK, Decodable, decode_environment
  <2>5. Covered(attempts, readFaults', decoded, 0)
    <3>1. CASE unreadable = {}
      <4>1. copies = media
        BY <1>3, <1>8, <3>1
      <4>2. chosen(media) = from
        BY <4>1, <1>6
      <4>3. Covered(attempts, readFaults, decoded, 0)
        BY <4>2, <1>8, <2>2, <2>3 DEF MediaOK, CopyCovered
      <4> QED
        BY <4>3, <1>9, <2>4
    <3>2. CASE unreadable # {}
      <4>1. Covered(attempts, readFaults, decoded, 1)
        BY <1>8, <2>2, <2>3 DEF MediaOK, CopyCovered
      <4> QED
        BY <4>1, <3>2, <1>7, <1>9, <2>4
    <3> QED
      BY <3>1, <3>2
  <2>6. HasRead'
    BY <1>2, <2>1, <2>2, <2>3, <2>4, <2>5 DEF HasRead, CopyCovered
  <2>7. PhaseInv'
    BY <1>2, <1>3, <2>1, <2>6
       DEF PhaseInv, SelectInv, PendingInv, LoadInv, LaunchInv, KernelInv, EarlyInv
  <2>8. TypeOK'
    BY <1>2, <1>4, <1>7, <2>1, <2>2, <2>4 DEF Inv, TypeOK, PCs, LoaderPCs
  <2> QED
    BY <1>10, <1>11, <1>12, <2>7, <2>8 DEF Inv
<1> QED
    BY <1>13, <1>14

\* Records with the trials of one entry set are prepared for the write.
LEMMA PrepareStep ==
    ASSUME Inv, HasRead, seen = media, NEW n \in DOMAIN records, NEW t \in Tries,
           UNCHANGED <<media, seen, disk, wdt, slot, running, healthy, attempts, readFaults, outages>>,
           records' = setTries(records, n, t), preparePending(records'),
           next' = n, retiring' \in BOOLEAN,
           t >= 0 => attempts[records[n].id] + t <= TrialLimit + readFaults,
           ~retiring' => /\ t >= 0
                         /\ attempts[records[n].id] + t + 1 <= TrialLimit + readFaults
    PROVE  Inv'
<1>1. records \in Records
    BY DEF HasRead
<1>2. /\ records' \in Records /\ DOMAIN records' = DOMAIN records
      /\ \A i \in DOMAIN records : /\ records'[i].id = records[i].id
                                   /\ records'[i].tries = IF i = n THEN t ELSE records[i].tries
    BY <1>1, SetTries
<1>3. pc' = "write" /\ buffer' = [buffer EXCEPT ![1 - slot] = newCopy(buffer[slot].flag, records')]
    BY <1>2, RenderRecords DEF preparePending
<1>4. /\ slot \in Slots /\ 1 - slot \in Slots /\ buffer \in [Slots -> Copy]
      /\ buffer[slot] = media[slot] /\ media[slot].flag \in Flags
    BY DEF Inv, TypeOK, Slots, HasRead, Copy
<1>5. newCopy(media[slot].flag, records') \in Copy
    BY <1>2, <1>4, NewCopy
<1>6. buffer' \in [Slots -> Copy] /\ buffer'[1 - slot] = newCopy(media[slot].flag, records')
    BY <1>3, <1>4, <1>5
<1>7. TypeOK'
  <2>1. n \in 0 .. RecordLimit
    BY <1>1, RecordEntry DEF RecordLimit
  <2> QED
    BY <1>2, <1>3, <1>6, <2>1 DEF Inv, TypeOK, PCs, LoaderPCs
<1>8. TrialBudget' /\ MediaInv' /\ CacheInv'
    BY DEF Inv, TrialBudget, MediaInv, CacheInv
<1>9. Covered(attempts, readFaults, records', 0)
  <2>1. attempts \in [Id -> Nat] /\ readFaults \in Nat
    BY BoundsAssumption DEF Inv, TypeOK
  <2> QED
    BY <1>1, <1>2, <2>1, RecordEntry DEF HasRead, Covered, TrialLimit, Tries, Confirmed
<1>10. HasPending'
    BY <1>2, <1>6, <1>9 DEF HasPending, HasRead, pending
<1>11. PhaseInv'
    BY <1>2, <1>3, <1>10
       DEF PhaseInv, SelectInv, PendingInv, LoadInv, LaunchInv, KernelInv, EarlyInv, Paid
<1> QED
    BY <1>7, <1>8, <1>11 DEF Inv

\* Selecting a record: nothing left, a candidate that pays, a confirmed deployment.
LEMMA SelectStep == ASSUME Inv, SelectNext PROVE Inv'
<1> DEFINE n == mica_boot_next(records)
<1>1. /\ pc = "select"
      /\ UNCHANGED <<media, seen, disk, wdt, slot, retiring, running, healthy, attempts, readFaults,
                     outages>>
    BY DEF SelectNext, store, os, history, ram
<1>2. HasRead /\ ~retiring /\ seen = media
    BY <1>1 DEF Inv, PhaseInv, SelectInv, CacheInv
<1>3. records \in Records /\ attempts \in [Id -> Nat] /\ readFaults \in Nat
    BY <1>2, BoundsAssumption DEF HasRead, Inv, TypeOK
<1>4. n = 0 \/ (n \in DOMAIN records /\ n # 0 /\ records[n].tries # 0)
    BY <1>3, NextRecord
<1>5. CASE n = 0
  <2>1. pc' = "recovery" /\ UNCHANGED <<buffer, records, next>>
    BY <1>5 DEF SelectNext, ram
  <2> QED
    BY <1>1, <2>1, RecoveryStep
<1>6. CASE n # 0 /\ records[n].tries > 0
  <2> DEFINE t == records[n].tries - 1
  <2>1. next' = n /\ records' = setTries(records, n, t) /\ preparePending(records')
    BY <1>6, <1>3, <1>4, RecordEntry DEF SelectNext
  <2>2. n \in DOMAIN records /\ t \in Tries /\ t >= 0 /\ records[n].id \in Id
        /\ records[n].tries \in Int
    BY <1>3, <1>4, <1>6, RecordEntry DEF Tries, Confirmed, TrialLimit
  <2>3. attempts[records[n].id] + records[n].tries <= TrialLimit + readFaults
    BY <1>2, <1>3, <2>2, <1>6 DEF HasRead, Covered, TrialLimit
  <2>4. /\ attempts[records[n].id] + t + 1 <= TrialLimit + readFaults
        /\ attempts[records[n].id] + t <= TrialLimit + readFaults
    BY <1>3, <2>2, <2>3 DEF TrialLimit
  <2>5. retiring' \in BOOLEAN
    BY <1>1 DEF Inv, TypeOK
  <2> HIDE DEF t, n
  <2> QED
    BY <1>1, <1>2, <2>1, <2>2, <2>4, <2>5, PrepareStep
<1>7. CASE n # 0 /\ records[n].tries < 0
  <2>1. next' = n /\ pc' = "load" /\ UNCHANGED <<buffer, records>>
    BY <1>7, <1>3, <1>4, RecordEntry DEF SelectNext
  <2>2. n \in DOMAIN records /\ n \in 0 .. RecordLimit
    BY <1>3, <1>4, <1>7, RecordEntry DEF RecordLimit
  <2>3. TypeOK' /\ TrialBudget' /\ MediaInv' /\ CacheInv'
    BY <1>1, <1>2, <2>1, <2>2
       DEF Inv, TypeOK, TrialBudget, MediaInv, CacheInv, PCs, LoaderPCs
  <2>4. HasRead'
    BY <1>1, <1>2, <2>1 DEF HasRead
  <2>5. records'[next'].tries < 0 /\ ~(records'[next'].tries >= 0)
    BY <1>3, <1>7, <2>1, <2>2, RecordEntry
  <2>6. PhaseInv'
    BY <1>1, <1>2, <2>1, <2>2, <2>4, <2>5
       DEF PhaseInv, SelectInv, PendingInv, LoadInv, LaunchInv, KernelInv, EarlyInv
  <2> QED
    BY <2>3, <2>6 DEF Inv
<1>8. n # 0 => records[n].tries > 0 \/ records[n].tries < 0
    BY <1>3, <1>4, RecordEntry
<1> QED
    BY <1>5, <1>6, <1>7, <1>8

\* What the pending copy, or less, on the medium does not disturb.
LEMMA MediumWritten ==
    ASSUME Inv, HasPending, NEW left \in {media[1 - slot], pending, Bad},
           NEW d, d = [media EXCEPT ![1 - slot] = left]
    PROVE  /\ d \in [Slots -> Copy] /\ MediaOK(d, attempts, readFaults)
           /\ d[slot] = media[slot] /\ d[1 - slot] = left
           /\ chosen(d) \in Slots
<1>1. /\ media \in [Slots -> Copy] /\ attempts \in [Id -> Nat] /\ readFaults \in Nat
      /\ slot \in Slots /\ MediaOK(media, attempts, readFaults)
    BY BoundsAssumption DEF Inv, TypeOK, MediaInv
<1>2. /\ records \in Records /\ media[slot].crc /\ CopyCovered(attempts, readFaults, media[slot], 0)
      /\ Covered(attempts, readFaults, records, 0)
      /\ pending = newCopy(media[slot].flag, records)
    BY DEF HasPending
<1>3. left \in leavings(media, slot, records)
    BY <1>2 DEF leavings
<1>4. d = written(media, slot, left)
    BY DEF written
<1>5. Writable(media, attempts, readFaults, slot, records)
    BY <1>1, <1>2 DEF Writable
<1>6. WrittenOK(media, attempts, readFaults, slot, records, left, written(media, slot, left))
    BY <1>3, <1>5, WriteCopy
<1> QED
    BY <1>4, <1>6 DEF WrittenOK

\* The write, on either board.
LEMMA WriteStep == ASSUME Inv, WriteSd \/ WriteEmmc PROVE Inv'
<1>1. /\ pc = "write" /\ pc' \in {"flush", "readback", "recovery"}
      /\ UNCHANGED <<disk, wdt, buffer, slot, records, next, retiring, running, healthy, attempts,
                     readFaults, outages>>
    BY DEF WriteSd, WriteEmmc, ram, os, history
<1>2. HasPending /\ (~retiring => records[next].tries >= 0 /\ Paid) /\ seen = media
    BY <1>1 DEF Inv, PhaseInv, PendingInv, CacheInv
<1>3. PICK left \in {media[1 - slot], pending, Bad} :
         /\ seen' = [media EXCEPT ![1 - slot] = left]
         /\ \/ media' = seen'
            \/ media' = media /\ pc' \in {"flush", "recovery"}
    BY <1>1, <1>2 DEF WriteSd, WriteEmmc, landings
<1>4. /\ seen' \in [Slots -> Copy] /\ MediaOK(seen', attempts, readFaults)
      /\ seen'[slot] = media[slot]
    BY <1>2, <1>3, MediumWritten
<1>5. /\ media' \in [Slots -> Copy] /\ MediaOK(media', attempts, readFaults)
      /\ media'[slot] = media[slot]
    BY <1>3, <1>4 DEF Inv, TypeOK, MediaInv
<1>6. TypeOK' /\ TrialBudget' /\ MediaInv'
    BY <1>1, <1>4, <1>5 DEF Inv, TypeOK, TrialBudget, MediaInv, PCs, LoaderPCs
<1>7. HasPending'
    BY <1>1, <1>2, <1>5 DEF HasPending, pending
<1>8. PhaseInv'
    BY <1>1, <1>2, <1>7
       DEF PhaseInv, SelectInv, PendingInv, LoadInv, LaunchInv, KernelInv, EarlyInv, Paid
<1>9. CacheInv'
  <2>1. CASE media' = seen'
    BY <2>1 DEF CacheInv
  <2>2. CASE media' = media /\ pc' \in {"flush", "recovery"}
    <3>1. left = media[1 - slot] => seen' = media'
      BY <1>3, <2>2 DEF Inv, TypeOK, Slots
    <3>2. pending' = pending
      BY <1>1 DEF pending
    <3> QED
      BY <1>1, <1>3, <1>7, <2>2, <3>1, <3>2 DEF CacheInv
  <2> QED
    BY <1>3, <2>1, <2>2
<1> QED
    BY <1>6, <1>8, <1>9 DEF Inv

\* What is in the cache may reach the medium.
LEMMA CacheLands ==
    ASSUME Inv
    PROVE  /\ seen \in [Slots -> Copy] /\ MediaOK(seen, attempts, readFaults)
           /\ seen # media => seen[slot] = media[slot]
<1>1. CASE seen = media
    BY <1>1 DEF Inv, TypeOK, MediaInv
<1>2. CASE seen # media
  <2>1. HasPending /\ \E left \in {pending, Bad} : seen = [media EXCEPT ![1 - slot] = left]
    BY <1>2 DEF Inv, CacheInv
  <2> QED
    BY <2>1, MediumWritten
<1> QED
    BY <1>1, <1>2

\* The flush, and the device's own writeback.
LEMMA FlushStep == ASSUME Inv, FlushCache \/ Writeback PROVE Inv'
<1>1. /\ UNCHANGED <<seen, disk, wdt, buffer, slot, records, next, retiring, running, healthy,
                     attempts, readFaults, outages>>
      /\ \/ pc = "flush" /\ pc' = "readback" /\ media' = seen
         \/ pc = "flush" /\ pc' = "recovery" /\ media' = media
         \/ pc' = pc /\ media' = seen /\ seen # media
    BY DEF FlushCache, Writeback, ram, os, history
<1>2. /\ seen \in [Slots -> Copy] /\ MediaOK(seen, attempts, readFaults)
      /\ seen # media => seen[slot] = media[slot]
    BY CacheLands
<1>3. media' \in [Slots -> Copy] /\ MediaOK(media', attempts, readFaults)
      /\ media'[slot] = media[slot]
    BY <1>1, <1>2 DEF Inv, TypeOK, MediaInv
<1>4. TypeOK' /\ TrialBudget' /\ MediaInv'
    BY <1>1, <1>3 DEF Inv, TypeOK, TrialBudget, MediaInv, PCs, LoaderPCs
<1>5. pc = "flush" => HasPending /\ (~retiring => records[next].tries >= 0 /\ Paid)
    BY DEF Inv, PhaseInv, PendingInv
<1>6. HasPending => HasPending'
    BY <1>1, <1>3 DEF HasPending, pending
<1>7. seen # media => pc \in {"flush", "recovery"}
    BY DEF Inv, CacheInv
<1>8. pc' \in {"flush", "readback", "recovery"} /\ (pc' # "recovery" => pc = "flush")
    BY <1>1, <1>7
<1>9. PhaseInv'
    BY <1>1, <1>5, <1>6, <1>8
       DEF PhaseInv, SelectInv, PendingInv, LoadInv, LaunchInv, KernelInv, EarlyInv, Paid
<1>10. CacheInv'
  <2>1. CASE media' = seen
    BY <1>1, <2>1 DEF CacheInv
  <2>2. CASE pc' = "recovery" /\ media' = media
    BY <1>1, <1>6, <2>2 DEF Inv, CacheInv, pending
  <2> QED
    BY <1>1, <2>1, <2>2
<1> QED
    BY <1>4, <1>9, <1>10 DEF Inv

\* The read-back, which lets the loader go on only when the pending copy is on the medium.
LEMMA ReadBackStep == ASSUME Inv, ReadBack PROVE Inv'
<1>1. /\ pc = "readback"
      /\ UNCHANGED <<media, seen, disk, wdt, slot, records, next, retiring, running, healthy,
                     attempts, readFaults, outages>>
    BY DEF ReadBack, store, os, history
<1>2. PICK back \in {seen[1 - slot], Bad} :
         /\ buffer' = [buffer EXCEPT ![slot] = back]
         /\ pc' = IF back # pending THEN "recovery" ELSE IF retiring THEN "reset" ELSE "load"
    BY DEF ReadBack
<1>3. HasPending /\ (~retiring => records[next].tries >= 0 /\ Paid) /\ seen = media
    BY <1>1 DEF Inv, PhaseInv, PendingInv, CacheInv
<1>4. /\ slot \in Slots /\ 1 - slot \in Slots /\ media \in [Slots -> Copy]
      /\ buffer \in [Slots -> Copy] /\ media[slot].flag \in Flags
    BY DEF Inv, TypeOK, Slots, Copy
<1>5. pending # Bad
    BY <1>3, <1>4, NewCopy, BadCopy DEF HasPending
<1>6. back \in Copy /\ buffer' \in [Slots -> Copy]
    BY <1>2, <1>3, <1>4, BadCopy
<1>7. TypeOK' /\ TrialBudget' /\ MediaInv' /\ CacheInv'
    BY <1>1, <1>2, <1>3, <1>6
       DEF Inv, TypeOK, TrialBudget, MediaInv, CacheInv, PCs, LoaderPCs
<1>8. CASE pc' # "load"
    BY <1>2, <1>8, <1>7
       DEF Inv, PhaseInv, SelectInv, PendingInv, LoadInv, LaunchInv, KernelInv, EarlyInv
<1>9. CASE pc' = "load"
  <2>1. ~retiring /\ media[1 - slot] = pending
    BY <1>2, <1>3, <1>5, <1>9
  <2>2. HasPersisted'
    BY <1>1, <1>3, <2>1 DEF HasPending, HasPersisted
  <2>3. Paid' /\ CopyCovered(attempts, readFaults, media[slot], 0)' /\ ~retiring'
        /\ next' \in DOMAIN records' /\ records'[next'].tries >= 0
    BY <1>1, <1>3, <2>1 DEF Paid, HasPending
  <2>4. ~(records'[next'].tries < 0)
    BY <2>3, <1>1, <1>3, RecordEntry DEF HasPending
  <2>5. PhaseInv'
    BY <1>9, <2>2, <2>3, <2>4
       DEF PhaseInv, SelectInv, PendingInv, LoadInv, LaunchInv, KernelInv, EarlyInv
  <2> QED
    BY <1>7, <2>5 DEF Inv
<1> QED
    BY <1>8, <1>9

\* Loading the file.
LEMMA LoadStep == ASSUME Inv, LoadFit PROVE Inv'
<1>1. /\ pc = "load" /\ pc' \in {"bootm", "failed"}
      /\ UNCHANGED <<media, seen, disk, wdt, buffer, slot, records, next, retiring, running, healthy,
                     attempts, readFaults, outages>>
    BY DEF LoadFit, proceed, store, ram, os, history
<1>2. TypeOK' /\ TrialBudget' /\ MediaInv'
    BY <1>1, ControlStep DEF Inv, TypeOK, PCs, LoaderPCs
<1>3. PhaseInv' /\ CacheInv'
    BY <1>1 DEF Inv, PhaseInv, SelectInv, PendingInv, LoadInv, LaunchInv, KernelInv, EarlyInv,
                CacheInv, HasRead, HasPersisted, Paid
<1> QED
    BY <1>2, <1>3 DEF Inv

\* A launch of a candidate uses up what was paid for it: the copy that counts holds the
\* records in RAM, and the other one was covered and is now one trial behind.
LEMMA LaunchCovered ==
    ASSUME Inv, pc = "bootm", records[next].tries >= 0,
           attempts' = [attempts EXCEPT ![records[next].id] = @ + 1],
           UNCHANGED <<media, readFaults>>
    PROVE  attempts' \in [Id -> Nat] /\ TrialBudget' /\ MediaInv'
<1> DEFINE id == records[next].id
<1>1. HasPersisted /\ Paid /\ CopyCovered(attempts, readFaults, media[slot], 0)
    BY DEF Inv, PhaseInv, LoadInv, LaunchInv
<1>2. /\ records \in Records /\ next \in DOMAIN records /\ id \in Id
      /\ records[next].tries \in Int
    BY <1>1, RecordEntry DEF HasPersisted
<1>3. /\ attempts \in [Id -> Nat] /\ readFaults \in Nat /\ slot \in Slots
      /\ 1 - slot \in Slots /\ media \in [Slots -> Copy] /\ media[slot].flag \in Flags
    BY BoundsAssumption DEF Inv, TypeOK, Slots, Copy
<1>4. /\ attempts' \in [Id -> Nat] /\ attempts'[id] = attempts[id] + 1
      /\ \A i \in Id : i # id => attempts'[i] = attempts[i]
    BY <1>2, <1>3
<1>5. attempts[id] + records[next].tries + 1 <= 3 + readFaults
    BY <1>1 DEF Paid, TrialLimit
<1>6. TrialBudget'
  <2>1. attempts'[id] <= 3 + readFaults
    BY <1>2, <1>3, <1>4, <1>5
  <2> QED
    BY <2>1, <1>4 DEF Inv, TrialBudget, TrialLimit
<1>7. \A s \in Slots : s = slot \/ s = 1 - slot
    BY <1>3 DEF Slots
<1>8. /\ media[1 - slot].crc /\ decode_environment(media[1 - slot]) = records
      /\ media[1 - slot].flag = successor(media[slot].flag) /\ media[slot].crc
    BY <1>1, <1>2, <1>3, NewCopy DEF HasPersisted
<1>9. chosen(media) = 1 - slot
  <2>1. media[0].crc /\ media[1].crc
    BY <1>3, <1>8 DEF Slots
  <2> QED
    BY <1>3, <1>8, <2>1, ChosenSlot, Zenon
<1>10. Covered(attempts, readFaults, records, 0)
    BY <1>3, <1>8, <1>9 DEF Inv, MediaInv, MediaOK, CopyCovered
<1>11. \A e \in {0, 1} : Covered(attempts', readFaults, records, e)
  <2> SUFFICES ASSUME NEW e \in {0, 1}, NEW i \in DOMAIN records, records[i].tries >= 0
               PROVE  attempts'[records[i].id] + records[i].tries <= TrialLimit + readFaults + e
    BY DEF Covered
  <2>1. records[i].id \in Id /\ records[i].tries \in Int
    BY <1>2, RecordEntry
  <2>2. CASE i = next
    BY <2>1, <2>2, <1>3, <1>4, <1>5 DEF TrialLimit
  <2>3. CASE i # next
    <3>1. records[i].id # id
      <4>1. \A j, k \in DOMAIN records : j < k => records[j].id # records[k].id
        BY <1>2, RecordsShape DEF WellFormed
      <4>2. i \in 1 .. 2 /\ next \in 1 .. 2
        BY <1>2, RecordEntry
      <4> QED
        BY <1>2, <2>3, <4>1, <4>2
    <3>2. attempts[records[i].id] + records[i].tries <= TrialLimit + readFaults + 0
      BY <1>10 DEF Covered
    <3> QED
      BY <1>3, <1>4, <2>1, <3>1, <3>2 DEF TrialLimit
  <2> QED
    BY <2>2, <2>3
<1>12. \A r \in Records : Covered(attempts, readFaults, r, 0) => Covered(attempts', readFaults, r, 1)
  <2>1. \A i \in Id : attempts'[i] <= attempts[i] + 1 /\ attempts'[i] \in Nat /\ attempts[i] \in Nat
    BY <1>2, <1>3, <1>4
  <2> QED
    BY <1>3, <2>1, RecordEntry DEF Covered, TrialLimit
<1>13. decode_environment(media[slot]) \in Records
    BY <1>3, <1>8, ParseText DEF Inv, MediaInv, MediaOK, Decodable, decode_environment
<1>14. CopyCovered(attempts', readFaults, media[slot], 1)
    BY <1>1, <1>8, <1>12, <1>13 DEF CopyCovered
<1>15. CopyCovered(attempts', readFaults, media[1 - slot], 0)
       /\ CopyCovered(attempts', readFaults, media[1 - slot], 1)
    BY <1>8, <1>11 DEF CopyCovered
<1>16. MediaOK(media, attempts', readFaults)
  <2>1. slot # 1 - slot
    BY <1>3 DEF Slots
  <2> QED
    BY <1>7, <1>9, <1>14, <1>15, <2>1 DEF Inv, MediaInv, MediaOK
<1> QED
    BY <1>4, <1>6, <1>16 DEF MediaInv

\* bootm, which starts the kernel or returns.
LEMMA BootmStep == ASSUME Inv, Bootm PROVE Inv'
<1>1. /\ pc = "bootm" /\ UNCHANGED <<media, seen, disk, wdt, readFaults, outages>>
      /\ seen = media
    BY DEF Bootm, store, Inv, CacheInv
<1>2. /\ records \in Records /\ next \in DOMAIN records /\ records[next].id \in Id
      /\ records[next].tries \in Int /\ ~retiring
  <2>1. next \in DOMAIN records /\ ~retiring
    BY <1>1 DEF Inv, PhaseInv, LoadInv
  <2>2. records \in Records
    BY <2>1 DEF Inv, TypeOK, NoRecords
  <2> QED
    BY <2>1, <2>2, RecordEntry
<1>3. attempts' \in [Id -> Nat] /\ TrialBudget' /\ MediaInv'
  <2>1. CASE records[next].tries < 0
    <3>1. attempts' = attempts
      BY <2>1 DEF Bootm
    <3> QED
      BY <1>1, <3>1 DEF Inv, TypeOK, TrialBudget, MediaInv
  <2>2. CASE records[next].tries >= 0
    <3>1. attempts' = [attempts EXCEPT ![records[next].id] = @ + 1]
      BY <2>2, <1>2 DEF Bootm
    <3> QED
      BY <1>1, <2>2, <3>1, LaunchCovered
  <2> QED
    BY <1>2, <2>1, <2>2
<1>4. CacheInv'
    BY <1>1 DEF CacheInv
<1>5. CASE pc' = "kernel"
  <2>1. /\ running' = records[next].id /\ healthy' \in BOOLEAN /\ buffer' = cleared /\ slot' = 0
        /\ records' = NoRecords /\ next' = 0 /\ retiring' = FALSE
    BY <1>1, <1>5 DEF Bootm
  <2>2. cleared \in [Slots -> Copy]
    BY BadCopy DEF cleared
  <2>3. TypeOK'
    <3>1. wdt' \in BOOLEAN /\ healthy' \in BOOLEAN /\ retiring' \in BOOLEAN
      BY <1>1, <2>1 DEF Inv, TypeOK
    <3>2. /\ pc' \in PCs /\ slot' \in Slots /\ next' \in 0 .. RecordLimit
          /\ running' \in Id \cup {NoId} /\ records' \in Records \cup {NoRecords}
          /\ buffer' \in [Slots -> Copy]
      BY <1>2, <1>5, <2>1, <2>2 DEF PCs, Slots, RecordLimit
    <3> QED
      BY <1>1, <1>3, <3>1, <3>2 DEF Inv, TypeOK
  <2>4. chosen(media) \in Slots
    <3>1. media[slot].crc /\ slot \in Slots
      BY <1>1, <1>2 DEF Inv, PhaseInv, LoadInv, HasRead, HasPersisted, TypeOK
    <3>2. media \in [Slots -> Copy]
      BY DEF Inv, TypeOK
    <3> QED
      BY <3>1, <3>2, ChosenSlot DEF Slots
  <2>5. PhaseInv'
    BY <1>1, <1>5, <2>4
       DEF PhaseInv, SelectInv, PendingInv, LoadInv, LaunchInv, KernelInv, EarlyInv
  <2> QED
    BY <1>3, <1>4, <2>3, <2>5 DEF Inv
<1>6. CASE pc' = "failed"
  <2>1. UNCHANGED <<buffer, slot, records, next, retiring, running, healthy>>
    BY <1>6 DEF Bootm, ram, os
  <2>2. TypeOK'
    BY <1>1, <1>3, <1>6, <2>1 DEF Inv, TypeOK, PCs, LoaderPCs
  <2>3. records[next].tries < 0 => attempts' = attempts
    BY DEF Bootm
  <2>4. PhaseInv'
    BY <1>1, <1>6, <2>1, <2>3
       DEF Inv, PhaseInv, SelectInv, PendingInv, LoadInv, LaunchInv, KernelInv, EarlyInv,
           HasRead, HasPersisted
  <2> QED
    BY <1>3, <1>4, <2>2, <2>4 DEF Inv
<1> QED
    BY <1>5, <1>6 DEF Bootm

\* After a failure: a confirmed deployment is retired, a candidate has paid.
LEMMA FailedStep == ASSUME Inv, SelectedFailed PROVE Inv'
<1>1. /\ pc = "failed"
      /\ UNCHANGED <<media, seen, disk, wdt, slot, next, running, healthy, attempts, readFaults,
                     outages>>
      /\ seen = media
    BY DEF SelectedFailed, store, ram, os, history, Inv, CacheInv
<1>2. next \in DOMAIN records /\ records \in Records /\ ~retiring
    BY <1>1 DEF Inv, TypeOK, NoRecords, PhaseInv, LoadInv
<1>3. CASE records[next].tries < 0
  <2>1. records' = setTries(records, next, 0) /\ retiring' = TRUE /\ preparePending(records')
    BY <1>3 DEF SelectedFailed
  <2>2. HasRead
    BY <1>1, <1>3 DEF Inv, PhaseInv, LoadInv
  <2>3. attempts[records[next].id] + 0 <= TrialLimit + readFaults
    <3>1. records[next].id \in Id
      BY <1>2, RecordEntry
    <3> QED
      BY <3>1 DEF Inv, TypeOK, TrialBudget, TrialLimit
  <2>4. 0 \in Tries /\ retiring' \in BOOLEAN /\ retiring'
    BY <2>1 DEF Tries, Confirmed, TrialLimit
  <2> QED
    BY <1>1, <1>2, <2>1, <2>2, <2>3, <2>4, PrepareStep
<1>4. CASE ~(records[next].tries < 0)
  <2>1. pc' = "reset" /\ UNCHANGED <<buffer, slot, records, next, retiring>>
    BY <1>4 DEF SelectedFailed, ram
  <2>2. TypeOK' /\ TrialBudget' /\ MediaInv'
    BY <1>1, <2>1, ControlStep DEF Inv, TypeOK, PCs, LoaderPCs
  <2>3. PhaseInv' /\ CacheInv'
    BY <1>1, <2>1 DEF PhaseInv, SelectInv, PendingInv, LoadInv, LaunchInv, KernelInv, EarlyInv,
                      CacheInv
  <2> QED
    BY <2>2, <2>3 DEF Inv
<1> QED
    BY <1>3, <1>4

\* The board starts over with the given copies on the medium.
LEMMA RestartStep ==
    ASSUME Inv, restart, pc' \in {"off", "policy"},
           media' \in [Slots -> Copy], MediaOK(media', attempts, readFaults), seen' = media',
           UNCHANGED <<disk, attempts, readFaults>>, outages' \in 0 .. MaxOutages
    PROVE  Inv'
<1>1. cleared \in [Slots -> Copy]
    BY BadCopy DEF cleared
<1>2. wdt' \in BOOLEAN /\ healthy' \in BOOLEAN /\ retiring' \in BOOLEAN /\ ~retiring'
    BY DEF restart
<1>3. /\ pc' \in PCs /\ slot' \in Slots /\ next' \in 0 .. RecordLimit
      /\ running' \in Id \cup {NoId} /\ records' \in Records \cup {NoRecords}
      /\ buffer' \in [Slots -> Copy]
    BY <1>1 DEF restart, PCs, LoaderPCs, Slots, RecordLimit
<1>4. TypeOK'
    BY <1>2, <1>3 DEF Inv, TypeOK
<1>5. TrialBudget' /\ MediaInv' /\ CacheInv'
    BY DEF Inv, TrialBudget, MediaInv, CacheInv
<1>6. PhaseInv'
    BY <1>2 DEF PhaseInv, SelectInv, PendingInv, LoadInv, LaunchInv, KernelInv, EarlyInv
<1> QED
    BY <1>4, <1>5, <1>6 DEF Inv

\* Resets that touch no copy.
LEMMA ResetStep == ASSUME Inv, Reset \/ WatchdogReset \/ Reboot PROVE Inv'
<1>1. /\ restart /\ pc' = "policy" /\ pc \in {"reset", "kernel"}
      /\ UNCHANGED <<media, seen, disk, attempts, readFaults, outages>>
    BY DEF Reset, WatchdogReset, Reboot, store, history
<1>2. seen = media
    BY <1>1 DEF Inv, CacheInv
<1>3. /\ media' \in [Slots -> Copy] /\ MediaOK(media', attempts, readFaults) /\ seen' = media'
      /\ outages' \in 0 .. MaxOutages
    BY <1>1, <1>2 DEF Inv, TypeOK, MediaInv
<1> QED
    BY <1>1, <1>3, RestartStep

\* The copy beside the one that counts may go bad.
LEMMA Tear ==
    ASSUME Inv, chosen(media) \in Slots
    PROVE  LET d == [media EXCEPT ![1 - chosen(media)] = Bad]
           IN  d \in [Slots -> Copy] /\ MediaOK(d, attempts, readFaults) /\ chosen(d) \in Slots
<1> DEFINE s == chosen(media)
<1>1. /\ media \in [Slots -> Copy] /\ attempts \in [Id -> Nat] /\ readFaults \in Nat
      /\ MediaOK(media, attempts, readFaults)
    BY BoundsAssumption DEF Inv, TypeOK, MediaInv
<1>2. media[s].crc
    BY <1>1, ChosenSlot
<1>3. CopyCovered(attempts, readFaults, media[s], 0)
    BY <1>1 DEF MediaOK
<1>4. decode_environment(media[s]) \in Records
    BY <1>1, <1>2, ParseText DEF MediaOK, Decodable, decode_environment
<1>5. Covered(attempts, readFaults, decode_environment(media[s]), 0)
    BY <1>2, <1>3 DEF CopyCovered
<1>6. Writable(media, attempts, readFaults, s, decode_environment(media[s]))
    BY <1>1, <1>2, <1>3, <1>4, <1>5 DEF Writable
<1>7. Bad \in leavings(media, s, decode_environment(media[s]))
    BY DEF leavings
<1>8. WrittenOK(media, attempts, readFaults, s, decode_environment(media[s]), Bad,
                written(media, s, Bad))
    BY <1>6, <1>7, WriteCopy
<1> QED
    BY <1>8 DEF WrittenOK, written

\* What an outage leaves on the medium, wherever it strikes.
LEMMA OutageMedia ==
    ASSUME Inv, Outage
    PROVE  /\ media' \in [Slots -> Copy] /\ MediaOK(media', attempts, readFaults)
           /\ chosen(media) \in Slots => chosen(media') \in Slots
<1>1. PICK left \in interrupted : media' = [media EXCEPT ![underWay] = left]
    BY DEF Outage
<1>2. media \in [Slots -> Copy] /\ MediaOK(media, attempts, readFaults)
    BY DEF Inv, TypeOK, MediaInv
<1>3. CASE left = media[underWay]
  <2>1. media' = media
    BY <1>1, <1>2, <1>3
  <2> QED
    BY <2>1, <1>2
<1>4. CASE pc = "write" /\ left # media[underWay]
  <2>1. HasPending /\ underWay = 1 - slot
    BY <1>4 DEF Inv, PhaseInv, PendingInv, underWay
  <2>2. left \in {media[1 - slot], pending, Bad}
    BY <1>4, <2>1 DEF interrupted, landings
  <2> QED
    BY <1>1, <2>1, <2>2, MediumWritten
<1>5. CASE pc = "kernel" /\ left # media[underWay]
  <2>1. chosen(media) \in Slots /\ underWay = 1 - chosen(media)
    BY <1>5 DEF Inv, PhaseInv, KernelInv, underWay
  <2>2. left = Bad
    BY <1>5 DEF interrupted
  <2> QED
    BY <1>1, <2>1, <2>2, Tear
<1>6. CASE pc \notin {"write", "kernel"} /\ left # media[underWay]
  <2>1. seen # media /\ left \in {media[underWay], seen[underWay], Bad}
    BY <1>6 DEF interrupted, landings
  <2>2. underWay = 1 - slot
    BY <1>6 DEF underWay
  <2>3. HasPending /\ \E l \in {pending, Bad} : seen = [media EXCEPT ![1 - slot] = l]
    BY <2>1 DEF Inv, CacheInv
  <2>4. 1 - slot \in Slots
    BY DEF Inv, TypeOK, Slots
  <2>5. seen[1 - slot] \in {pending, Bad}
    BY <1>2, <2>3, <2>4
  <2>6. left \in {media[1 - slot], pending, Bad}
    BY <2>1, <2>2, <2>5
  <2> QED
    BY <1>1, <2>2, <2>3, <2>6, MediumWritten
<1> QED
    BY <1>3, <1>4, <1>5, <1>6

\* An outage.
LEMMA OutageStep == ASSUME Inv, Outage PROVE Inv'
<1>1. /\ restart /\ pc' = "off" /\ seen' = media'
      /\ UNCHANGED <<disk, attempts, readFaults>>
    BY DEF Outage
<1>2. outages' \in 0 .. MaxOutages
    BY BoundsAssumption DEF Outage, Inv, TypeOK
<1> QED
    BY <1>1, <1>2, OutageMedia, RestartStep

\* A kernel that stops answering.
LEMMA HangStep == ASSUME Inv, Hang PROVE Inv'
<1>1. /\ pc = "kernel" /\ healthy' = FALSE
      /\ UNCHANGED <<media, seen, disk, pc, wdt, buffer, slot, records, next, retiring, running,
                     attempts, readFaults, outages>>
    BY DEF Hang, store, ram, history
<1>2. TypeOK' /\ TrialBudget' /\ MediaInv'
    BY <1>1, ControlStep DEF Inv, TypeOK
<1>3. PhaseInv' /\ CacheInv'
    BY <1>1 DEF Inv, PhaseInv, SelectInv, PendingInv, LoadInv, LaunchInv, KernelInv, EarlyInv,
                CacheInv
<1> QED
    BY <1>2, <1>3 DEF Inv

\* The running system replaces the records, with launches counted as att.
LEMMA OsWriteStep ==
    ASSUME Inv, pc = "kernel", NEW r \in Records, osWrite(r),
           attempts' \in [Id -> Nat], \A i \in Id : attempts'[i] <= attempts[i],
           Covered(attempts', readFaults, r, 0)
    PROVE  Inv'
<1> DEFINE s == chosen(media)
<1>1. /\ media' = [media EXCEPT ![1 - s] = newCopy(media[s].flag, r)] /\ seen' = media'
      /\ UNCHANGED <<disk, pc, wdt, buffer, slot, records, next, retiring, running, healthy,
                     readFaults, outages>>
    BY DEF osWrite, ram, os
<1>2. s \in Slots
    BY DEF Inv, PhaseInv, KernelInv
<1>3. /\ media \in [Slots -> Copy] /\ attempts \in [Id -> Nat] /\ readFaults \in Nat
      /\ MediaOK(media, attempts, readFaults)
    BY BoundsAssumption DEF Inv, TypeOK, MediaInv
<1>4. MediaOK(media, attempts', readFaults)
  <2>1. readFaults <= readFaults
    BY <1>3
  <2> QED
    BY <1>3, <2>1, CoverMonotone
<1>5. media[s].crc
    BY <1>2, <1>3, ChosenSlot
<1>6. Writable(media, attempts', readFaults, s, r)
    BY <1>2, <1>3, <1>4, <1>5 DEF Writable, MediaOK
<1>7. newCopy(media[s].flag, r) \in leavings(media, s, r)
    BY DEF leavings
<1>8. WrittenOK(media, attempts', readFaults, s, r, newCopy(media[s].flag, r),
                written(media, s, newCopy(media[s].flag, r)))
    BY <1>6, <1>7, WriteCopy
<1>9. media' = written(media, s, newCopy(media[s].flag, r))
    BY <1>1 DEF written
<1>10. media' \in [Slots -> Copy] /\ MediaOK(media', attempts', readFaults) /\ chosen(media') \in Slots
    BY <1>8, <1>9 DEF WrittenOK
<1>11. TypeOK'
    BY <1>1, <1>10 DEF Inv, TypeOK
<1>12. TrialBudget'
    BY <1>1, <1>3 DEF Inv, TrialBudget, TrialLimit
<1>13. MediaInv' /\ CacheInv'
    BY <1>1, <1>10 DEF MediaInv, CacheInv
<1>14. PhaseInv'
    BY <1>1, <1>10 DEF Inv, PhaseInv, SelectInv, PendingInv, LoadInv, LaunchInv, KernelInv, EarlyInv
<1> QED
    BY <1>11, <1>12, <1>13, <1>14 DEF Inv

\* What the next boot would decode, while a kernel runs.
LEMMA DurableRecords ==
    ASSUME Inv, pc = "kernel"
    PROVE  durable \in Records /\ Covered(attempts, readFaults, durable, 0)
<1>1. chosen(media) \in Slots /\ chosen(media) # -1
    BY DEF Inv, PhaseInv, KernelInv, Slots
<1>2. media \in [Slots -> Copy] /\ MediaOK(media, attempts, readFaults)
    BY DEF Inv, TypeOK, MediaInv
<1>3. media[chosen(media)].crc
    BY <1>1, <1>2, ChosenSlot
<1>4. durable = decode_environment(media[chosen(media)])
    BY <1>1 DEF durable
<1> QED
    BY <1>1, <1>2, <1>3, <1>4, ParseText DEF MediaOK, Decodable, CopyCovered, decode_environment

\* The health check passed.
LEMMA ConfirmStep == ASSUME Inv, Confirm PROVE Inv'
<1>1. PICK i \in DOMAIN durable : osWrite(setTries(durable, i, Confirmed))
    BY DEF Confirm
<1>2. pc = "kernel" /\ attempts' = attempts
    BY DEF Confirm
<1>3. durable \in Records /\ Covered(attempts, readFaults, durable, 0)
    BY <1>2, DurableRecords
<1> DEFINE q == setTries(durable, i, Confirmed)
<1>4. Confirmed \in Tries
    BY DEF Tries, Confirmed, TrialLimit
<1>5. /\ q \in Records /\ DOMAIN q = DOMAIN durable
      /\ \A j \in DOMAIN durable : /\ q[j].id = durable[j].id
                                   /\ q[j].tries = IF j = i THEN Confirmed ELSE durable[j].tries
    BY <1>3, <1>4, SetTries
<1>6. Covered(attempts', readFaults, q, 0)
    BY <1>2, <1>3, <1>5 DEF Covered, Confirmed
<1>7. attempts' \in [Id -> Nat] /\ \A j \in Id : attempts'[j] <= attempts[j]
    BY <1>2 DEF Inv, TypeOK
<1> QED
    BY <1>1, <1>2, <1>5, <1>6, <1>7, OsWriteStep

\* A newer record in front of one that was there.
LEMMA InstalledRecords ==
    ASSUME NEW r \in Records, NEW i \in DOMAIN r, NEW id,
           NEW new \in [id : Id \ {id}, kernel : Kernel,
                       generation : 1 .. GenerationLimit, tries : {TrialLimit}],
           r[i].id = id, \A j \in DOMAIN r : new.generation > r[j].generation
    PROVE  [k \in 1 .. 2 |-> IF k = 1 THEN new ELSE r[i]] \in Records
<1> DEFINE q == [k \in 1 .. 2 |-> IF k = 1 THEN new ELSE r[i]]
<1>1. r[i] \in Record
    BY RecordsShape
<1>2. new \in Record /\ new.id # r[i].id
    BY DEF Record, Tries, Confirmed, TrialLimit
<1>3. q \in [1 .. 2 -> Record] /\ q[1] = new /\ q[2] = r[i]
    BY <1>1, <1>2
<1>4. WellFormed(q)
    BY <1>2, <1>3 DEF WellFormed
<1> QED
    BY <1>3, <1>4, RecordsShape

\* A new candidate is installed; its launches are counted from nothing.
LEMMA InstallStep == ASSUME Inv, Install PROVE Inv'
<1>1. PICK i \in DOMAIN durable, new \in [id : Id \ {running}, kernel : Kernel,
                                         generation : 1 .. GenerationLimit, tries : {TrialLimit}] :
         /\ durable[i].id = running
         /\ \A j \in DOMAIN durable : new.generation > durable[j].generation
         /\ osWrite([k \in 1 .. 2 |-> IF k = 1 THEN new ELSE durable[i]])
         /\ attempts' = [attempts EXCEPT ![new.id] = 0]
    BY DEF Install
<1>2. pc = "kernel"
    BY DEF Install
<1>3. durable \in Records /\ Covered(attempts, readFaults, durable, 0)
    BY <1>2, DurableRecords
<1>5. new.tries = 3 /\ new.id \in Id
    BY <1>1 DEF TrialLimit
<1> DEFINE q == [k \in 1 .. 2 |-> IF k = 1 THEN new ELSE durable[i]]
<1>6. q \in Records
    BY <1>1, <1>3, InstalledRecords
<1>7. /\ attempts \in [Id -> Nat] /\ readFaults \in Nat
    BY BoundsAssumption DEF Inv, TypeOK
<1>8. /\ attempts' \in [Id -> Nat] /\ attempts'[new.id] = 0
      /\ \A j \in Id : attempts'[j] <= attempts[j]
    BY <1>1, <1>5, <1>7
<1>9. Covered(attempts', readFaults, q, 0)
  <2>1. durable[i].id \in Id /\ durable[i].tries \in Int
    BY <1>3, RecordEntry
  <2>2. durable[i].tries >= 0 => attempts'[durable[i].id] + durable[i].tries <= TrialLimit + readFaults + 0
    BY <1>3, <1>7, <1>8, <2>1 DEF Covered, TrialLimit
  <2>3. attempts'[new.id] + new.tries <= TrialLimit + readFaults + 0
    BY <1>5, <1>7, <1>8 DEF TrialLimit
  <2> QED
    BY <2>2, <2>3 DEF Covered
<1> QED
    BY <1>1, <1>2, <1>6, <1>8, <1>9, OsWriteStep

\* Inv is inductive.
LEMMA InvStep == Inv /\ [Next]_vars => Inv'
<1> SUFFICES ASSUME Inv, [Next]_vars PROVE Inv'
    OBVIOUS
<1>1. CASE PowerOn
    BY <1>1, EarlySteps
<1>2. CASE Loader
    BY <1>2, EarlySteps, ReadStep, SelectStep, WriteStep, FlushStep, ReadBackStep, LoadStep,
       BootmStep, FailedStep, ResetStep DEF Loader
<1>3. CASE System
    BY <1>3, ResetStep, HangStep, ConfirmStep, InstallStep DEF System
<1>4. CASE Writeback
    BY <1>4, FlushStep
<1>5. CASE Outage
    BY <1>5, OutageStep
<1>6. CASE UNCHANGED vars
  <2>1. UNCHANGED <<media, seen, disk, pc, wdt, buffer, slot, records, next, retiring, running,
                    healthy, attempts, readFaults, outages>>
    BY <1>6 DEF vars, store, ram, os, history
  <2>2. TypeOK' /\ TrialBudget' /\ MediaInv'
    BY <2>1, ControlStep DEF Inv, TypeOK
  <2>3. PhaseInv' /\ CacheInv'
    BY <2>1 DEF Inv, PhaseInv, SelectInv, PendingInv, LoadInv, LaunchInv, KernelInv, EarlyInv,
                CacheInv, HasRead, HasPending, HasPersisted, Paid, pending
  <2> QED
    BY <2>2, <2>3 DEF Inv
<1> QED
    BY <1>1, <1>2, <1>3, <1>4, <1>5, <1>6 DEF Next

-----------------------------------------------------------------------------
(* The theorems.                                                           *)

\* Inv holds in every reachable state.
THEOREM Invariance == Spec => []Inv
    BY InitInv, InvStep, PTL DEF Spec

\* Every variable of the boot transaction keeps its type.
THEOREM TypeCorrect == Spec => []TypeOK
<1>1. Inv => TypeOK
    BY DEF Inv
<1> QED
    BY <1>1, Invariance, PTL

\* mica_file_boot launches a candidate at most three times, and once more for each boot
\* that met a read error, whatever outages, torn writes and hung kernels come between.
THEOREM TrialsBounded == Spec => []TrialBudget
<1>1. Inv => TrialBudget
    BY DEF Inv
<1> QED
    BY <1>1, Invariance, PTL

\* A copy with a right CRC is what the records come from.
LEMMA DurableValid ==
    ASSUME Inv PROVE durable # NoRecords <=> chosen(media) \in Slots
<1>1. media \in [Slots -> Copy] /\ MediaOK(media, attempts, readFaults)
    BY DEF Inv, TypeOK, MediaInv
<1>2. CASE chosen(media) \in Slots
  <2>1. media[chosen(media)].crc /\ chosen(media) # -1
    BY <1>1, <1>2, ChosenSlot DEF Slots
  <2>2. durable \in Records
    BY <1>1, <1>2, <2>1, ParseText DEF durable, MediaOK, Decodable, decode_environment
  <2> QED
    BY <1>2, <2>2, ParseText
<1>3. CASE chosen(media) \notin Slots
  <2>1. chosen(media) = -1
    BY <1>1, <1>3, ChosenSlot DEF Slots
  <2> QED
    BY <1>3, <2>1 DEF durable
<1> QED
    BY <1>2, <1>3

\* No step takes the last valid copy away.
LEMMA SurviveStep ==
    ASSUME Inv, [Next]_vars, chosen(media) \in Slots PROVE chosen(media') \in Slots
<1>1. CASE WriteSd \/ WriteEmmc
  <2>1. HasPending /\ seen = media
    BY <1>1 DEF WriteSd, WriteEmmc, Inv, PhaseInv, PendingInv, CacheInv
  <2>2. \/ media' = media
        \/ \E left \in {media[1 - slot], pending, Bad} : media' = [media EXCEPT ![1 - slot] = left]
    BY <1>1 DEF WriteSd, WriteEmmc, landings
  <2> QED
    BY <2>1, <2>2, MediumWritten
<1>2. CASE FlushCache \/ Writeback
  <2>1. media' = media \/ (media' = seen /\ seen # media)
    BY <1>2 DEF FlushCache, Writeback
  <2>2. ASSUME seen # media PROVE chosen(seen) \in Slots
    <3>1. HasPending /\ \E left \in {pending, Bad} : seen = [media EXCEPT ![1 - slot] = left]
      BY <2>2 DEF Inv, CacheInv
    <3> QED
      BY <3>1, MediumWritten
  <2> QED
    BY <2>1, <2>2
<1>3. CASE Confirm \/ Install
  <2>1. \E r : osWrite(r) /\ r \in Records
    <3>1. durable \in Records /\ pc = "kernel"
      BY <1>3, DurableRecords DEF Confirm, Install
    <3>2. CASE Confirm
      BY <3>1, <3>2, SetTries DEF Confirm, Tries, Confirmed, TrialLimit
    <3>3. CASE Install
      <4>1. PICK i \in DOMAIN durable,
                 new \in [id : Id \ {running}, kernel : Kernel,
                         generation : 1 .. GenerationLimit, tries : {TrialLimit}] :
               /\ durable[i].id = running
               /\ \A j \in DOMAIN durable : new.generation > durable[j].generation
               /\ osWrite([k \in 1 .. 2 |-> IF k = 1 THEN new ELSE durable[i]])
        BY <3>3 DEF Install
      <4>2. [k \in 1 .. 2 |-> IF k = 1 THEN new ELSE durable[i]] \in Records
        BY <3>1, <4>1, InstalledRecords
      <4> QED
        BY <4>1, <4>2
    <3> QED
      BY <1>3, <3>2, <3>3
  <2>2. PICK r \in Records :
           media' = [media EXCEPT ![1 - chosen(media)] = newCopy(media[chosen(media)].flag, r)]
    BY <2>1 DEF osWrite
  <2>3. /\ media \in [Slots -> Copy] /\ media[chosen(media)].flag \in Flags
        /\ 1 - chosen(media) \in Slots
    BY DEF Inv, TypeOK, Copy, Slots
  <2>4. /\ newCopy(media[chosen(media)].flag, r) \in Copy
        /\ newCopy(media[chosen(media)].flag, r).crc
    BY <2>3, NewCopy
  <2>5. /\ media' \in [Slots -> Copy]
        /\ media'[1 - chosen(media)] = newCopy(media[chosen(media)].flag, r)
    BY <2>2, <2>3, <2>4
  <2>6. media'[0].crc \/ media'[1].crc
    BY <2>3, <2>4, <2>5 DEF Slots
  <2> QED
    BY <2>5, <2>6, ChosenSlot DEF Slots
<1>4. CASE Outage
    BY <1>4, OutageMedia
<1>5. ASSUME ~(WriteSd \/ WriteEmmc), ~(FlushCache \/ Writeback), ~(Confirm \/ Install), ~Outage
      PROVE  media' = media
    BY <1>5 DEF Next, Loader, System, PowerOn, CheckRecoveryKey, CheckBoot0, StartWatchdog, OpenDisk,
                ReadEnvironment, SelectNext, ReadBack, LoadFit, Bootm, SelectedFailed, Reset,
                WatchdogReset, Hang, Reboot, proceed, recovery, vars, store
<1> QED
    BY <1>1, <1>2, <1>3, <1>4, <1>5

\* On a medium that reads without error, three trials do exhaust a candidate.
THEOREM ThreeTrials == ASSUME MaxReadFaults = 0 PROVE Spec => []ThreeTrialsExhaust
<1>1. TypeOK /\ TrialBudget => ThreeTrialsExhaust
  <2> SUFFICES ASSUME TypeOK, TrialBudget, NEW i \in Id PROVE attempts[i] <= TrialLimit
    BY DEF ThreeTrialsExhaust
  <2>1. readFaults = 0 /\ attempts[i] \in Nat
    BY DEF TypeOK
  <2> QED
    BY <2>1 DEF TrialBudget, TrialLimit
<1> QED
    BY <1>1, TypeCorrect, TrialsBounded, PTL

\* Once the loader can read records, no write, tear, lost cache or outage leaves it without.
THEOREM RecordsNeverLost == Spec => RecordsSurvive
<1> DEFINE Readable == durable # NoRecords <=> chosen(media) \in Slots
<1>1. Inv => Readable
    BY DurableValid
<1>2. Inv /\ Readable /\ Readable' /\ [Next]_vars => [durable # NoRecords => durable' # NoRecords]_vars
  <2> SUFFICES ASSUME Inv, Readable, Readable', [Next]_vars, durable # NoRecords
               PROVE  durable' # NoRecords
    OBVIOUS
  <2>1. chosen(media) \in Slots
    OBVIOUS
  <2>2. chosen(media') \in Slots
    BY <2>1, SurviveStep
  <2> QED
    BY <2>2
<1> HIDE DEF Readable
<1> QED
    BY <1>1, <1>2, Invariance, PTL DEF Spec, RecordsSurvive

-----------------------------------------------------------------------------
(* The ledger.  LedgerInv says, for a medium that reads without error, what *)
(* the records in RAM and the copy that counts have to do with each other  *)
(* in each phase; every step is then a step of BootLedger or none.         *)

\* BootLedger's operators are the ones of BootRecords.
LEMMA LedgerOps ==
    /\ \A r : Ledger!mica_boot_next(r) = mica_boot_next(r)
    /\ \A r, n, t : Ledger!setTries(r, n, t) = setTries(r, n, t)
    /\ Ledger!Records = Records /\ Ledger!NoRecords = NoRecords
    /\ Ledger!Record = Record /\ Ledger!TrialLimit = TrialLimit /\ Ledger!Confirmed = Confirmed
<1>1. \A r : Ledger!mica_boot_next(r) = mica_boot_next(r)
  BY DEF Ledger!mica_boot_next, mica_boot_next
<1>2. \A r, n, t : Ledger!setTries(r, n, t) = setTries(r, n, t)
  BY DEF Ledger!setTries, setTries
<1>3. Ledger!TrialLimit = TrialLimit /\ Ledger!Confirmed = Confirmed /\ Ledger!Tries = Tries
  BY DEF Ledger!TrialLimit, TrialLimit, Ledger!Confirmed, Confirmed, Ledger!Tries, Tries
<1>4. Ledger!Record = Record
  BY <1>3 DEF Ledger!Record, Record
<1>5. Ledger!NoRecords = NoRecords
  BY DEF Ledger!NoRecords, NoRecords
<1>6. Ledger!Records = Records
  <2>1. Ledger!Counts = Counts BY DEF Ledger!Counts, Counts, Ledger!RecordLimit, RecordLimit
  <2>2. \A r : Ledger!WellFormed(r) <=> WellFormed(r) BY DEF Ledger!WellFormed, WellFormed
  <2> QED BY <1>4, <2>1, <2>2, Zenon DEF Ledger!Records, Records
<1> QED BY <1>1, <1>2, <1>3, <1>4, <1>5, <1>6
\* The records in RAM are the ones on the medium with the next step of the ledger taken.
Due ==
    /\ durable \in Records /\ next = mica_boot_next(durable) /\ next # 0
    /\ IF retiring THEN durable[next].tries = Confirmed /\ records = setTries(durable, next, 0)
                   ELSE durable[next].tries > 0
                        /\ records = setTries(durable, next, durable[next].tries - 1)

\* A write is prepared and has not reached the medium, or it has.
Prepared == chosen(media) = slot /\ Due
Landed == chosen(media) = 1 - slot /\ durable = records

\* With no read error the copy a boot goes by is the one that counts.
LedgerInv ==
    /\ pc = "select" => chosen(media) = slot /\ records = durable
    /\ pc = "write" \/ seen # media => Prepared
    /\ pc \in {"flush", "readback"} => Prepared \/ Landed
    /\ pc \in {"load", "bootm", "failed"} =>
          IF records[next].tries < 0
          THEN chosen(media) = slot /\ records = durable /\ next = mica_boot_next(durable)
          ELSE Landed
    /\ pc # "kernel" => running = NoId

\* The trial that the refinement takes as paid for.
paidFor ==
    IF pc \in {"flush", "readback", "load", "bootm"} /\ ~retiring
       /\ records[next].tries >= 0 /\ chosen(media) # slot
    THEN records[next].id ELSE NoId

\* What a step of the boot transaction does to the ledger, and where it writes.
LedgerStep == Ledger!Next \/ UNCHANGED <<durable, paidFor, running, attempts>>
InactiveStep == \A s \in Slots : media'[s] # media[s] => s # chosen(media)

\* A trial leaves the ledger.
LEMMA ConsumeStep ==
    ASSUME paidFor = NoId, running = NoId, running' = NoId, attempts' = attempts,
           mica_boot_next(durable) # 0, durable[mica_boot_next(durable)].tries > 0,
           durable' = setTries(durable, mica_boot_next(durable), durable[mica_boot_next(durable)].tries - 1),
           paidFor' \in {NoId, durable[mica_boot_next(durable)].id}
    PROVE  Ledger!Next
<1>1. Ledger!front = mica_boot_next(durable) BY LedgerOps DEF Ledger!front
<1>2. Ledger!Consume
    BY <1>1, LedgerOps DEF Ledger!Consume, Ledger!withTries, paidFor
<1> QED BY <1>2 DEF Ledger!Next

\* A confirmed deployment is given up.
LEMMA RetireStep ==
    ASSUME paidFor = NoId, paidFor' = NoId, running = NoId, running' = NoId, attempts' = attempts,
           mica_boot_next(durable) # 0, durable[mica_boot_next(durable)].tries = Confirmed,
           durable' = setTries(durable, mica_boot_next(durable), 0)
    PROVE  Ledger!Next
<1>1. Ledger!front = mica_boot_next(durable) BY LedgerOps DEF Ledger!front
<1>2. Ledger!Retire
    BY <1>1, LedgerOps DEF Ledger!Retire, Ledger!withTries, paidFor
<1> QED BY <1>2 DEF Ledger!Next

\* The board stops, or nothing of the ledger changes.
LEMMA StopStep ==
    ASSUME media' = media, attempts' = attempts,
           \/ paidFor' = paidFor /\ running' = running
           \/ paidFor' = NoId /\ running' = NoId
    PROVE  LedgerStep /\ InactiveStep
<1>1. durable' = durable BY DEF durable
<1>2. CASE paidFor' = paidFor /\ running' = running
    BY <1>1, <1>2 DEF LedgerStep, InactiveStep
<1>3. CASE paidFor' = NoId /\ running' = NoId
  <2>1. Ledger!Stop BY <1>1, <1>3 DEF Ledger!Stop, paidFor
  <2> QED BY <2>1 DEF Ledger!Next, LedgerStep, InactiveStep
<1> QED BY <1>2, <1>3

\* What a write beside the copy that counts leaves for the next boot.
durableOf(c) == IF chosen(c) = -1 THEN NoRecords ELSE decode_environment(c[chosen(c)])

LEMMA LandedCopies ==
    ASSUME Inv, HasPending, Prepared, NEW left \in {media[1 - slot], pending, Bad},
           NEW d, d = [media EXCEPT ![1 - slot] = left]
    PROVE  /\ \A s \in Slots : d[s] # media[s] => s # chosen(media)
           /\ \/ chosen(d) = slot /\ durableOf(d) = durable
              \/ chosen(d) = 1 - slot /\ durableOf(d) = records
           /\ left = pending => chosen(d) = 1 - slot /\ durableOf(d) = records
           /\ left = Bad => chosen(d) = slot
<1>1. /\ media \in [Slots -> Copy] /\ slot \in Slots /\ records \in Records /\ media[slot].crc
      /\ chosen(media) = slot /\ pending = newCopy(media[slot].flag, records)
    BY DEF Inv, TypeOK, HasPending, Prepared
<1>2. /\ d \in [Slots -> Copy] /\ d[slot] = media[slot] /\ d[1 - slot] = left
    BY MediumWritten
<1>3. slot # -1 /\ 1 - slot # -1 /\ 1 - slot \in Slots /\ 1 - slot # slot /\ media[slot].flag \in Flags
      /\ durable = decode_environment(media[slot])
    BY <1>1 DEF Slots, Copy, durable
<1>4. \A s \in Slots : d[s] # media[s] => s # chosen(media)
    BY <1>1, <1>2
<1>5. /\ pending.crc /\ pending.flag = successor(media[slot].flag) /\ decode_environment(pending) = records
    BY <1>1, <1>3, NewCopy
<1>6. ASSUME left = pending PROVE chosen(d) = 1 - slot /\ durableOf(d) = records
  <2>1. d[0].crc /\ d[1].crc /\ d[1 - slot].flag = successor(d[slot].flag)
    BY <1>1, <1>2, <1>5, <1>6 DEF Slots
  <2>2. d \in [Slots -> Copy] /\ slot \in Slots
    BY <1>1, <1>2
  <2>3. chosen(d) = 1 - slot
    BY <2>1, <2>2, ChosenSlot, Zenon
  <2> QED
    BY <1>2, <1>3, <1>5, <1>6, <2>3 DEF durableOf
<1>7. ASSUME left = Bad PROVE chosen(d) = slot /\ durableOf(d) = durable
  <2>1. d[slot].crc /\ ~d[1 - slot].crc
    BY <1>1, <1>2, <1>7, BadCopy
  <2>2. chosen(d) = slot
    BY <1>1, <1>2, <2>1, ChosenSlot
  <2> QED
    BY <1>2, <1>3, <2>2 DEF durableOf
<1>8. ASSUME left = media[1 - slot] PROVE chosen(d) = slot /\ durableOf(d) = durable
  <2>1. d = media BY <1>1, <1>2, <1>8 DEF Slots
  <2> QED BY <1>1, <1>3, <2>1 DEF durableOf
<1> QED
    BY <1>4, <1>6, <1>7, <1>8

\* The step that puts such a write on the medium takes the prepared step of the ledger, or none.
LEMMA LandStep ==
    ASSUME Inv, HasPending, Prepared, NEW left \in {media[1 - slot], pending, Bad},
           media' = [media EXCEPT ![1 - slot] = left],
           paidFor = NoId, running = NoId, running' = NoId, attempts' = attempts,
           chosen(media') = slot => paidFor' = NoId,
           paidFor' \in {NoId, IF retiring THEN NoId ELSE records[next].id}
    PROVE  LedgerStep /\ InactiveStep
<1>1. InactiveStep BY LandedCopies DEF InactiveStep
<1>2. durable' = durableOf(media') BY DEF durable, durableOf
<1>3. CASE chosen(media') = slot /\ durable' = durable
    <2>1. paidFor' = paidFor /\ running' = running BY <1>3
  <2> QED BY <1>1, <1>3, <2>1 DEF LedgerStep
<1>4. CASE durable' = records
  <2>1. /\ durable \in Records /\ next \in DOMAIN durable /\ next = mica_boot_next(durable) /\ next # 0
    BY NextRecord DEF Prepared, Due
  <2>2. CASE retiring
    <3>1. durable[next].tries = Confirmed /\ records = setTries(durable, next, 0) /\ paidFor' = NoId
      BY <2>2 DEF Prepared, Due
    <3>2. Ledger!Next
      BY <1>4, <2>1, <3>1, RetireStep
    <3> QED BY <1>1, <3>2 DEF LedgerStep
  <2>3. CASE ~retiring
    <3>1. durable[next].tries > 0 /\ records = setTries(durable, next, durable[next].tries - 1)
      BY <2>3 DEF Prepared, Due
    <3>2. durable[next].tries - 1 \in Tries
      BY <2>1, <3>1, RecordEntry DEF Tries, Confirmed, TrialLimit
    <3>3. records[next].id = durable[next].id
      BY <2>1, <3>1, <3>2, SetTries
    <3>4. paidFor' \in {NoId, durable[next].id}
      BY <2>3, <3>3
    <3>5. Ledger!Next
      BY <1>4, <2>1, <3>1, <3>4, ConsumeStep
    <3> QED BY <1>1, <3>5 DEF LedgerStep
  <2> QED BY <2>2, <2>3
<1>5. \/ chosen(media') = slot /\ durable' = durable
      \/ durable' = records
    BY <1>2, LandedCopies
<1> QED BY <1>1, <1>3, <1>4, <1>5

\* A step that reaches neither the medium nor a phase with records leaves the ledger alone.
LEMMA QuietStep ==
    ASSUME Inv, LedgerInv, UNCHANGED <<media, seen, running, attempts>>, seen = media,
           pc # "kernel" \/ pc' = "kernel", pc \notin {"flush", "readback", "load", "bootm"},
           pc' \in {"off", "policy", "watchdog", "storage", "read", "recovery", "reset", "kernel"}
    PROVE  LedgerInv' /\ LedgerStep /\ InactiveStep
<1>1. paidFor = NoId /\ paidFor' = NoId BY DEF paidFor
<1>2. LedgerInv' BY DEF LedgerInv
<1> QED BY <1>1, <1>2, StopStep

\* The steps before the read, a hang, and the steps of the loader that end in a reset.
LEMMA EarlyLedger ==
    ASSUME Inv, LedgerInv,
           PowerOn \/ CheckRecoveryKey \/ CheckBoot0 \/ StartWatchdog \/ OpenDisk \/ Hang
    PROVE  LedgerInv' /\ LedgerStep /\ InactiveStep
<1>1. /\ UNCHANGED <<media, seen, running, attempts>>
      /\ pc \in {"off", "policy", "watchdog", "storage", "kernel"}
      /\ pc' \in {"policy", "watchdog", "storage", "read", "recovery", "kernel"}
      /\ pc = "kernel" => pc' = "kernel"
    BY DEF PowerOn, CheckRecoveryKey, CheckBoot0, StartWatchdog, OpenDisk, Hang, proceed, recovery,
           store, ram, os, history
<1>2. seen = media BY <1>1 DEF Inv, CacheInv
<1> QED BY <1>1, <1>2, QuietStep

\* A read without error takes the copy that counts.
LEMMA ReadLedger ==
    ASSUME MaxReadFaults = 0, Inv, LedgerInv, ReadEnvironment
    PROVE  LedgerInv' /\ LedgerStep /\ InactiveStep
<1>1. pc = "read" /\ UNCHANGED <<media, seen, running, attempts>>
    BY DEF ReadEnvironment, store, os
<1>2. PICK unreadable \in SUBSET Slots :
         /\ unreadable # {} => readFaults < MaxReadFaults
         /\ read_environment(unreadable)
    BY DEF ReadEnvironment
<1>3. readFaults = 0 /\ seen = media /\ media \in [Slots -> Copy] BY <1>1 DEF Inv, TypeOK, CacheInv
<1>4. unreadable = {} BY <1>2, <1>3
<1> DEFINE valid == [s \in Slots |-> s \notin unreadable /\ seen[s].crc]
           copies == [s \in Slots |-> IF s \in unreadable THEN Bad ELSE seen[s]]
           from == mica_boot_slot(valid[0], copies[0].flag, valid[1], copies[1].flag)
           decoded == IF from = -1 THEN NoRecords ELSE decode_environment(copies[from])
<1>5. copies = media BY <1>3, <1>4
<1>6. from = chosen(media)
  <2>1. valid[0] = media[0].crc /\ valid[1] = media[1].crc BY <1>3, <1>4 DEF Slots, Copy
  <2> QED BY <1>5, <2>1 DEF chosen
<1>7. decoded = durable BY <1>5, <1>6 DEF durable
<1>8. \/ pc' = "recovery" /\ UNCHANGED ram
      \/ pc' = "select" /\ slot' = chosen(media) /\ records' = durable /\ UNCHANGED <<next, retiring>>
    BY <1>2, <1>5, <1>6, <1>7 DEF read_environment
<1>9. paidFor = NoId /\ paidFor' = NoId BY <1>1, <1>8 DEF paidFor
<1>10. durable' = durable /\ chosen(media') = chosen(media) BY <1>1 DEF durable
<1>11. LedgerInv' BY <1>1, <1>3, <1>8, <1>10 DEF LedgerInv
<1> QED BY <1>1, <1>9, <1>11, StopStep

\* The pending copy is built for the step the ledger takes next.
LEMMA SelectLedger ==
    ASSUME Inv, LedgerInv, SelectNext PROVE LedgerInv' /\ LedgerStep /\ InactiveStep
<1> DEFINE n == mica_boot_next(records)
<1>1. pc = "select" /\ UNCHANGED <<media, seen, slot, retiring, running, attempts>>
    BY DEF SelectNext, store, os, history, ram
<1>2. HasRead /\ ~retiring /\ seen = media
    BY <1>1 DEF Inv, PhaseInv, SelectInv, CacheInv
<1>3. chosen(media) = slot /\ records = durable /\ records \in Records /\ running = NoId
    BY <1>1, <1>2 DEF LedgerInv, HasRead
<1>4. durable' = durable /\ chosen(media') = chosen(media) BY <1>1 DEF durable
<1>5. \/ pc' = "recovery"
      \/ /\ n # 0 /\ records[n].tries > 0 /\ next' = n
         /\ records' = setTries(records, n, records[n].tries - 1) /\ pc' \in {"recovery", "write"}
      \/ /\ n # 0 /\ records[n].tries < 0 /\ next' = n /\ records' = records /\ pc' = "load"
    BY DEF SelectNext, preparePending
<1>6. paidFor = NoId /\ paidFor' = NoId
  <2>1. n # 0 => records[n].tries \in Int BY <1>3, NextRecord, RecordEntry
  <2>2. pc' = "load" => ~(records'[next'].tries >= 0) BY <1>5, <2>1
  <2> QED BY <1>1, <1>5, <2>2 DEF paidFor
<1>11. seen' = media' /\ running' = NoId BY <1>1, <1>2, <1>3
<1>7. ASSUME pc' = "recovery" PROVE LedgerInv' BY <1>7, <1>11 DEF LedgerInv
<1>8. ASSUME pc' = "write" PROVE LedgerInv'
  <2>1. Due' BY <1>1, <1>2, <1>3, <1>4, <1>5, <1>8 DEF Due
  <2>2. Prepared' BY <1>1, <1>3, <1>4, <2>1 DEF Prepared
  <2> QED BY <1>8, <1>11, <2>2 DEF LedgerInv
<1>9. ASSUME pc' = "load" PROVE LedgerInv'
  <2>1. records'[next'].tries < 0 /\ next' = mica_boot_next(durable') /\ records' = durable'
    BY <1>3, <1>4, <1>5, <1>9
  <2>2. chosen(media') = slot' BY <1>1, <1>3, <1>4
  <2> QED BY <1>9, <1>11, <2>1, <2>2 DEF LedgerInv
<1>10. LedgerInv' BY <1>5, <1>7, <1>8, <1>9
<1> QED BY <1>1, <1>6, <1>10, StopStep

\* The write of the pending copy.
LEMMA WriteLedger ==
    ASSUME Inv, LedgerInv, WriteSd \/ WriteEmmc PROVE LedgerInv' /\ LedgerStep /\ InactiveStep
<1>1. /\ pc = "write" /\ pc' \in {"flush", "readback", "recovery"}
      /\ UNCHANGED <<buffer, slot, records, next, retiring, running, attempts>>
    BY DEF WriteSd, WriteEmmc, ram, os, history
<1>2. HasPending /\ (~retiring => records[next].tries >= 0) /\ seen = media /\ Prepared /\ running = NoId
    BY <1>1 DEF Inv, PhaseInv, PendingInv, CacheInv, LedgerInv
<1>3. PICK left \in {media[1 - slot], pending, Bad} :
         /\ seen' = [media EXCEPT ![1 - slot] = left]
         /\ \/ media' = seen'
            \/ media' = media
    BY <1>2 DEF WriteSd, WriteEmmc, landings
<1>4. paidFor = NoId BY <1>1 DEF paidFor
<1>5. CASE media' = seen'
  <2>1. \/ chosen(media') = slot /\ durableOf(media') = durable
        \/ chosen(media') = 1 - slot /\ durableOf(media') = records
    BY <1>2, <1>3, <1>5, LandedCopies
  <2>2. durable' = durableOf(media') BY DEF durable, durableOf
  <2>3. Prepared' \/ Landed' BY <1>1, <1>2, <2>1, <2>2 DEF Prepared, Landed, Due
  <2>4. LedgerInv' BY <1>1, <1>2, <1>5, <2>3 DEF LedgerInv
  <2>5. paidFor' \in {NoId, IF retiring THEN NoId ELSE records[next].id}
        /\ (chosen(media') = slot => paidFor' = NoId)
    BY <1>1 DEF paidFor
  <2> QED BY <1>1, <1>2, <1>3, <1>4, <1>5, <2>4, <2>5, LandStep
<1>6. CASE media' = media
  <2>1. durable' = durable /\ chosen(media') = slot BY <1>2, <1>6 DEF durable, Prepared
  <2>2. Prepared' BY <1>1, <1>2, <1>6, <2>1 DEF Prepared, Due
  <2>3. paidFor' = NoId BY <1>1, <2>1 DEF paidFor
  <2>4. LedgerInv' BY <1>1, <1>2, <2>2 DEF LedgerInv
  <2> QED BY <1>1, <1>4, <1>6, <2>3, <2>4, StopStep
<1> QED BY <1>3, <1>5, <1>6

\* The cache reaches the medium.
LEMMA FlushLedger ==
    ASSUME Inv, LedgerInv, FlushCache \/ Writeback PROVE LedgerInv' /\ LedgerStep /\ InactiveStep
<1>1. /\ UNCHANGED <<seen, buffer, slot, records, next, retiring, running, attempts>>
      /\ \/ pc = "flush" /\ pc' = "readback" /\ media' = seen
         \/ pc = "flush" /\ pc' = "recovery" /\ media' = media
         \/ pc' = pc /\ media' = seen /\ seen # media
    BY DEF FlushCache, Writeback, ram, os, history
<1>2. pc # "kernel"
    BY <1>1 DEF Inv, CacheInv
<1>3. running = NoId /\ running' = NoId BY <1>1, <1>2 DEF LedgerInv
<1>4. CASE media' = seen /\ seen # media
  <2>1. /\ HasPending /\ Prepared /\ pc \in {"flush", "recovery"} /\ pc' \in {"flush", "readback", "recovery"}
    BY <1>1, <1>4 DEF Inv, CacheInv, LedgerInv
  <2>2. PICK left \in {media[1 - slot], pending, Bad} : media' = [media EXCEPT ![1 - slot] = left]
    BY <1>4 DEF Inv, CacheInv
  <2>3. \/ chosen(media') = slot /\ durableOf(media') = durable
        \/ chosen(media') = 1 - slot /\ durableOf(media') = records
    BY <2>1, <2>2, LandedCopies
  <2>4. durable' = durableOf(media') BY DEF durable, durableOf
  <2>5. Prepared' \/ Landed' BY <1>1, <2>1, <2>3, <2>4 DEF Prepared, Landed, Due
  <2>6. LedgerInv' BY <1>1, <1>3, <1>4, <2>1, <2>5 DEF LedgerInv
  <2>7. paidFor = NoId BY <2>1 DEF paidFor, Prepared
  <2>8. paidFor' \in {NoId, IF retiring THEN NoId ELSE records[next].id}
        /\ (chosen(media') = slot => paidFor' = NoId)
    BY <1>1 DEF paidFor
  <2> QED BY <1>1, <1>3, <2>1, <2>2, <2>6, <2>7, <2>8, LandStep
<1>5. CASE media' = media
  <2>1. durable' = durable /\ chosen(media') = chosen(media) BY <1>5 DEF durable
  <2>2. Prepared' <=> Prepared BY <1>1, <2>1 DEF Prepared, Due
  <2>3. Landed' <=> Landed BY <1>1, <2>1 DEF Landed
  <2>4. pc = "flush" /\ pc' \in {"readback", "recovery"} BY <1>1, <1>5
  <2>5. LedgerInv' BY <1>1, <1>3, <1>5, <2>2, <2>3, <2>4 DEF LedgerInv
  <2>6. paidFor' = paidFor \/ paidFor' = NoId BY <1>1, <2>1, <2>4 DEF paidFor
  <2> QED BY <1>1, <1>3, <1>5, <2>5, <2>6, StopStep
<1> QED BY <1>1, <1>4, <1>5

\* What is read back equals the pending copy only when it is on the medium.
LEMMA ReadBackLedger ==
    ASSUME Inv, LedgerInv, ReadBack PROVE LedgerInv' /\ LedgerStep /\ InactiveStep
<1>1. pc = "readback" /\ UNCHANGED <<media, seen, slot, records, next, retiring, running, attempts>>
    BY DEF ReadBack, store, os, history
<1>2. PICK back \in {seen[1 - slot], Bad} :
         pc' = IF back # pending THEN "recovery" ELSE IF retiring THEN "reset" ELSE "load"
    BY DEF ReadBack
<1>3. HasPending /\ seen = media /\ (~retiring => records[next].tries >= 0) /\ running = NoId
    BY <1>1 DEF Inv, PhaseInv, PendingInv, CacheInv, LedgerInv
<1>4. seen' = media' /\ running' = NoId BY <1>1, <1>3
<1>5. durable' = durable /\ chosen(media') = chosen(media) BY <1>1 DEF durable
<1>6. pc' \in {"recovery", "reset", "load"} BY <1>2
<1>7. pc' = "load" => Landed /\ ~retiring
  <2> SUFFICES ASSUME pc' = "load" PROVE Landed /\ ~retiring OBVIOUS
  <2>1. /\ media \in [Slots -> Copy] /\ slot \in Slots /\ records \in Records /\ media[slot].flag \in Flags
        /\ pending = newCopy(media[slot].flag, records)
    BY <1>3 DEF Inv, TypeOK, HasPending, Copy
  <2>2. pending.crc /\ ~Bad.crc BY <2>1, NewCopy, BadCopy
  <2>3. media[1 - slot] = pending /\ ~retiring
    <3>1. back = pending /\ ~retiring BY <1>2
    <3> QED BY <1>3, <2>2, <3>1
  <2>4. CASE Prepared
    <3>1. media = [media EXCEPT ![1 - slot] = pending] BY <2>1, <2>3
    <3>2. chosen(media) = 1 - slot BY <1>3, <2>4, <3>1, LandedCopies
    <3>3. slot # 1 - slot BY <2>1 DEF Slots
    <3> QED BY <2>4, <3>2, <3>3 DEF Prepared
  <2> QED BY <1>1, <2>3, <2>4 DEF LedgerInv
<1>8. LedgerInv'
  <2>1. CASE pc' # "load" BY <1>4, <1>6, <2>1 DEF LedgerInv
  <2>2. CASE pc' = "load"
    <3>1. Landed' BY <1>1, <1>5, <1>7, <2>2 DEF Landed
    <3>2. ~(records'[next'].tries < 0)
      <4>1. records[next].tries >= 0 /\ records \in Records /\ next \in DOMAIN records
        BY <1>3, <1>7, <2>2 DEF HasPending
      <4>2. records[next].tries \in Int BY <4>1, RecordEntry
      <4> QED BY <1>1, <4>1, <4>2
    <3> QED BY <1>4, <2>2, <3>1, <3>2 DEF LedgerInv
  <2> QED BY <2>1, <2>2
<1>9. paidFor' = paidFor \/ paidFor' = NoId BY <1>1, <1>5, <1>6 DEF paidFor
<1> QED BY <1>1, <1>3, <1>4, <1>8, <1>9, StopStep

\* The FIT file is read.
LEMMA LoadLedger ==
    ASSUME Inv, LedgerInv, LoadFit PROVE LedgerInv' /\ LedgerStep /\ InactiveStep
<1>1. /\ pc = "load" /\ pc' \in {"bootm", "failed"}
      /\ UNCHANGED <<media, seen, buffer, slot, records, next, retiring, running, attempts>>
    BY DEF LoadFit, proceed, store, ram, os, history
<1>2. durable' = durable /\ chosen(media') = chosen(media) BY <1>1 DEF durable
<1>3. Landed' <=> Landed BY <1>1, <1>2 DEF Landed
<1>4. seen' = media' /\ running = NoId /\ running' = NoId BY <1>1 DEF Inv, CacheInv, LedgerInv
<1>5. LedgerInv' BY <1>1, <1>2, <1>3, <1>4 DEF LedgerInv
<1>6. paidFor' = paidFor \/ paidFor' = NoId BY <1>1, <1>2 DEF paidFor
<1> QED BY <1>1, <1>4, <1>5, <1>6, StopStep

\* A candidate is launched on the trial that was paid for, a confirmed image from the front.
LEMMA BootmLedger ==
    ASSUME Inv, LedgerInv, Bootm PROVE LedgerInv' /\ LedgerStep /\ InactiveStep
<1>1. /\ pc = "bootm" /\ UNCHANGED <<media, seen>>
      /\ pc' \in {"kernel", "failed"}
      /\ pc' = "kernel" => running' = records[next].id
      /\ pc' = "failed" => UNCHANGED <<buffer, slot, records, next, retiring, running>>
    BY DEF Bootm, store, ram, os
<1>2. seen' = media' /\ running = NoId BY <1>1 DEF Inv, CacheInv, LedgerInv
<1>3. durable' = durable /\ chosen(media') = chosen(media) BY <1>1 DEF durable
<1>4. next \in DOMAIN records /\ ~retiring BY <1>1 DEF Inv, PhaseInv, LoadInv
<1>5. records \in Records BY <1>4 DEF Inv, TypeOK, NoRecords
<1>6. records[next].tries \in Tries /\ records[next].tries \in Int /\ records[next].id \in Id
    BY <1>4, <1>5, RecordEntry
<1>7. InactiveStep BY <1>1 DEF InactiveStep
<1>8. LedgerInv'
  <2>1. CASE pc' = "kernel" BY <1>2, <2>1 DEF LedgerInv
  <2>2. CASE pc' = "failed"
    <3>1. UNCHANGED <<slot, records, next, running>> BY <1>1, <2>2
    <3>2. Landed' <=> Landed BY <1>3, <3>1 DEF Landed
    <3> QED BY <1>1, <1>2, <1>3, <2>2, <3>1, <3>2 DEF LedgerInv
  <2> QED BY <1>1, <2>1, <2>2
<1>9. paidFor' = NoId BY <1>1 DEF paidFor
<1>10. LedgerStep
  <2>1. CASE records[next].tries < 0
    <3>1. records = durable /\ next = mica_boot_next(durable) /\ chosen(media) = slot /\ attempts' = attempts
      BY <1>1, <2>1 DEF LedgerInv, Bootm
    <3>2. paidFor = NoId BY <3>1 DEF paidFor
    <3>3. CASE pc' = "failed" BY <1>1, <1>3, <1>9, <3>1, <3>2, <3>3 DEF LedgerStep
    <3>4. CASE pc' = "kernel"
      <4>1. records[next].tries = Confirmed BY <1>6, <2>1 DEF Tries, Confirmed, TrialLimit
      <4>2. mica_boot_next(durable) # 0
        <5>1. next # 0 BY <1>4, <1>5, RecordEntry
        <5> QED BY <3>1, <5>1
      <4>3. Ledger!front = mica_boot_next(durable) BY LedgerOps DEF Ledger!front
      <4>4. Ledger!LaunchConfirmed
        BY <1>1, <1>2, <1>3, <1>9, <3>1, <3>2, <3>4, <4>1, <4>2, <4>3, LedgerOps
           DEF Ledger!LaunchConfirmed, paidFor
      <4> QED BY <4>4 DEF LedgerStep, Ledger!Next
    <3> QED BY <1>1, <3>3, <3>4
  <2>2. CASE ~(records[next].tries < 0)
    <3>1. Landed /\ records[next].tries >= 0 BY <1>1, <1>6, <2>2 DEF LedgerInv
    <3>2. chosen(media) # slot BY <3>1 DEF Landed, Inv, TypeOK, Slots
    <3>3. paidFor = records[next].id BY <1>1, <1>4, <3>1, <3>2 DEF paidFor
    <3>4. paidFor # NoId BY <1>6, <3>3, NoIdAssumption
    <3>5. attempts' = [attempts EXCEPT ![paidFor] = @ + 1] BY <2>2, <3>3 DEF Bootm
    <3>6. running' \in {NoId, paidFor} BY <1>1, <1>2, <3>3
    <3>7. Ledger!LaunchCandidate BY <1>3, <1>9, <3>4, <3>5, <3>6 DEF Ledger!LaunchCandidate, paidFor
    <3> QED BY <3>7 DEF LedgerStep, Ledger!Next
  <2> QED BY <2>1, <2>2
<1> QED BY <1>7, <1>8, <1>10

\* A confirmed image that did not boot is up for retirement.
LEMMA FailedLedger ==
    ASSUME Inv, LedgerInv, SelectedFailed PROVE LedgerInv' /\ LedgerStep /\ InactiveStep
<1>1. pc = "failed" /\ UNCHANGED <<media, seen, slot, next, running, attempts>>
    BY DEF SelectedFailed, store, os, history, ram
<1>2. seen' = media' /\ running' = NoId BY <1>1 DEF Inv, CacheInv, LedgerInv
<1>3. durable' = durable /\ chosen(media') = chosen(media) BY <1>1 DEF durable
<1>4. \/ pc' \in {"reset", "recovery"}
      \/ records[next].tries < 0 /\ pc' = "write" /\ retiring' /\ records' = setTries(records, next, 0)
    BY DEF SelectedFailed, preparePending
<1>5. LedgerInv'
  <2>1. CASE pc' \in {"reset", "recovery"} BY <1>2, <2>1 DEF LedgerInv
  <2>2. CASE records[next].tries < 0 /\ pc' = "write" /\ retiring' /\ records' = setTries(records, next, 0)
    <3>1. chosen(media) = slot /\ records = durable /\ next = mica_boot_next(durable)
      BY <1>1, <2>2 DEF LedgerInv
    <3>2. next \in DOMAIN records /\ records \in Records
      BY <1>1 DEF Inv, PhaseInv, LoadInv, TypeOK, NoRecords
    <3>3. records[next].tries = Confirmed /\ next # 0
      BY <2>2, <3>2, RecordEntry DEF Tries, Confirmed, TrialLimit
    <3>4. Due' BY <1>1, <1>3, <2>2, <3>1, <3>2, <3>3 DEF Due
    <3>5. Prepared' BY <1>1, <1>3, <3>1, <3>4 DEF Prepared
    <3> QED BY <1>2, <2>2, <3>5 DEF LedgerInv
  <2> QED BY <1>4, <2>1, <2>2
<1>6. paidFor = NoId /\ paidFor' = NoId BY <1>1, <1>4 DEF paidFor
<1> QED BY <1>1, <1>5, <1>6, StopStep

\* A reset.
LEMMA ResetLedger ==
    ASSUME Inv, LedgerInv, Reset \/ WatchdogReset \/ Reboot PROVE LedgerInv' /\ LedgerStep /\ InactiveStep
<1>1. /\ pc' = "policy" /\ pc \in {"reset", "kernel"} /\ running' = NoId
      /\ UNCHANGED <<media, seen, attempts>>
    BY DEF Reset, WatchdogReset, Reboot, restart, store, history
<1>2. seen' = media' BY <1>1 DEF Inv, CacheInv
<1>3. LedgerInv' BY <1>1, <1>2 DEF LedgerInv
<1>4. paidFor' = NoId BY <1>1 DEF paidFor
<1> QED BY <1>1, <1>3, <1>4, StopStep

\* An outage may land, lose or tear the write that is under way, and nothing else.
LEMMA OutageLedger ==
    ASSUME Inv, LedgerInv, Outage PROVE LedgerInv' /\ LedgerStep /\ InactiveStep
<1>1. pc' = "off" /\ seen' = media' /\ running' = NoId /\ UNCHANGED attempts
    BY DEF Outage, restart
<1>2. LedgerInv' BY <1>1 DEF LedgerInv
<1>3. paidFor' = NoId BY <1>1 DEF paidFor
<1>4. PICK left \in interrupted : media' = [media EXCEPT ![underWay] = left] BY DEF Outage
<1>5. media \in [Slots -> Copy] /\ slot \in Slots BY DEF Inv, TypeOK
<1>6. CASE pc = "write" \/ (pc # "kernel" /\ seen # media)
  <2>1. HasPending /\ Prepared
    BY <1>6 DEF Inv, PhaseInv, PendingInv, CacheInv, LedgerInv
  <2>2. underWay = 1 - slot BY <1>6 DEF underWay
  <2>3. left \in {media[1 - slot], pending, Bad}
    <3>1. CASE pc = "write" BY <2>2, <3>1 DEF interrupted, landings
    <3>2. CASE pc # "write" /\ pc # "kernel" /\ seen # media
      <4>1. seen[1 - slot] \in {pending, Bad}
        <5>1. 1 - slot \in Slots BY <1>5 DEF Slots
        <5> QED BY <1>5, <3>2, <5>1 DEF Inv, CacheInv
      <4> QED BY <2>2, <3>2, <4>1 DEF interrupted, landings
    <3> QED BY <1>6, <3>1, <3>2
  <2>4. paidFor = NoId BY <1>6, <2>1 DEF paidFor, Prepared
  <2>5. running = NoId BY <1>6 DEF LedgerInv
  <2>6. media' = [media EXCEPT ![1 - slot] = left] BY <1>4, <2>2
  <2> QED BY <1>1, <1>2, <1>3, <2>1, <2>3, <2>4, <2>5, <2>6, LandStep
<1>7. CASE pc = "kernel"
  <2>1. chosen(media) \in Slots BY <1>7 DEF Inv, PhaseInv, KernelInv
  <2>2. underWay = 1 - chosen(media) /\ left \in {media[underWay], Bad}
    BY <1>7 DEF underWay, interrupted
  <2>3. underWay \in Slots /\ underWay # chosen(media) BY <2>1, <2>2 DEF Slots
  <2>4. media' \in [Slots -> Copy] /\ media'[chosen(media)] = media[chosen(media)] /\ media'[underWay] = left
    BY <1>4, <1>5, <2>1, <2>2, <2>3, BadCopy
  <2>5. InactiveStep BY <1>4, <1>5, <2>1, <2>3 DEF InactiveStep
  <2>6. chosen(media') = chosen(media)
    <3>1. CASE left = Bad
      <4>1. media'[chosen(media)].crc /\ ~media'[1 - chosen(media)].crc
        BY <1>5, <2>1, <2>2, <2>4, <3>1, BadCopy, ChosenSlot
      <4> QED BY <2>1, <2>4, <4>1, ChosenSlot
    <3>2. CASE left = media[underWay]
      <4>1. media' = media BY <1>4, <1>5, <2>3, <3>2
      <4> QED BY <4>1
    <3> QED BY <2>2, <3>1, <3>2
  <2>7. durable' = durable BY <2>4, <2>6 DEF durable
  <2>8. Ledger!Stop BY <1>1, <1>3, <2>7 DEF Ledger!Stop, paidFor
  <2> QED BY <1>2, <2>5, <2>8 DEF LedgerStep, Ledger!Next
<1>8. CASE pc # "write" /\ pc # "kernel" /\ seen = media
  <2>1. media' = media
    <3>1. left = media[underWay] /\ underWay = 1 - slot BY <1>8 DEF interrupted, underWay
    <3>2. underWay \in Slots BY <1>5, <3>1 DEF Slots
    <3> QED BY <1>4, <1>5, <3>1, <3>2
  <2> QED BY <1>1, <1>2, <1>3, <2>1, StopStep
<1> QED BY <1>6, <1>7, <1>8

\* The running system's write is the ledger's next contents at once.
LEMMA OsWriteLedger ==
    ASSUME Inv, LedgerInv, pc = "kernel", NEW r \in Records, osWrite(r)
    PROVE  LedgerInv' /\ InactiveStep /\ durable' = r /\ paidFor = NoId /\ paidFor' = NoId
           /\ running' = running
<1> DEFINE s == chosen(media)
           new == newCopy(media[s].flag, r)
<1>1. /\ media' = [media EXCEPT ![1 - s] = new] /\ seen' = media' /\ pc' = pc /\ running' = running
    BY DEF osWrite, ram, os
<1>2. media \in [Slots -> Copy] /\ s \in Slots BY DEF Inv, TypeOK, PhaseInv, KernelInv
<1>3. media[s].crc /\ media[s].flag \in Flags /\ 1 - s \in Slots /\ 1 - s # s /\ 1 - s # -1
    BY <1>2, ChosenSlot DEF Slots, Copy
<1>4. new \in Copy /\ new.crc /\ new.flag = successor(media[s].flag) /\ decode_environment(new) = r
    BY <1>3, NewCopy
<1> HIDE DEF new
<1>5. media' \in [Slots -> Copy] /\ media'[s] = media[s] /\ media'[1 - s] = new
    BY <1>1, <1>2, <1>3, <1>4
<1>6. media'[0].crc /\ media'[1].crc /\ media'[1 - s].flag = successor(media'[s].flag)
    BY <1>2, <1>3, <1>4, <1>5 DEF Slots
<1>7. chosen(media') = 1 - s
  <2> HIDE DEF s
  <2> QED BY <1>2, <1>5, <1>6, ChosenSlot, Zenon
<1>8. durable' = r BY <1>3, <1>4, <1>5, <1>7 DEF durable
<1>9. InactiveStep BY <1>1, <1>2, <1>3 DEF InactiveStep
<1>10. LedgerInv' BY <1>1 DEF LedgerInv
<1>11. paidFor = NoId /\ paidFor' = NoId BY <1>1 DEF paidFor
<1> QED BY <1>1, <1>8, <1>9, <1>10, <1>11

LEMMA SystemLedger ==
    ASSUME Inv, LedgerInv, Confirm \/ Install PROVE LedgerInv' /\ LedgerStep /\ InactiveStep
<1>1. pc = "kernel" BY DEF Confirm, Install
<1>2. durable \in Records BY <1>1, DurableRecords
<1>3. CASE Confirm
  <2>1. PICK i \in DOMAIN durable : durable[i].id = running /\ osWrite(setTries(durable, i, Confirmed))
    BY <1>3 DEF Confirm
  <2>2. Confirmed \in Tries BY DEF Tries, Confirmed, TrialLimit
  <2>3. setTries(durable, i, Confirmed) \in Records BY <1>2, <2>2, SetTries
  <2>4. /\ LedgerInv' /\ InactiveStep /\ durable' = setTries(durable, i, Confirmed)
        /\ paidFor = NoId /\ paidFor' = NoId /\ running' = running
    BY <1>1, <2>1, <2>3, OsWriteLedger
  <2>5. attempts' = attempts BY <1>3 DEF Confirm
  <2>6. Ledger!Confirm
    BY <2>1, <2>4, <2>5, LedgerOps DEF Ledger!Confirm, Ledger!withTries, paidFor
  <2> QED BY <2>4, <2>6 DEF LedgerStep, Ledger!Next
<1>4. CASE Install
  <2>1. PICK i \in DOMAIN durable,
             new \in [id : Id \ {running}, kernel : Kernel,
                     generation : 1 .. GenerationLimit, tries : {TrialLimit}] :
           /\ durable[i].id = running
           /\ \A j \in DOMAIN durable : new.generation > durable[j].generation
           /\ osWrite([k \in 1 .. 2 |-> IF k = 1 THEN new ELSE durable[i]])
           /\ attempts' = [attempts EXCEPT ![new.id] = 0]
    BY <1>4 DEF Install
  <2> DEFINE q == [k \in 1 .. 2 |-> IF k = 1 THEN new ELSE durable[i]]
  <2>2. q \in Records BY <1>2, <2>1, InstalledRecords
  <2>3. /\ LedgerInv' /\ InactiveStep /\ durable' = q
        /\ paidFor = NoId /\ paidFor' = NoId /\ running' = running
    BY <1>1, <2>1, <2>2, OsWriteLedger
  <2>4. new \in Record /\ new.tries = TrialLimit BY DEF Record, Tries, Confirmed, TrialLimit
  <2>5. Ledger!Install
    <3>1. /\ new \in Ledger!Record /\ new.tries = Ledger!TrialLimit /\ durable' \in Ledger!Records
      BY <2>2, <2>3, <2>4, LedgerOps
    <3> QED BY <2>1, <2>3, <3>1 DEF Ledger!Install, paidFor
  <2> QED BY <2>3, <2>5 DEF LedgerStep, Ledger!Next
<1> QED BY <1>3, <1>4

\* Every step.
LEMMA LedgerSteps ==
    ASSUME MaxReadFaults = 0
    PROVE  Inv /\ LedgerInv /\ [Next]_vars => LedgerInv' /\ LedgerStep /\ InactiveStep
<1> SUFFICES ASSUME Inv, LedgerInv, [Next]_vars PROVE LedgerInv' /\ LedgerStep /\ InactiveStep
    OBVIOUS
<1>1. CASE PowerOn BY <1>1, EarlyLedger
<1>2. CASE Loader
    BY <1>2, EarlyLedger, ReadLedger, SelectLedger, WriteLedger, FlushLedger, ReadBackLedger, LoadLedger,
       BootmLedger, FailedLedger, ResetLedger DEF Loader
<1>3. CASE System BY <1>3, ResetLedger, EarlyLedger, SystemLedger DEF System
<1>4. CASE Writeback BY <1>4, FlushLedger
<1>5. CASE Outage BY <1>5, OutageLedger
<1>6. CASE UNCHANGED vars
  <2>1. UNCHANGED <<media, seen, pc, slot, records, next, retiring, running, attempts>>
    BY <1>6 DEF vars, store, ram, os, history
  <2>2. durable' = durable /\ chosen(media') = chosen(media) BY <2>1 DEF durable
  <2>3. LedgerInv' BY <2>1, <2>2 DEF LedgerInv, Prepared, Landed, Due
  <2>4. paidFor' = paidFor BY <2>1, <2>2 DEF paidFor
  <2> QED BY <2>1, <2>3, <2>4, StopStep
<1> QED BY <1>1, <1>2, <1>3, <1>4, <1>5, <1>6 DEF Next

\* The initial states are the ledger's.
LEMMA LedgerInit == Init /\ Inv => LedgerInv /\ Ledger!Init
<1> SUFFICES ASSUME Init, Inv PROVE LedgerInv /\ Ledger!Init OBVIOUS
<1>1. LedgerInv BY DEF Init, LedgerInv
<1>2. durable \in Records \cup {NoRecords}
  <2>1. media \in [Slots -> Copy] /\ MediaOK(media, attempts, readFaults) BY DEF Inv, TypeOK, MediaInv
  <2>2. CASE chosen(media) = -1 BY <2>2 DEF durable
  <2>3. CASE chosen(media) # -1
    <3>1. chosen(media) \in Slots /\ media[chosen(media)].crc BY <2>1, <2>3, ChosenSlot DEF Slots
    <3> QED BY <2>1, <2>3, <3>1, ParseText DEF durable, MediaOK, Decodable, decode_environment
  <2> QED BY <2>2, <2>3
<1>3. paidFor = NoId BY DEF Init, paidFor
<1>4. running = NoId /\ attempts = [i \in Id |-> 0] BY DEF Init
<1>5. Ledger!Init BY <1>2, <1>3, <1>4, LedgerOps DEF Ledger!Init, paidFor
<1> QED BY <1>1, <1>5

\* With no read error, persist_environment and the running system never touch the copy the
\* next boot would use.
THEOREM WritesInactive == ASSUME MaxReadFaults = 0 PROVE Spec => InactiveOnly
<1>1. Init /\ Inv => LedgerInv BY LedgerInit
<1>2. Inv /\ LedgerInv /\ [Next]_vars => LedgerInv' BY LedgerSteps
<1>3. Inv /\ LedgerInv /\ [Next]_vars => [\A s \in Slots : media'[s] # media[s] => s # chosen(media)]_vars
    BY LedgerSteps DEF InactiveStep
<1> QED BY <1>1, <1>2, <1>3, Invariance, PTL DEF Spec, InactiveOnly

\* With no read error, mica_file_boot and the two copies implement the ledger: a trial leaves
\* the medium before the launch it pays for, and nothing but a trial, a retirement or the
\* running system changes what the next boot decodes.
THEOREM BootImplementsLedger == ASSUME MaxReadFaults = 0 PROVE Spec => ImplementsLedger
<1>1. Init /\ Inv => LedgerInv /\ Ledger!Init BY LedgerInit
<1>2. Inv /\ LedgerInv /\ [Next]_vars => LedgerInv' BY LedgerSteps
<1>3. Inv /\ LedgerInv /\ [Next]_vars => [Ledger!Next]_(Ledger!ledgerVars)
    BY LedgerSteps DEF LedgerStep, Ledger!ledgerVars, paidFor
<1> QED BY <1>1, <1>2, <1>3, Invariance, PTL DEF Spec, ImplementsLedger, Ledger!Spec
=============================================================================
