------------------------------ MODULE RockUsb -------------------------------
(***************************************************************************)
(* The RockUSB flash service of the CX3576 loader with its write-back      *)
(* cache (boards/cx3576/loader/patches/0004 and 0010).  The host sends one *)
(* command at a time and waits for its status.  A WRITE_LBA is answered    *)
(* when its last chunk is in the cache; any other command first flushes.   *)
(*                                                                         *)
(* A block is the unit of every size; ideal is what the host has been told *)
(* the device holds.  A chunk that is refused for its size changes nothing *)
(* and is one case, whatever the size was.                                 *)
(***************************************************************************)
EXTENDS Integers, Sequences, FiniteSets

CONSTANTS
    Size,           \* blocks of the device
    CacheBlocks,    \* RKUSB_WRITE_CACHE_SIZE
    ChunkBlocks,    \* EP_BUFFER_SIZE
    MaxWrite,       \* bound: blocks of one WRITE_LBA
    Values          \* contents of a block

ASSUME SizesAssumption ==
    /\ Size \in Nat /\ MaxWrite \in Nat
    /\ ChunkBlocks \in Nat \ {0} /\ CacheBlocks \in Nat /\ ChunkBlocks < CacheBlocks

VARIABLES
    dev,            \* the blocks of the device
    start,          \* write_cache_lba
    cache,          \* write_cache, as far as write_cache_bytes
    failed,         \* write_cache_failed
    mem,            \* write_cache is allocated
    idle,           \* 100 ms have passed since write_cache_last_ms
    op,             \* the command in work or last answered, "none" before the first
    lba, left,      \* f_rkusb->lba; dl_size - dl_bytes
    answer,         \* the status sent for op: "none", "GOOD" or "FAIL"
    result,         \* what a read has returned
    ideal           \* history: what the host has been told

session == <<op, lba, left, answer, result>>
vars == <<dev, start, cache, failed, mem, idle, session, ideal>>

Blocks == 0 .. Size - 1
Ops == {"write", "read", "reset", "other"}

-----------------------------------------------------------------------------
(* The cache.                                                              *)

\* The blocks a run of n from block l covers, and contents with a run of data put over it.
span(l, n) == {b \in Blocks : l <= b /\ b < l + n}
over(contents, l, data) ==
    [b \in Blocks |-> IF b \in span(l, Len(data)) THEN data[b - l + 1] ELSE contents[b]]

\* blk_dwrite: all of it, or some blocks of it and an error.  A run that leaves the device
\* is always an error.
blk_dwrite(l, data, ok) ==
    IF ok THEN l + Len(data) <= Size /\ dev' = over(dev, l, data)
    ELSE \E S \in SUBSET span(l, Len(data)) :
            dev' = [b \in Blocks |-> IF b \in S THEN data[b - l + 1] ELSE dev[b]]

\* Fault: a failed flush is reported once and forgotten.
flushedForgetful(l, data, ok) ==
    /\ blk_dwrite(l, data, ok) /\ cache' = << >> /\ UNCHANGED failed

\* What is in the cache, which is l and data, goes to the device.
flushed(l, data, ok) ==
    /\ blk_dwrite(l, data, ok)
    /\ IF ok THEN cache' = << >> /\ UNCHANGED failed
             ELSE cache' = data /\ failed' = TRUE

\* allocated: there is a buffer when the flush looks at it.
rockusb_flush_write_cache(allocated, ok) ==
    /\ UNCHANGED start
    /\ \/ failed /\ ~ok /\ UNCHANGED <<dev, cache, failed>>
       \/ ~failed /\ cache = << >> /\ ok /\ UNCHANGED <<dev, cache, failed>>
       \/ ~failed /\ cache # << >> /\ ~allocated /\ ~ok /\ UNCHANGED <<dev, cache, failed>>
       \/ ~failed /\ cache # << >> /\ allocated /\ flushed(start, cache, ok)

mustFlush(l, data) ==
    cache # << >> /\ (l # start + Len(cache) \/ Len(data) > CacheBlocks - Len(cache))

\* At most one of the two flushes of a chunk happens, as a chunk is smaller than the cache.
rockusb_cache_write(l, data, ok) ==
    \/ (failed \/ data = << >>) /\ ~ok /\ UNCHANGED <<dev, start, cache, failed>>
    \/ /\ ~failed /\ data # << >> /\ mustFlush(l, data)
       /\ \/ flushed(start, cache, FALSE) /\ ~ok /\ UNCHANGED start
          \/ /\ ok /\ blk_dwrite(start, cache, TRUE)
             /\ start' = l /\ cache' = data /\ UNCHANGED failed
    \/ /\ ~failed /\ data # << >> /\ ~mustFlush(l, data)
       /\ start' = (IF cache = << >> THEN l ELSE start)
       /\ IF Len(cache) + Len(data) = CacheBlocks
          THEN flushed(start', cache \o data, ok)
          ELSE ok /\ cache' = cache \o data /\ UNCHANGED <<dev, failed>>

-----------------------------------------------------------------------------
(* The handlers.                                                           *)

\* The buffer that rockusb_disable has freed is allocated again.  Without memory the loop's
\* flush returns; a handler aborts (OutOfMemory).
get_rkusb == mem' = TRUE

\* External: the host sends its next command when the last one is answered.
HostCommand ==
    /\ op = "none" \/ answer # "none"
    /\ ~(op = "reset" /\ answer = "GOOD")
    /\ \E o \in Ops, l \in 0 .. Size, n \in 1 .. MaxWrite :
          op' = o /\ lba' = l /\ left' = (IF o = "write" THEN n ELSE 0)
    /\ answer' = "none"
    /\ UNCHANGED <<dev, start, cache, failed, mem, idle, result, ideal>>

\* rx_handler_dl_image: one chunk.  The last one answers the command, a failed one at once.
WriteChunk ==
    /\ op = "write" /\ answer = "none"
    /\ get_rkusb
    /\ \E n \in 0 .. ChunkBlocks, v \in Values, ok \in BOOLEAN :
          LET data == [i \in 1 .. n |-> v] IN
          /\ n <= left
          /\ rockusb_cache_write(lba, data, ok)
          /\ idle' = (idle /\ (data = << >> \/ failed'))
          /\ IF ok THEN /\ lba' = lba + n /\ left' = left - n
                        /\ ideal' = over(ideal, lba, data)
                        /\ answer' = (IF left' = 0 THEN "GOOD" ELSE "none")
                   ELSE answer' = "FAIL" /\ UNCHANGED <<lba, left, ideal>>
    /\ UNCHANGED <<op, result>>

\* Fault: only a reset flushes.
FlushFirstOnReset(ok) ==
    IF op = "reset" THEN rockusb_flush_write_cache(TRUE, ok)
    ELSE ok /\ UNCHANGED <<dev, start, cache, failed>>

FlushFirst(ok) == rockusb_flush_write_cache(TRUE, ok)

\* rx_handler_command for anything but WRITE_LBA: get_rkusb, the flush, then the handler.
Command ==
    /\ op \in Ops \ {"write"} /\ answer = "none"
    /\ get_rkusb
    /\ \E ok \in BOOLEAN :
          /\ FlushFirst(ok)
          /\ answer' = (IF ok THEN "GOOD" ELSE "FAIL")
    /\ result' = (IF op = "read" /\ lba \in Blocks /\ answer' = "GOOD" THEN dev'[lba] ELSE result)
    /\ UNCHANGED <<idle, op, lba, left, ideal>>

\* Fault: the loop flushes only when no command is open.
idleOverBetween == idle /\ (op = "none" \/ answer # "none")

idleOver == idle

\* The loop of do_rockusb; what the flush returns is not looked at.
rockusb_flush_write_cache_if_idle ==
    /\ get_rkusb
    /\ cache # << >> /\ idleOver
    /\ \E ok \in BOOLEAN : rockusb_flush_write_cache(TRUE, ok)
    /\ UNCHANGED <<idle, session, ideal>>

noSession == op' = "none" /\ answer' = "none" /\ UNCHANGED <<lba, left, result>>

\* The host resets the bus or leaves, or the operator ends the command.
rockusb_disable ==
    /\ \E ok \in BOOLEAN : rockusb_flush_write_cache(mem, ok)
    /\ mem' = FALSE /\ noSession
    /\ UNCHANGED <<idle, ideal>>

\* External: time passes.
Tick == ~idle /\ idle' = TRUE /\ UNCHANGED <<dev, start, cache, failed, mem, session, ideal>>

\* External: the board starts again after a reset that was answered.
Restart ==
    /\ op = "reset" /\ answer = "GOOD"
    /\ cache' = << >> /\ failed' = FALSE /\ mem' = TRUE /\ start' = 0 /\ idle' = FALSE
    /\ noSession /\ UNCHANGED <<dev, ideal>>

\* A handler uses the NULL that get_rkusb returns without memory: the loader aborts and the
\* board starts again.  The host has no answer and starts over with the device as it is.
OutOfMemory ==
    /\ op \in Ops /\ answer = "none" /\ ~mem
    /\ cache' = << >> /\ failed' = FALSE /\ mem' = TRUE /\ start' = 0 /\ idle' = FALSE
    /\ ideal' = dev /\ noSession /\ UNCHANGED dev

-----------------------------------------------------------------------------
Init ==
    /\ \E v \in Values : dev = [b \in Blocks |-> v] /\ result = v
    /\ ideal = dev
    /\ start = 0 /\ cache = << >> /\ failed = FALSE /\ mem = TRUE /\ idle = FALSE
    /\ op = "none" /\ lba = 0 /\ left = 0 /\ answer = "none"

Next ==
    \/ HostCommand \/ WriteChunk \/ Command
    \/ rockusb_flush_write_cache_if_idle \/ rockusb_disable \/ Tick \/ Restart \/ OutOfMemory

Spec == Init /\ [][Next]_vars

\* The loop runs on and time passes; nothing is assumed of the host or the device.
FairSpec == Spec /\ WF_vars(Tick) /\ WF_vars(rockusb_flush_write_cache_if_idle)

-----------------------------------------------------------------------------
(* Properties.                                                             *)

\* Every variable keeps its type, and the cache its size.
TypeOK ==
    /\ dev \in [Blocks -> Values] /\ ideal \in [Blocks -> Values]
    /\ start \in Nat /\ cache \in Seq(Values) /\ Len(cache) <= CacheBlocks
    /\ failed \in BOOLEAN /\ mem \in BOOLEAN /\ idle \in BOOLEAN
    /\ op \in Ops \cup {"none"} /\ lba \in Nat /\ left \in 0 .. MaxWrite
    /\ answer \in {"none", "GOOD", "FAIL"} /\ result \in Values

\* The device as it will be when the cache has been written.
visible == over(dev, start, cache)

\* A command is answered GOOD only while everything the host was ever told is on the device
\* or still in the cache, in the order it was told: a flush that fails after its data was
\* acknowledged makes every later command fail.  A read returns what was written last.
Truthful ==
    [][answer' = "GOOD" /\ answer # "GOOD" =>
         /\ ~failed' /\ visible' = ideal'
         /\ op' = "read" /\ lba' \in Blocks => result' = ideal'[lba']]_vars

\* A command other than a write is a barrier: once it is answered, everything is stored,
\* so that the reset at the end of flashing loses nothing.
Barrier == answer = "GOOD" /\ op # "write" => dev = ideal

\* Power loss takes at most one cache of acknowledged blocks, as the patch says.
LossWindow == ~failed => Cardinality({b \in Blocks : dev[b] # ideal[b]}) <= CacheBlocks

\* Data that is still to be written has its buffer, through bus resets and the reallocation
\* that follows: what a later flush writes is never a buffer nobody filled.
CacheHasBuffer == cache # << >> /\ ~failed => mem

\* Accepted data does not stay in RAM while the loop runs, however the host behaves: it
\* reaches the device, or is overwritten, or the service has failed.
waiting(b, v) == ~failed /\ visible[b] = v /\ dev[b] # v
Flushed == \A b \in Blocks, v \in Values : []<>~waiting(b, v)

(* Nothing is answered before what it promises is on the flash, no more is at risk than a
   cache holds, and the cache has its buffer. *)
CacheSafe == TypeOK /\ Barrier /\ LossWindow /\ CacheHasBuffer
=============================================================================
