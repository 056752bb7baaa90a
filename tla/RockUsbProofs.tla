---------------------------- MODULE RockUsbProofs ---------------------------
(***************************************************************************)
(* What the flash service promises its host, for every size of the device, *)
(* the cache, a chunk and a write.                                         *)
(***************************************************************************)
EXTENDS RockUsb, SequenceTheorems, FiniteSetTheorems, TLAPS

Contents == [Blocks -> Values]

\* The two parts of TypeOK.
CacheType ==
    /\ dev \in Contents /\ start \in Nat /\ cache \in Seq(Values) /\ Len(cache) <= CacheBlocks
    /\ failed \in BOOLEAN

SessionType ==
    /\ ideal \in Contents /\ mem \in BOOLEAN /\ idle \in BOOLEAN
    /\ op \in Ops \cup {"none"} /\ lba \in Nat /\ left \in 0 .. MaxWrite
    /\ answer \in {"none", "GOOD", "FAIL"} /\ result \in Values

\* While no flush has failed, the host was told the truth.
Kept == ~failed => visible = ideal

\* After a barrier nothing is left to write.
Settled == answer = "GOOD" /\ op # "write" => dev = ideal /\ cache = << >>

Inv == CacheType /\ SessionType /\ Kept /\ Settled /\ CacheHasBuffer

-----------------------------------------------------------------------------
(* A run of data over the contents of a device.                            *)

\* What is put over contents is again contents.
LEMMA OverType ==
    ASSUME NEW d \in Contents, NEW l \in Nat, NEW s \in Seq(Values)
    PROVE  over(d, l, s) \in Contents
<1>1. \A b \in span(l, Len(s)) : s[b - l + 1] \in Values
  BY SizesAssumption DEF span, Blocks
<1> QED
  BY <1>1 DEF over, Contents

\* An empty run changes nothing.
LEMMA OverEmpty ==
    ASSUME NEW d \in Contents, NEW l \in Nat
    PROVE  over(d, l, << >>) = d
<1>1. \A b \in Blocks : b \notin span(l, 0)
  BY SizesAssumption DEF span, Blocks
<1> QED
  BY <1>1 DEF over, Contents

\* Two adjacent runs are one: the cache may join what the host wrote apart.
LEMMA OverJoin ==
    ASSUME NEW d \in Contents, NEW l \in Nat, NEW s \in Seq(Values), NEW t \in Seq(Values)
    PROVE  over(d, l, s \o t) = over(over(d, l, s), l + Len(s), t)
<1> DEFINE first == over(d, l, s)
           both == over(d, l, s \o t)
           second == over(first, l + Len(s), t)
<1>1. Len(s \o t) = Len(s) + Len(t) /\ Len(s) \in Nat /\ Len(t) \in Nat
  OBVIOUS
<1>2. \A b \in Blocks : both[b] = second[b]
  <2> SUFFICES ASSUME NEW b \in Blocks PROVE both[b] = second[b]
    OBVIOUS
  <2>0. b \in Int
    BY SizesAssumption DEF Blocks
  <2>1. CASE b \in span(l, Len(s))
    <3>1. both[b] = (s \o t)[b - l + 1] /\ b - l + 1 \in 1 .. Len(s)
      BY <2>0, <2>1, <1>1 DEF span, over
    <3>2. second[b] = s[b - l + 1]
      BY <2>0, <2>1, <1>1 DEF span, over
    <3> QED
      BY <3>1, <3>2
  <2>2. CASE b \in span(l + Len(s), Len(t))
    <3>1. both[b] = (s \o t)[b - l + 1] /\ b - l + 1 \in Len(s) + 1 .. Len(s) + Len(t)
      BY <2>0, <2>2, <1>1 DEF span, over
    <3>2. second[b] = t[b - (l + Len(s)) + 1]
      BY <2>0, <2>2, <1>1 DEF span, over
    <3>3. (b - l + 1) - Len(s) = b - (l + Len(s)) + 1
      BY <2>0, <1>1
    <3>4. (s \o t)[b - l + 1] = t[(b - l + 1) - Len(s)]
      BY <3>1, <1>1, ConcatProperties
    <3> QED
      BY <3>1, <3>2, <3>3, <3>4
  <2>3. CASE b \notin span(l, Len(s)) /\ b \notin span(l + Len(s), Len(t))
    BY <2>0, <2>3, <1>1 DEF span, over
  <2> QED
    BY <2>1, <2>2, <2>3
<1> QED
  BY <1>2 DEF over

\* A failed write leaves contents, whatever they are.
LEMMA WriteType ==
    ASSUME dev \in Contents, NEW l \in Nat, NEW s \in Seq(Values), NEW ok \in BOOLEAN,
           blk_dwrite(l, s, ok)
    PROVE  dev' \in Contents
<1>1. CASE ok
  BY <1>1, OverType DEF blk_dwrite
<1>2. CASE ~ok
  <2>1. PICK S \in SUBSET span(l, Len(s)) :
           dev' = [b \in Blocks |-> IF b \in S THEN s[b - l + 1] ELSE dev[b]]
    BY <1>2 DEF blk_dwrite
  <2>2. \A b \in S : s[b - l + 1] \in Values
    BY SizesAssumption DEF span, Blocks
  <2> QED
    BY <2>1, <2>2 DEF Contents
<1> QED
  BY <1>1, <1>2

-----------------------------------------------------------------------------
(* The cache.                                                              *)

\* Writing out a run that makes the device what the host was told keeps the promise, and so
\* does failing to.
LEMMA FlushedKeeps ==
    ASSUME CacheType, NEW l \in Nat, NEW s \in Seq(Values), Len(s) <= CacheBlocks,
           NEW ok \in BOOLEAN, flushed(l, s, ok), ~failed, start' \in Nat
    PROVE  /\ CacheType'
           /\ ok => ~failed' /\ cache' = << >> /\ dev' = over(dev, l, s) /\ visible' = dev'
           /\ ~ok => failed'
<1>1. dev' \in Contents
  BY WriteType DEF flushed, CacheType
<1>2. CASE ok
  <2>1. cache' = << >> /\ failed' = failed /\ dev' = over(dev, l, s)
    BY <1>2 DEF flushed, blk_dwrite
  <2>2. visible' = dev'
    BY <1>1, <2>1, OverEmpty DEF visible
  <2> QED
    BY <1>1, <1>2, <2>1, <2>2, SizesAssumption DEF CacheType
<1>3. CASE ~ok
  BY <1>1, <1>3 DEF flushed, CacheType
<1> QED
  BY <1>2, <1>3

\* An empty cache is well formed.
LEMMA EmptyCache == << >> \in Seq(Values) /\ Len(<< >>) <= CacheBlocks /\ 0 \in 0 .. MaxWrite
<1>1. Len(<< >>) = 0 /\ << >> \in Seq(Values)
  OBVIOUS
<1>2. 0 <= CacheBlocks /\ 0 \in 0 .. MaxWrite
  BY SizesAssumption
<1> QED
  BY <1>1, <1>2

\* rockusb_flush_write_cache: success means that nothing is left to write.
LEMMA FlushKeeps ==
    ASSUME CacheType, Kept, NEW allocated \in BOOLEAN, NEW ok \in BOOLEAN,
           rockusb_flush_write_cache(allocated, ok), ideal' = ideal
    PROVE  /\ CacheType' /\ Kept'
           /\ ok => ~failed' /\ cache' = << >> /\ dev' = ideal
           /\ cache = << >> => dev' = dev /\ cache' = << >>
           /\ cache' # << >> /\ ~failed' => ~allocated /\ cache # << >> /\ ~failed
<1>1. start' = start /\ start' \in Nat
  BY DEF rockusb_flush_write_cache, CacheType
<1>2. CASE UNCHANGED <<dev, cache, failed>> /\ (failed \/ (cache # << >> /\ ~allocated)) /\ ~ok
  BY <1>1, <1>2 DEF CacheType, Kept, visible
<1>3. CASE UNCHANGED <<dev, cache, failed>> /\ ~failed /\ cache = << >>
  <2>1. visible = dev
    BY <1>3, OverEmpty DEF visible, CacheType
  <2> QED
    BY <1>1, <1>3, <2>1 DEF CacheType, Kept, visible
<1>4. CASE ~failed /\ cache # << >> /\ flushed(start, cache, ok)
  <2>1. /\ CacheType'
        /\ ok => ~failed' /\ cache' = << >> /\ dev' = visible /\ visible' = dev'
        /\ ~ok => failed'
    BY <1>1, <1>4, FlushedKeeps DEF CacheType, visible
  <2> QED
    BY <1>4, <2>1 DEF Kept
<1> QED
  BY <1>2, <1>3, <1>4 DEF rockusb_flush_write_cache

\* rockusb_cache_write: an accepted chunk counts as written.
LEMMA CacheWriteKeeps ==
    ASSUME CacheType, Kept, ideal \in Contents, NEW l \in Nat, NEW s \in Seq(Values),
           Len(s) <= ChunkBlocks, NEW ok \in BOOLEAN, rockusb_cache_write(l, s, ok),
           ok => ideal' = over(ideal, l, s), ~ok => ideal' = ideal
    PROVE  CacheType' /\ Kept' /\ (ok => ~failed')
<1>1. CASE (failed \/ s = << >>) /\ ~ok /\ UNCHANGED <<dev, start, cache, failed>>
  BY <1>1 DEF CacheType, Kept, visible
<1>2. CASE ~failed /\ flushed(start, cache, FALSE) /\ ~ok /\ UNCHANGED start
  <2>1. CacheType' /\ failed'
    BY <1>2, FlushedKeeps DEF CacheType
  <2> QED
    BY <1>2, <2>1 DEF Kept
<1>3. CASE /\ ~failed /\ ok /\ blk_dwrite(start, cache, TRUE)
           /\ start' = l /\ cache' = s /\ UNCHANGED failed
  <2>1. dev' = ideal
    BY <1>3 DEF blk_dwrite, Kept, visible
  <2>2. visible' = ideal'
    BY <1>3, <2>1 DEF visible
  <2> QED
    BY <1>3, <2>1, <2>2, SizesAssumption DEF CacheType, Kept
<1>4. CASE /\ ~failed /\ s # << >> /\ ~mustFlush(l, s)
           /\ start' = (IF cache = << >> THEN l ELSE start)
           /\ IF Len(cache) + Len(s) = CacheBlocks
              THEN flushed(start', cache \o s, ok)
              ELSE ok /\ cache' = cache \o s /\ UNCHANGED <<dev, failed>>
  <2>1. start' \in Nat
    BY <1>4 DEF CacheType
  <2>2. cache \o s \in Seq(Values) /\ Len(cache \o s) = Len(cache) + Len(s)
    BY DEF CacheType
  <2>3. Len(cache) + Len(s) <= CacheBlocks
    <3>1. CASE cache = << >>
      BY <3>1, SizesAssumption
    <3>2. CASE cache # << >>
      BY <1>4, <3>2, SizesAssumption DEF mustFlush, CacheType
    <3> QED
      BY <3>1, <3>2
  <2>4. over(dev, start', cache \o s) = over(ideal, l, s)
    <3>1. CASE cache = << >>
      <4>1. visible = dev /\ visible = ideal
        BY <1>4, <3>1, OverEmpty DEF visible, CacheType, Kept
      <4> QED
        BY <1>4, <3>1, <4>1, ConcatEmptySeq
    <3>2. CASE cache # << >>
      <4>1. l = start + Len(cache) /\ start' = start
        BY <1>4, <3>2 DEF mustFlush
      <4>2. over(dev, start, cache \o s) = over(visible, l, s)
        BY <4>1, OverJoin DEF CacheType, visible
      <4> QED
        BY <1>4, <4>1, <4>2 DEF Kept
    <3> QED
      BY <3>1, <3>2
  <2>5. CASE Len(cache) + Len(s) = CacheBlocks
    <3>1. /\ CacheType'
          /\ ok => ~failed' /\ dev' = over(dev, start', cache \o s) /\ visible' = dev'
          /\ ~ok => failed'
      BY <1>4, <2>1, <2>2, <2>3, <2>5, FlushedKeeps
    <3> QED
      BY <2>4, <3>1 DEF Kept
  <2>6. CASE Len(cache) + Len(s) # CacheBlocks
    <3>1. ok /\ cache' = cache \o s /\ UNCHANGED <<dev, failed>>
      BY <1>4, <2>6
    <3>2. visible' = ideal'
      BY <3>1, <2>4 DEF visible
    <3> QED
      BY <1>4, <2>1, <2>2, <2>3, <3>1, <3>2 DEF CacheType, Kept
  <2> QED
    BY <2>5, <2>6
<1> QED
  BY <1>1, <1>2, <1>3, <1>4 DEF rockusb_cache_write

-----------------------------------------------------------------------------
(* The steps.                                                              *)

\* A chunk answers GOOD only over a cache that has not failed.
LEMMA ChunkKeeps ==
    ASSUME Inv, WriteChunk
    PROVE  Inv' /\ (answer' = "GOOD" => ~failed') /\ op' = "write"
<1>1. PICK n \in 0 .. ChunkBlocks, v \in Values, ok \in BOOLEAN :
         /\ n <= left
         /\ rockusb_cache_write(lba, [i \in 1 .. n |-> v], ok)
         /\ idle' = (idle /\ ([i \in 1 .. n |-> v] = << >> \/ failed'))
         /\ IF ok THEN /\ lba' = lba + n /\ left' = left - n
                       /\ ideal' = over(ideal, lba, [i \in 1 .. n |-> v])
                       /\ answer' = (IF left' = 0 THEN "GOOD" ELSE "none")
                  ELSE answer' = "FAIL" /\ UNCHANGED <<lba, left, ideal>>
  BY DEF WriteChunk
<1> DEFINE data == [i \in 1 .. n |-> v]
<1>2. data \in Seq(Values) /\ Len(data) = n /\ n \in Nat
  BY SizesAssumption
<1>3. op' = "write" /\ mem' = TRUE /\ UNCHANGED result
  BY DEF WriteChunk, get_rkusb
<1>4. CacheType /\ SessionType /\ Kept
  BY DEF Inv
<1>5. lba \in Nat /\ ideal \in Contents
  BY <1>4 DEF SessionType
<1> HIDE DEF data
<1>6. /\ n <= left
      /\ rockusb_cache_write(lba, data, ok)
      /\ idle' = (idle /\ (data = << >> \/ failed'))
      /\ IF ok THEN /\ lba' = lba + n /\ left' = left - n
                    /\ ideal' = over(ideal, lba, data)
                    /\ answer' = (IF left' = 0 THEN "GOOD" ELSE "none")
               ELSE answer' = "FAIL" /\ UNCHANGED <<lba, left, ideal>>
  BY <1>1 DEF data
<1>7. CacheType' /\ Kept' /\ (ok => ~failed')
  <2>1. Len(data) <= ChunkBlocks
    BY <1>2, SizesAssumption
  <2>2. (ok => ideal' = over(ideal, lba, data)) /\ (~ok => ideal' = ideal)
    BY <1>6
  <2> QED
    BY <1>2, <1>4, <1>5, <1>6, <2>1, <2>2, CacheWriteKeeps
<1>8. SessionType'
  <2>1. ideal' \in Contents
    BY <1>2, <1>5, <1>6, OverType
  <2>2. lba' \in Nat /\ left' \in 0 .. MaxWrite /\ answer' \in {"none", "GOOD", "FAIL"}
    BY <1>2, <1>4, <1>6, SizesAssumption DEF SessionType
  <2>3. idle' \in BOOLEAN
    BY <1>6
  <2> QED
    BY <1>3, <1>4, <2>1, <2>2, <2>3 DEF SessionType, Ops
<1>9. Settled' /\ CacheHasBuffer'
  BY <1>3 DEF Settled, CacheHasBuffer
<1>10. answer' = "GOOD" => ~failed'
  BY <1>6, <1>7
<1> QED
  BY <1>3, <1>7, <1>8, <1>9, <1>10 DEF Inv

\* Any other command answers GOOD only when everything is stored.
LEMMA CommandKeeps ==
    ASSUME Inv, Command
    PROVE  /\ Inv' /\ (answer' = "GOOD" => ~failed')
           /\ answer' = "GOOD" /\ op' = "read" /\ lba' \in Blocks => result' = ideal'[lba']
<1>1. PICK ok \in BOOLEAN : FlushFirst(ok) /\ answer' = (IF ok THEN "GOOD" ELSE "FAIL")
  BY DEF Command
<1>2. mem' = TRUE /\ op # "write" /\ UNCHANGED <<idle, op, lba, left, ideal>>
  BY DEF Command, get_rkusb
<1>3. CacheType /\ SessionType /\ Kept
  BY DEF Inv
<1>4. /\ CacheType' /\ Kept'
      /\ ok => ~failed' /\ cache' = << >> /\ dev' = ideal
  BY <1>1, <1>2, <1>3, FlushKeeps DEF FlushFirst
<1>5. result' = IF op = "read" /\ lba \in Blocks /\ answer' = "GOOD" THEN dev'[lba] ELSE result
  BY DEF Command
<1>6. dev' \in Contents
  BY <1>4 DEF CacheType
<1>7. result' \in Values
  BY <1>3, <1>5, <1>6 DEF Contents, SessionType
<1>8. answer' \in {"GOOD", "FAIL"} /\ (answer' = "GOOD" => ok)
  BY <1>1
<1>9. SessionType'
  BY <1>2, <1>3, <1>7, <1>8 DEF SessionType
<1>10. Settled' /\ CacheHasBuffer'
  BY <1>2, <1>4, <1>8 DEF Settled, CacheHasBuffer
<1>11. answer' = "GOOD" /\ op' = "read" /\ lba' \in Blocks => result' = ideal'[lba']
  BY <1>2, <1>4, <1>5, <1>8
<1> QED
  BY <1>4, <1>8, <1>9, <1>10, <1>11 DEF Inv

\* The flush of the loop and the one of rockusb_disable answer nobody.
LEMMA LoopKeeps ==
    ASSUME Inv, rockusb_flush_write_cache_if_idle \/ rockusb_disable
    PROVE  Inv' /\ (answer' = "GOOD" => answer = "GOOD")
<1>1. CacheType /\ SessionType /\ Kept
  BY DEF Inv
<1>2. CASE rockusb_flush_write_cache_if_idle
  <2>1. PICK ok \in BOOLEAN : rockusb_flush_write_cache(TRUE, ok)
    BY <1>2 DEF rockusb_flush_write_cache_if_idle
  <2>2. /\ UNCHANGED <<idle, op, lba, left, answer, result, ideal>> /\ mem' = TRUE
        /\ cache # << >>
    BY <1>2 DEF rockusb_flush_write_cache_if_idle, session, get_rkusb
  <2>3. CacheType' /\ Kept'
    BY <1>1, <2>1, <2>2, FlushKeeps
  <2>4. SessionType'
    BY <1>1, <2>2 DEF SessionType
  <2>5. Settled' /\ CacheHasBuffer'
    BY <2>2 DEF Inv, Settled, CacheHasBuffer
  <2> QED
    BY <2>2, <2>3, <2>4, <2>5 DEF Inv
<1>3. CASE rockusb_disable
  <2>1. PICK ok \in BOOLEAN : rockusb_flush_write_cache(mem, ok)
    BY <1>3 DEF rockusb_disable
  <2>2. /\ op' = "none" /\ answer' = "none" /\ mem' = FALSE
        /\ UNCHANGED <<lba, left, result, idle, ideal>>
    BY <1>3 DEF rockusb_disable, noSession
  <2>3. mem \in BOOLEAN
    BY <1>1 DEF SessionType
  <2>4. /\ CacheType' /\ Kept'
        /\ cache' # << >> /\ ~failed' => ~mem /\ cache # << >> /\ ~failed
    BY <1>1, <2>1, <2>2, <2>3, FlushKeeps
  <2>5. SessionType'
    BY <1>1, <2>2 DEF SessionType
  <2>6. Settled' /\ CacheHasBuffer'
    BY <2>2, <2>4 DEF Inv, Settled, CacheHasBuffer
  <2> QED
    BY <2>2, <2>4, <2>5, <2>6 DEF Inv
<1> QED
  BY <1>2, <1>3

\* The host, the clock, the reset and the abort.
LEMMA ExternalKeeps ==
    ASSUME Inv, HostCommand \/ Tick \/ Restart \/ OutOfMemory
    PROVE  Inv' /\ (answer' = "GOOD" => answer = "GOOD")
<1>1. CacheType /\ SessionType /\ Kept
  BY DEF Inv
<1>2. CASE HostCommand
  <2>1. UNCHANGED <<dev, start, cache, failed, mem, idle, result, ideal>> /\ answer' = "none"
    BY <1>2 DEF HostCommand
  <2>2. op' \in Ops /\ lba' \in Nat /\ left' \in 0 .. MaxWrite
    BY <1>2, SizesAssumption DEF HostCommand
  <2>3. CacheType' /\ SessionType'
    BY <1>1, <2>1, <2>2 DEF CacheType, SessionType
  <2>4. Kept' /\ Settled' /\ CacheHasBuffer'
    BY <2>1 DEF Inv, Kept, visible, Settled, CacheHasBuffer
  <2> QED
    BY <2>1, <2>3, <2>4 DEF Inv
<1>3. CASE Tick
  <2>1. UNCHANGED <<dev, start, cache, failed, mem, op, lba, left, answer, result, ideal>>
        /\ idle' = TRUE
    BY <1>3 DEF Tick, session
  <2>2. CacheType' /\ SessionType'
    BY <1>1, <2>1 DEF CacheType, SessionType
  <2>3. Kept' /\ Settled' /\ CacheHasBuffer'
    BY <2>1 DEF Inv, Kept, visible, Settled, CacheHasBuffer
  <2> QED
    BY <2>1, <2>2, <2>3 DEF Inv
<1>4. CASE Restart
  <2>1. /\ op = "reset" /\ answer = "GOOD" /\ cache' = << >> /\ failed' = FALSE /\ mem' = TRUE
        /\ start' = 0 /\ idle' = FALSE /\ op' = "none" /\ answer' = "none"
        /\ UNCHANGED <<lba, left, result, dev, ideal>>
    BY <1>4 DEF Restart, noSession
  <2>2. dev = ideal
    BY <2>1 DEF Inv, Settled
  <2>3. CacheType' /\ SessionType'
    <3>1. CacheType'
      <4>1. dev' \in Contents
        BY <1>1, <2>1 DEF CacheType
      <4>2. start' \in Nat /\ failed' \in BOOLEAN
        BY <2>1
      <4>3. cache' \in Seq(Values) /\ Len(cache') <= CacheBlocks
        BY <2>1, EmptyCache
      <4> QED
        BY <4>1, <4>2, <4>3 DEF CacheType
    <3>2. SessionType'
      BY <1>1, <2>1 DEF SessionType
    <3> QED
      BY <3>1, <3>2
  <2>4. visible' = ideal'
    BY <1>1, <2>1, <2>2, OverEmpty DEF visible, SessionType
  <2>5. Kept' /\ Settled' /\ CacheHasBuffer'
    BY <2>1, <2>4 DEF Kept, Settled, CacheHasBuffer
  <2> QED
    BY <2>1, <2>3, <2>5 DEF Inv
<1>5. CASE OutOfMemory
  <2>1. /\ cache' = << >> /\ failed' = FALSE /\ mem' = TRUE
        /\ start' = 0 /\ idle' = FALSE /\ op' = "none" /\ answer' = "none"
        /\ ideal' = dev /\ UNCHANGED <<lba, left, result, dev>>
    BY <1>5 DEF OutOfMemory, noSession
  <2>2. dev' \in Contents /\ ideal' \in Contents
    BY <1>1, <2>1 DEF CacheType
  <2>3. cache' \in Seq(Values) /\ Len(cache') <= CacheBlocks
    BY <2>1, EmptyCache
  <2>4. CacheType'
    <3>1. start' \in Nat /\ failed' \in BOOLEAN
      BY <2>1
    <3> QED
      BY <2>2, <2>3, <3>1 DEF CacheType
  <2>5. SessionType'
    BY <1>1, <2>1, <2>2 DEF SessionType
  <2>6. visible' = ideal'
    BY <2>1, <2>2, OverEmpty DEF visible
  <2>7. Kept' /\ Settled' /\ CacheHasBuffer'
    BY <2>1, <2>6 DEF Kept, Settled, CacheHasBuffer
  <2> QED
    BY <2>1, <2>4, <2>5, <2>7 DEF Inv
<1> QED
  BY <1>2, <1>3, <1>4, <1>5

\* No step breaks the invariant, and a fresh GOOD is deserved.
LEMMA NextKeeps ==
    ASSUME Inv, [Next]_vars
    PROVE  /\ Inv'
           /\ answer' = "GOOD" /\ answer # "GOOD" =>
                /\ ~failed'
                /\ op' = "read" /\ lba' \in Blocks => result' = ideal'[lba']
<1>1. CASE WriteChunk
  BY <1>1, ChunkKeeps
<1>2. CASE Command
  BY <1>2, CommandKeeps
<1>3. CASE rockusb_flush_write_cache_if_idle \/ rockusb_disable
  BY <1>3, LoopKeeps
<1>4. CASE HostCommand \/ Tick \/ Restart \/ OutOfMemory
  BY <1>4, ExternalKeeps
<1>5. CASE UNCHANGED vars
  <2>1. UNCHANGED <<dev, start, cache, failed, mem, idle, op, lba, left, answer, result, ideal>>
    BY <1>5 DEF vars, session
  <2>2. CacheType' /\ SessionType'
    BY <2>1 DEF Inv, CacheType, SessionType
  <2>3. Kept' /\ Settled' /\ CacheHasBuffer'
    BY <2>1 DEF Inv, Kept, visible, Settled, CacheHasBuffer
  <2> QED
    BY <2>1, <2>2, <2>3 DEF Inv
<1> QED
  BY <1>1, <1>2, <1>3, <1>4, <1>5 DEF Next

-----------------------------------------------------------------------------
(* The theorems.                                                           *)

\* The service starts with an empty cache.
LEMMA InitInv == Init => Inv
<1> SUFFICES ASSUME Init PROVE Inv
  OBVIOUS
<1>1. dev \in Contents /\ result \in Values
  BY DEF Init, Contents
<1>2. CacheType
  <2>1. cache \in Seq(Values) /\ Len(cache) <= CacheBlocks
    BY EmptyCache DEF Init
  <2>2. start \in Nat /\ failed \in BOOLEAN
    BY DEF Init
  <2> QED
    BY <1>1, <2>1, <2>2 DEF CacheType
<1>3. SessionType
  <2>1. ideal \in Contents /\ mem \in BOOLEAN /\ idle \in BOOLEAN /\ lba \in Nat
    BY <1>1 DEF Init
  <2>2. left \in 0 .. MaxWrite
    BY EmptyCache DEF Init
  <2>3. op \in Ops \cup {"none"} /\ answer \in {"none", "GOOD", "FAIL"}
    BY DEF Init
  <2> QED
    BY <1>1, <2>1, <2>2, <2>3 DEF SessionType
<1>4. visible = ideal
  BY <1>1, OverEmpty DEF Init, visible
<1> QED
  BY <1>2, <1>3, <1>4 DEF Init, Inv, Kept, Settled, CacheHasBuffer

\* While no flush has failed, device and cache together are what the host was told.
THEOREM CacheInvariance == Spec => []Inv
<1>1. Inv /\ [Next]_vars => Inv'
  BY NextKeeps
<1> QED
  BY InitInv, <1>1, PTL DEF Spec

\* The cache never holds more than its buffer and every field keeps its type.
THEOREM TypeCorrect == Spec => []TypeOK
<1>1. Inv => TypeOK
  BY DEF Inv, TypeOK, CacheType, SessionType, Contents
<1> QED
  BY <1>1, CacheInvariance, PTL

\* A GOOD status is never sent once acknowledged data is lost, and a read returns what was
\* written last.
THEOREM AnswersTruthful == Spec => Truthful
<1> DEFINE A == /\ ~failed' /\ visible' = ideal'
                /\ op' = "read" /\ lba' \in Blocks => result' = ideal'[lba']
<1>1. Inv /\ [Next]_vars => [answer' = "GOOD" /\ answer # "GOOD" => A]_vars
  <2> SUFFICES ASSUME Inv, [Next]_vars, answer' = "GOOD", answer # "GOOD" PROVE A
    OBVIOUS
  <2>1. /\ Inv' /\ ~failed'
        /\ op' = "read" /\ lba' \in Blocks => result' = ideal'[lba']
    BY NextKeeps
  <2> QED
    BY <2>1 DEF Inv, Kept
<1> QED
  BY <1>1, CacheInvariance, PTL DEF Spec, Truthful

\* Once a command other than a write is answered, everything is on the device.
THEOREM CommandsAreBarriers == Spec => []Barrier
<1>1. Inv => Barrier
  BY DEF Inv, Settled, Barrier
<1> QED
  BY <1>1, CacheInvariance, PTL

\* rockusb_disable never frees a buffer that a later flush would still write.
THEOREM BufferOutlivesData == Spec => []CacheHasBuffer
<1>1. Inv => CacheHasBuffer
  BY DEF Inv
<1> QED
  BY <1>1, CacheInvariance, PTL

\* Power loss takes at most one cache of acknowledged blocks: those that differ lie in the
\* run the cache covers.
THEOREM LossBounded == Spec => []LossWindow
<1>1. Inv => LossWindow
  <2> SUFFICES ASSUME Inv, ~failed
               PROVE  Cardinality({b \in Blocks : dev[b] # ideal[b]}) <= CacheBlocks
    BY DEF LossWindow
  <2> DEFINE lost == {b \in Blocks : dev[b] # ideal[b]}
             run == start .. start + Len(cache) - 1
  <2>1. start \in Nat /\ cache \in Seq(Values) /\ Len(cache) <= CacheBlocks
    BY DEF Inv, CacheType
  <2>2. Len(cache) \in Nat /\ start + Len(cache) - 1 \in Int /\ start \in Int
    BY <2>1
  <2>3. over(dev, start, cache) = ideal
    BY DEF Inv, Kept, visible
  <2>4. ASSUME NEW b \in lost PROVE b \in run
    <3>1. b \in Blocks /\ over(dev, start, cache)[b] # dev[b]
      BY <2>3
    <3>2. b \in span(start, Len(cache))
      BY <3>1 DEF over
    <3> QED
      BY <2>2, <3>2, SizesAssumption DEF span, Blocks
  <2>5. IsFiniteSet(run)
    BY <2>2, FS_Interval
  <2>6. Cardinality(run) = IF start > start + Len(cache) - 1 THEN 0 ELSE start + Len(cache) - 1 - start + 1
    BY <2>2, FS_Interval, SMTT(30)
  <2>7. Cardinality(run) = Len(cache)
    BY <2>2, <2>6
  <2>8. lost \in SUBSET run
    BY <2>4
  <2>9. IsFiniteSet(lost) /\ Cardinality(lost) <= Cardinality(run)
    BY <2>5, <2>8, FS_Subset
  <2>10. Cardinality(lost) \in Nat
    BY <2>9, FS_CardinalityType
  <2> QED
    BY <2>1, <2>2, <2>7, <2>9, <2>10, SizesAssumption
<1> QED
  BY <1>1, CacheInvariance, PTL

\* The cache as a whole: the four facts above are what CacheSafe says.
THEOREM CacheSafety == Spec => []CacheSafe
<1>1. TypeOK /\ Barrier /\ LossWindow /\ CacheHasBuffer => CacheSafe
  BY DEF CacheSafe
<1> QED
  BY <1>1, TypeCorrect, CommandsAreBarriers, LossBounded, BufferOutlivesData, PTL
=============================================================================
