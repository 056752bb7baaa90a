------------------------------ MODULE H4Frames ------------------------------
(***************************************************************************)
(* H4 framing as the Bluetooth bridge and libskwbt share it                *)
(* (boards/s905x5m/userland/skwbt/include/skw_h4.h).                       *)
(*                                                                         *)
(* A frame is a type, its whole size in bytes and, for ISO, the two bits   *)
(* above its length.  A byte is a pair: the number of the frame it belongs *)
(* to and its place in it.  What the decoder reads from a header is then   *)
(* what the frame says, provided the first byte of the data is the first   *)
(* of a frame; anywhere else it would read a type out of a payload.        *)
(***************************************************************************)
EXTENDS Integers, Sequences

CONSTANTS
    Capacity,       \* SKW_H4_STREAM_CAPACITY
    KernelMax,      \* SKW_H4_KERNEL_MAX_FRAME
    EventMax,       \* SKW_H4_EVENT_MAX_FRAME
    CommandMax,     \* SKW_H4_COMMAND_MAX_FRAME
    ScoMax,         \* SKW_H4_SCO_MAX_FRAME
    IsoMax          \* SKW_H4_ISO_MAX_FRAME

ASSUME LimitsAssumption ==
    /\ {Capacity, KernelMax, EventMax, CommandMax, ScoMax, IsoMax} \subseteq Nat
    /\ {5, KernelMax, EventMax, CommandMax, ScoMax, IsoMax} \subseteq 5 .. Capacity

header == [command |-> 4, acl |-> 5, sco |-> 4, event |-> 3, iso |-> 5, log |-> 4]
Known == DOMAIN header

\* Frame number n as it goes over a descriptor.
bytesOf(n, frame) == [place \in 1 .. frame.size |-> <<n, place>>]

decoded(status, type, size) == [status |-> status, type |-> type, size |-> size]

\* The size stays 0 until the header is there.
skw_h4_decode(frames, data) ==
    IF data = << >> THEN decoded("incomplete", "none", 0)
    ELSE LET first == data[1]
             frame == frames[first[1]]
         IN  IF first[2] # 1 \/ frame.type \notin Known
             THEN decoded("invalid", frame.type, 0)
             ELSE IF Len(data) < header[frame.type]
             THEN decoded("incomplete", frame.type, 0)
             ELSE IF frame.type = "iso" /\ frame.bits = 3
             THEN decoded("invalid", frame.type, 0)
             ELSE IF frame.size > Capacity
             THEN decoded("invalid", frame.type, frame.size)
             ELSE decoded(IF Len(data) < frame.size THEN "incomplete" ELSE "complete",
                          frame.type, frame.size)

\* Fault: the length shrinks, the bytes stay where they are.
skw_h4_stream_consumeInPlace(data, length) == SubSeq(data, 1, Len(data) - length)

skw_h4_stream_consume(data, length) == SubSeq(data, length + 1, Len(data))
=============================================================================
