---------------------------- MODULE MCVhciBridge ----------------------------
(***************************************************************************)
(* Small instances of VhciBridge.  The limits are scaled down and keep     *)
(* their order: no per-type limit is above the kernel's, and that is below *)
(* the stream's capacity.                                                  *)
(***************************************************************************)
EXTENDS VhciBridge

chip(type, size, bits) == [type |-> type, size |-> size, bits |-> bits]
kernel(type, size, bits, length) ==
    [type |-> type, size |-> size, bits |-> bits, length |-> length]

\* Legal, dropped, too long for its type, legal, too long for the buffer.
MCChipFrames ==
    {chip("event", 3, 0), chip("acl", 6, 0), chip("log", 7, 0),
     chip("sco", 6, 0), chip("iso", 6, 1), chip("log", 8, 0)}
OneChipFrame == {chip("event", 3, 0)}

\* Legal, control, cut, longer than it says, legal, a fragment.
MCKernelFrames ==
    {kernel("command", 4, 0, 4), kernel("vendor", 4, 0, 4),
     kernel("acl", 7, 0, 7), kernel("command", 4, 0, 5),
     kernel("sco", 5, 0, 5), kernel("iso", 6, 1, 6)}
OneKernelFrame == {kernel("command", 4, 0, 4)}

\* Supported, without ACL, too large.
MCBufferSizes == {[acl |-> 1, sco |-> 1], [acl |-> 0, sco |-> 1], [acl |-> 2, sco |-> 0]}
OneBufferSize == {[acl |-> 1, sco |-> 0]}
MCChannels == 0 .. 1
=============================================================================
