----------------------------- MODULE MCFileBoot -----------------------------
(* FileBoot on small instances.                                            *)
EXTENDS FileBoot

part(name, start, size) == [name |-> name, start |-> start, size |-> size]

\* The partition table the board accepts, with a last partition of the given size.
table(size) ==
    [blksz |-> 512,
     parts |-> [i \in 1 .. 3 |-> part(names[i], layout.starts[i],
                                      IF i = 3 THEN size ELSE layout.sizes[i])]]

MCDisks ==
    LET exact == table(layout.sizes[3])
    IN  {table(layout.sizes[3] + 1),
         table(layout.sizes[3] - 1),
         [exact EXCEPT !.blksz = 4096],
         [exact EXCEPT !.parts = [i \in 1 .. 4 |-> IF i = 4 THEN part("extra", 0, 1) ELSE @[i]]],
         [exact EXCEPT !.parts[2].start = @ + 1]}

OneDisk == {table(layout.sizes[3])}

\* One candidate, one confirmed deployment, a candidate in front of a confirmed one.
record(id, generation, tries) ==
    [id |-> id, kernel |-> CHOOSE k \in Kernel : TRUE, generation |-> generation, tries |-> tries]
MCRecords ==
    LET x == CHOOSE i \in Id : TRUE
        y == CHOOSE i \in Id : i # x
    IN  {[i \in 1 .. 1 |-> record(x, 1, TrialLimit)],
         [i \in 1 .. 1 |-> record(x, 1, Confirmed)],
         [i \in 1 .. 2 |-> IF i = 1 THEN record(y, 2, TrialLimit) ELSE record(x, 1, Confirmed)]}

\* 254 lets the flag byte pass 255 and start again.
MCFlags == {0, 254}
=============================================================================
