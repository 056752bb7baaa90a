----------------------------- MODULE BootRecords -----------------------------
(***************************************************************************)
(* The deployment records both FIT loaders keep (common/uboot/             *)
(* mica-records.h): at most two records, newest first, each an id, the     *)
(* kernel it boots, a generation and the trials it has left.  Trials are   *)
(* -1 for a confirmed deployment (written '-') and 0..3 for a candidate.   *)
(*                                                                         *)
(* A records value is a function from 1..count.  A text is what the        *)
(* environment entry holds: the same fields, with the trials as the        *)
(* character on disk; a text may have any number of items and any          *)
(* generation.  NoRecords and NoText are the refusals (a return of -1).    *)
(* How the bytes are scanned is module RecordParser.                       *)
(***************************************************************************)
EXTENDS Integers

CONSTANTS
    Id,                 \* deployment ids (64 hexadecimal digits in the code)
    Kernel,             \* kernel ids, the directory under /kernels
    GenerationLimit     \* 2^53 - 1 in the code

ASSUME GenerationLimitAssumption == GenerationLimit \in Nat \ {0}

RecordLimit == 2
TrialLimit == 3
Confirmed == -1

Tries == Confirmed .. TrialLimit

Record == [id : Id, kernel : Kernel, generation : 1 .. GenerationLimit, tries : Tries]

\* The characters that may stand in the last field; "?" is any other one.
Mark == {"-", "0", "1", "2", "3", "?"}
Item == [id : Id, kernel : Kernel, generation : 1 .. GenerationLimit, mark : Mark \ {"?"}]

Counts == 1 .. RecordLimit
NoRecords == [i \in 1 .. 0 |-> 0]
NoText == [i \in 1 .. 0 |-> 0]

\* What the loader may keep: one or two records, distinct ids, generations
\* strictly falling from the newest to the oldest.
WellFormed(r) ==
    \A i, j \in DOMAIN r : i < j => /\ r[i].id # r[j].id
                                    /\ r[i].generation > r[j].generation

Records == {r \in UNION {[1 .. n -> Record] : n \in Counts} : WellFormed(r)}

\* The texts of such records.
Text == {t \in UNION {[1 .. n -> Item] : n \in Counts} : WellFormed(t)}

-----------------------------------------------------------------------------
(* The last field, in both directions.                                     *)

markOf(tries) ==
    CASE tries < 0 -> "-" [] tries = 0 -> "0" [] tries = 1 -> "1"
      [] tries = 2 -> "2" [] tries = 3 -> "3" [] OTHER -> "?"

triesOf(mark) ==
    CASE mark = "-" -> Confirmed [] mark = "0" -> 0 [] mark = "1" -> 1
      [] mark = "2" -> 2 [] OTHER -> 3

parsedRecord(item) ==
    [id |-> item.id, kernel |-> item.kernel, generation |-> item.generation,
     tries |-> triesOf(item.mark)]

acceptable(text) ==
    /\ DOMAIN text \in {1 .. n : n \in Counts}
    /\ \A i \in DOMAIN text : /\ text[i].generation \in 1 .. GenerationLimit
                              /\ text[i].mark # "?"
    /\ WellFormed(text)

mica_boot_parse(text) ==
    IF acceptable(text) THEN [i \in DOMAIN text |-> parsedRecord(text[i])] ELSE NoRecords

renderedItem(r) ==
    [id |-> r.id, kernel |-> r.kernel, generation |-> r.generation, mark |-> markOf(r.tries)]

renderedText(records) == [i \in DOMAIN records |-> renderedItem(records[i])]

\* The renderer parses its own output and gives nothing the parser would refuse.
mica_boot_render(records) ==
    IF /\ DOMAIN records \in {1 .. n : n \in Counts}
       /\ \A i \in DOMAIN records : records[i].tries \in Tries
       /\ mica_boot_parse(renderedText(records)) # NoRecords
    THEN renderedText(records)
    ELSE NoText

-----------------------------------------------------------------------------
\* The first record with trials left, or 0 when every deployment is exhausted.
mica_boot_next(records) ==
    IF \A i \in DOMAIN records : records[i].tries = 0
    THEN 0
    ELSE CHOOSE i \in DOMAIN records :
            records[i].tries # 0 /\ \A j \in DOMAIN records : j < i => records[j].tries = 0

\* An assignment to the trials of one entry.
setTries(records, n, tries) == [records EXCEPT ![n].tries = tries]

\* Which of the two redundant copies holds: the only valid one, or the one whose
\* flag byte is ahead of the other's, counting 0 as the successor of 255.
mica_boot_slot(validA, a, validB, b) ==
    CASE ~validA -> IF validB THEN 1 ELSE -1
      [] validA /\ ~validB -> 0
      [] OTHER -> IF (a = 255 /\ b = 0) \/ (b > a /\ ~(b = 255 /\ a = 0)) THEN 1 ELSE 0
=============================================================================
