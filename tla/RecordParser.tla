---------------------------- MODULE RecordParser ----------------------------
(***************************************************************************)
(* decode_environment of the FIT loaders, one step per scanned piece: the  *)
(* entry of an environment copy is found (mica_env_value), then its value  *)
(* is scanned (mica_boot_parse, mica_boot_id of common/uboot/              *)
(* mica-records.h).  Refusing is always safe; what matters is that the     *)
(* scanner accepts exactly what mica_boot_render writes, keeps the         *)
(* generation inside its limit at every digit and always ends.             *)
(*                                                                         *)
(* A value is a sequence of tokens after "v1|".  An id token is the 65     *)
(* bytes of 64 hexadecimal digits and a comma; every other token is one    *)
(* byte.                                                                   *)
(***************************************************************************)
EXTENDS BootRecords, Sequences

CONSTANT
    Copies      \* the environment copies to decode

ASSUME DigitLimitAssumption == GenerationLimit >= 9

\* The ten digit characters and their values.
char == [n \in 0 .. 9 |-> <<"0", "1", "2", "3", "4", "5", "6", "7", "8", "9">>[n + 1]]
Digit == {char[n] : n \in 0 .. 9}
value(c) == CHOOSE n \in 0 .. 9 : char[n] = c
IdWidth == 65
ValueLimit == 512

VARIABLES
    copy,       \* the environment copy: its key, its value and the bytes after it
    stage,      \* where the scanner is
    p,          \* the cursor, a position in copy.tokens
    out,        \* the records finished so far
    r           \* the record being scanned

parserVars == <<copy, stage, p, out, r>>

text == copy.tokens
atEnd == p > Len(text)

\* Bytes of the value, "v1|" included.
width(token) == IF token \in Id THEN IdWidth ELSE 1
bytes[n \in Nat] == IF n = 0 THEN 3 ELSE bytes[n - 1] + width(text[n])

blank == [id |-> "", kernel |-> "", generation |-> 0, tries |-> 0]
refuse == stage' = "refused" /\ UNCHANGED <<copy, p, out, r>>
advance(to) == stage' = to /\ p' = p + 1 /\ UNCHANGED <<copy, out>>

\* The copy must hold the one entry with zeros after it, and the value must have a
\* plausible length and the version mark.
FindEntry ==
    /\ stage = "entry"
    /\ IF copy.key /\ copy.tailZero /\ copy.version /\ bytes[Len(text)] \in 4 .. ValueLimit
       THEN stage' = "id" /\ UNCHANGED <<copy, p, out, r>>
       ELSE refuse

\* A third record is refused before it is looked at.
ScanId ==
    /\ stage = "id"
    /\ IF Len(out) < RecordLimit /\ ~atEnd /\ text[p] \in Id
       THEN advance("kernel") /\ r' = [blank EXCEPT !.id = text[p]]
       ELSE refuse

ScanKernel ==
    /\ stage = "kernel"
    /\ IF ~atEnd /\ text[p] \in Id
       THEN advance("first") /\ r' = [r EXCEPT !.kernel = text[p]]
       ELSE refuse

\* The generation has no leading zero and is not empty.
CheckFirstDigit ==
    /\ stage = "first"
    /\ IF ~atEnd /\ text[p] \in Digit \ {char[0]}
       THEN stage' = "digits" /\ UNCHANGED <<copy, p, out, r>>
       ELSE refuse

\* Fault: the digit to come is left out of the overflow check.
fitsAnyDigit(generation, digit) == ~(generation > GenerationLimit \div 10)

fits(generation, digit) == ~(generation > (GenerationLimit - digit) \div 10)

ScanDigit ==
    /\ stage = "digits" /\ ~atEnd /\ text[p] \in Digit
    /\ IF fits(r.generation, value(text[p]))
       THEN advance("digits") /\ r' = [r EXCEPT !.generation = @ * 10 + value(text[p])]
       ELSE refuse

ScanComma ==
    /\ stage = "digits" /\ (atEnd \/ text[p] \notin Digit)
    /\ IF Len(text) - p >= 1 /\ text[p] = ","
       THEN advance("mark") /\ UNCHANGED r
       ELSE refuse

ScanMark ==
    /\ stage = "mark"
    /\ IF text[p] = "-" \/ text[p] \in {char[n] : n \in 0 .. TrialLimit}
       THEN /\ advance("order")
            /\ r' = [r EXCEPT !.tries = IF text[p] = "-" THEN Confirmed ELSE value(text[p])]
       ELSE refuse

\* Against every record before it; then the end, or a separator with more behind it.
CheckOrder ==
    /\ stage = "order"
    /\ IF \E i \in 1 .. Len(out) : out[i].id = r.id \/ out[i].generation <= r.generation
       THEN refuse
       ELSE stage' = "after" /\ out' = Append(out, r) /\ UNCHANGED <<copy, p, r>>

FinishRecord ==
    /\ stage = "after"
    /\ \/ atEnd /\ stage' = "accepted" /\ UNCHANGED <<copy, p, out, r>>
       \/ ~atEnd /\ text[p] = ";" /\ p < Len(text) /\ advance("id") /\ UNCHANGED r
       \/ ~atEnd /\ (text[p] # ";" \/ p = Len(text)) /\ refuse

ParserInit ==
    /\ copy \in Copies
    /\ stage = "entry" /\ p = 1 /\ out = << >> /\ r = blank

ParserNext ==
    \/ FindEntry \/ ScanId \/ ScanKernel \/ CheckFirstDigit \/ ScanDigit \/ ScanComma
    \/ ScanMark \/ CheckOrder \/ FinishRecord

ParserSpec == ParserInit /\ [][ParserNext]_parserVars
ParserFairSpec == ParserSpec /\ WF_parserVars(ParserNext)

-----------------------------------------------------------------------------
(* What mica_boot_render writes.                                           *)

digits[n \in Nat] == IF n < 10 THEN <<char[n]>> ELSE Append(digits[n \div 10], char[n % 10])

item(rec) ==
    <<rec.id, rec.kernel>> \o digits[rec.generation]
        \o <<",", IF rec.tries < 0 THEN "-" ELSE char[rec.tries]>>

\* The records a sequence of tokens is the rendering of.
itemsOf(t) ==
    IF Len(t) < 2 THEN {}
    ELSE {rec \in [id : {t[1]} \cap Id, kernel : {t[2]} \cap Id,
                   generation : 1 .. GenerationLimit, tries : Tries] : item(rec) = t}

denotes(t) ==
    {<<a>> : a \in itemsOf(t)}
    \cup UNION {{<<a, b>> : a \in itemsOf(SubSeq(t, 1, k - 1)), b \in itemsOf(SubSeq(t, k + 1, Len(t)))} :
                k \in {k \in DOMAIN t : t[k] = ";"}}

-----------------------------------------------------------------------------
(* Properties.                                                             *)

\* A value is accepted only as the records whose rendering it is, so no two values stand
\* for the same records, and only with distinct ids and falling generations.
Canonical == stage = "accepted" => out \in denotes(text) /\ WellFormed(out)

\* Nothing that mica_boot_render writes is refused.
Complete ==
    stage = "refused" => \/ ~(copy.key /\ copy.tailZero /\ copy.version)
                         \/ \A recs \in denotes(text) : ~WellFormed(recs)

\* The generation never passes its limit, not even between two digits.
GenerationBounded == r.generation <= GenerationLimit

\* The scanner ends, whatever it is given.
Ends == <>(stage \in {"accepted", "refused"})

(* The parser accepts the canonical records, all of them and nothing else. *)
ParserExact == Canonical /\ Complete /\ GenerationBounded
=============================================================================
