------------------------------ MODULE MCLoader ------------------------------
(***************************************************************************)
(* Two parts of the loaders that share no state, checked in one run: the   *)
(* RockUSB flash service and the scanner of deployment records.  A         *)
(* behaviour is one of RockUsb or one of RecordParser; the other one's     *)
(* variables keep their first values.                                      *)
(*                                                                         *)
(* A write of two blocks is two chunks; two of them overrun the cache and, *)
(* near the end, the device.  The scanner gets renderings of one and two   *)
(* records, well-formed or not, each with at most one token put in, left   *)
(* out or changed.                                                         *)
(***************************************************************************)
EXTENDS RockUsb, RecordParser, SequencesExt

CONSTANTS v1, v2
MCValues == {v1, v2}

tokenSet == Id \cup {"0", "1", "2", "3", "4", ",", ";", "-", "x"}

someRecord == [id : Id, kernel : {CHOOSE i \in Id : TRUE}, generation : {1, 12}, tries : {-1, 3}]

edits(t) ==
    {t} \cup {RemoveAt(t, i) : i \in 1 .. Len(t)}
        \cup {ReplaceAt(t, i, x) : i \in 1 .. Len(t), x \in tokenSet}
        \cup {InsertAt(t, i, x) : i \in 1 .. Len(t) + 1, x \in tokenSet}

\* Eight ids are longer than the value limit; three records are one too many.
long == {[i \in 1 .. 8 |-> CHOOSE j \in Id : TRUE]}
three == {item(a) \o <<";">> \o item(b) \o <<";">> \o item(c) :
            a \in {[id |-> CHOOSE i \in Id : TRUE, kernel |-> CHOOSE i \in Id : TRUE,
                    generation |-> 12, tries |-> 3]}, b, c \in someRecord}

MCCopies ==
    [key : {TRUE}, tailZero : {TRUE}, version : {TRUE},
     tokens : UNION {edits(item(a)) : a \in someRecord}
              \cup UNION {edits(item(a) \o <<";">> \o item(b)) : a, b \in someRecord}
              \cup long \cup three]
    \cup [key : BOOLEAN, tailZero : BOOLEAN, version : BOOLEAN,
          tokens : {item(a) : a \in someRecord} \cup {<< >>}]
OneCopy == CHOOSE c \in MCCopies : c.tokens = << >>

VARIABLE side   \* the part that takes the steps

LoaderInit ==
    /\ side \in {"flash", "parser"}
    /\ Init /\ (side = "parser" => dev = [b \in Blocks |-> v1] /\ result = v1)
    /\ ParserInit /\ (side = "flash" => copy = OneCopy)

LoaderNext ==
    \/ side = "flash" /\ Next /\ UNCHANGED <<parserVars, side>>
    \/ side = "parser" /\ ParserNext /\ UNCHANGED <<vars, side>>
    \/ side = "parser" /\ stage \in {"accepted", "refused"} /\ UNCHANGED <<vars, parserVars, side>>

\* The fairness of FairSpec and ParserFairSpec, for the part that is active.
LoaderSpec ==
    /\ LoaderInit /\ [][LoaderNext]_<<vars, parserVars, side>>
    /\ WF_vars(side = "flash" /\ Tick)
    /\ WF_vars(side = "flash" /\ rockusb_flush_write_cache_if_idle)
    /\ WF_parserVars(side = "parser" /\ ParserNext)

\* Accepted data reaches the device, and the scanner ends when it is the one that runs.
LoaderProgress == Flushed /\ (side = "parser" => Ends)
=============================================================================
