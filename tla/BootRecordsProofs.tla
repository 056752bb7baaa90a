------------------------- MODULE BootRecordsProofs -------------------------
(* What the operations of BootRecords give, for every id set, kernel set    *)
(* and generation limit.                                                   *)
EXTENDS BootRecords, TLAPS

\* Records have one or two entries.
LEMMA RecordsShape ==
    \A r : r \in Records <=> /\ r \in [1 .. 1 -> Record] \/ r \in [1 .. 2 -> Record]
                             /\ WellFormed(r)
BY DEF Records, Counts, RecordLimit

\* The fields of an entry.
LEMMA RecordEntry ==
    \A r \in Records : \A i \in DOMAIN r :
        r[i].id \in Id /\ r[i].tries \in Tries /\ r[i].tries \in Int /\ i \in 1 .. 2
<1> SUFFICES ASSUME NEW r \in Records, NEW i \in DOMAIN r
             PROVE  r[i].id \in Id /\ r[i].tries \in Tries /\ r[i].tries \in Int /\ i \in 1 .. 2
    OBVIOUS
<1>1. r[i] \in Record /\ i \in 1 .. 2
    BY RecordsShape
<1> QED
    BY <1>1 DEF Record, Tries, Confirmed, TrialLimit

\* So have their texts.
LEMMA TextShape ==
    \A t : t \in Text <=> /\ t \in [1 .. 1 -> Item] \/ t \in [1 .. 2 -> Item]
                          /\ WellFormed(t)
BY DEF Text, Counts, RecordLimit

\* The last field survives being written and read.
LEMMA MarkRoundTrip ==
    \A t \in Tries : /\ markOf(t) \in Mark \ {"?"}
                     /\ triesOf(markOf(t)) = t
<1> SUFFICES ASSUME NEW t \in Tries
             PROVE  markOf(t) \in Mark \ {"?"} /\ triesOf(markOf(t)) = t
    OBVIOUS
<1>1. t \in {-1, 0, 1, 2, 3}
    BY DEF Tries, Confirmed, TrialLimit
<1> QED
    BY <1>1 DEF markOf, triesOf, Mark, Confirmed

\* Every mark the parser accepts stands for a number of trials.
LEMMA TriesType == \A m \in Mark \ {"?"} : triesOf(m) \in Tries
BY DEF triesOf, Mark, Tries, Confirmed, TrialLimit

\* A text of the right shape is parsed into records, and nothing is not.
LEMMA ParseText ==
    /\ \A t \in Text : mica_boot_parse(t) \in Records
    /\ mica_boot_parse(NoText) = NoRecords
    /\ NoRecords \notin Records
<1>1. ASSUME NEW t \in Text PROVE mica_boot_parse(t) \in Records
  <2>1. (t \in [1 .. 1 -> Item] \/ t \in [1 .. 2 -> Item]) /\ WellFormed(t)
    BY TextShape
  <2>2. acceptable(t)
    BY <2>1 DEF acceptable, Item, Counts, RecordLimit
  <2>3. mica_boot_parse(t) = [i \in DOMAIN t |-> parsedRecord(t[i])]
    BY <2>2 DEF mica_boot_parse
  <2>4. \A x \in Item : /\ parsedRecord(x) \in Record
                        /\ parsedRecord(x).id = x.id
                        /\ parsedRecord(x).generation = x.generation
    BY TriesType DEF parsedRecord, Item, Record
  <2>5. \/ mica_boot_parse(t) \in [1 .. 1 -> Record]
        \/ mica_boot_parse(t) \in [1 .. 2 -> Record]
    BY <2>1, <2>3, <2>4
  <2>6. WellFormed(mica_boot_parse(t))
    BY <2>1, <2>3, <2>4 DEF WellFormed
  <2> QED
    BY <2>5, <2>6, RecordsShape
<1>2. mica_boot_parse(NoText) = NoRecords
    BY DEF mica_boot_parse, acceptable, NoText, Counts, RecordLimit
<1>3. NoRecords \notin Records
    BY RecordsShape DEF NoRecords
<1> QED
    BY <1>1, <1>2, <1>3

\* What is rendered is a text, and parsing it gives the records back.
LEMMA RenderRecords ==
    \A r \in Records : /\ mica_boot_render(r) \in Text
                       /\ mica_boot_render(r) # NoText
                       /\ mica_boot_parse(mica_boot_render(r)) = r
<1> SUFFICES ASSUME NEW r \in Records
             PROVE  /\ mica_boot_render(r) \in Text
                    /\ mica_boot_render(r) # NoText
                    /\ mica_boot_parse(mica_boot_render(r)) = r
    OBVIOUS
<1> DEFINE t == renderedText(r)
<1>1. (r \in [1 .. 1 -> Record] \/ r \in [1 .. 2 -> Record]) /\ WellFormed(r)
    BY RecordsShape
<1>2. \A x \in Record : /\ renderedItem(x) \in Item
                        /\ renderedItem(x).id = x.id
                        /\ renderedItem(x).generation = x.generation
                        /\ parsedRecord(renderedItem(x)) = x
    BY MarkRoundTrip DEF renderedItem, parsedRecord, Item, Record
<1>3. t \in [1 .. 1 -> Item] \/ t \in [1 .. 2 -> Item]
    BY <1>1, <1>2 DEF renderedText
<1>4. DOMAIN t = DOMAIN r /\ \A i \in DOMAIN r : t[i] = renderedItem(r[i])
    BY DEF renderedText
<1>5. WellFormed(t)
    BY <1>1, <1>2, <1>4 DEF WellFormed
<1>6. t \in Text
    BY <1>3, <1>5, TextShape
<1>7. acceptable(t)
    BY <1>3, <1>5 DEF acceptable, Item, Counts, RecordLimit
<1>8. mica_boot_parse(t) = [i \in DOMAIN t |-> parsedRecord(t[i])]
    BY <1>7 DEF mica_boot_parse
<1>9. mica_boot_parse(t) = r
  <2>1. \A i \in DOMAIN r : r[i] \in Record
    BY <1>1
  <2>2. \A i \in DOMAIN r : parsedRecord(t[i]) = r[i]
    BY <2>1, <1>2, <1>4
  <2>3. mica_boot_parse(t) = [i \in DOMAIN r |-> r[i]]
    BY <1>8, <1>4, <2>2
  <2> QED
    BY <2>3, <1>1
<1>10. r # NoRecords
    BY ParseText
<1>11. mica_boot_render(r) = t
  <2>1. DOMAIN r \in {1 .. n : n \in Counts}
    BY <1>1 DEF Counts, RecordLimit
  <2>2. \A i \in DOMAIN r : r[i].tries \in Tries
    BY <1>1 DEF Record
  <2> QED
    BY <2>1, <2>2, <1>9, <1>10 DEF mica_boot_render
<1>12. t # NoText
    BY <1>3 DEF NoText
<1> QED
    BY <1>6, <1>9, <1>11, <1>12

\* Changing the trials of one record keeps the records well-formed.
LEMMA SetTries ==
    ASSUME NEW r \in Records, NEW n \in DOMAIN r, NEW t \in Tries
    PROVE  LET q == setTries(r, n, t) IN
           /\ q \in Records /\ DOMAIN q = DOMAIN r
           /\ \A i \in DOMAIN r : /\ q[i].id = r[i].id
                                  /\ q[i].tries = IF i = n THEN t ELSE r[i].tries
<1> DEFINE q == [r EXCEPT ![n].tries = t]
<1>1. (r \in [1 .. 1 -> Record] \/ r \in [1 .. 2 -> Record]) /\ WellFormed(r)
    BY RecordsShape
<1>2. DOMAIN q = DOMAIN r
    BY <1>1
<1>3. \A i \in DOMAIN r : /\ q[i] \in Record /\ q[i].id = r[i].id
                          /\ q[i].generation = r[i].generation
                          /\ q[i].tries = IF i = n THEN t ELSE r[i].tries
    BY <1>1 DEF Record
<1>4. q \in [1 .. 1 -> Record] \/ q \in [1 .. 2 -> Record]
    BY <1>1, <1>3
<1>5. WellFormed(q)
    BY <1>1, <1>2, <1>3 DEF WellFormed
<1> QED
    BY <1>2, <1>3, <1>4, <1>5, RecordsShape DEF setTries

\* mica_boot_next gives a record with trials left, or 0 and there is none.
LEMMA NextRecord ==
    \A r \in Records : LET n == mica_boot_next(r) IN
        \/ n = 0
        \/ n \in DOMAIN r /\ n # 0 /\ r[n].tries # 0
<1> SUFFICES ASSUME NEW r \in Records, mica_boot_next(r) # 0
             PROVE  mica_boot_next(r) \in DOMAIN r /\ r[mica_boot_next(r)].tries # 0
    OBVIOUS
<1>1. r \in [1 .. 1 -> Record] \/ r \in [1 .. 2 -> Record]
    BY RecordsShape
<1>2. \E i \in DOMAIN r : r[i].tries # 0
    BY DEF mica_boot_next
<1>3. \E i \in DOMAIN r : r[i].tries # 0 /\ \A j \in DOMAIN r : j < i => r[j].tries = 0
  <2>1. CASE 1 \in DOMAIN r /\ r[1].tries # 0
    BY <1>1, <2>1
  <2>2. CASE r[1].tries = 0
    BY <1>1, <1>2, <2>2
  <2> QED
    BY <1>1, <2>1, <2>2
<1> QED
    BY <1>2, <1>3 DEF mica_boot_next

\* The slot, by which copies are valid; a copy one flag ahead of a valid one is taken.
LEMMA SlotChoice ==
    \A va, vb \in BOOLEAN : \A a, b \in 0 .. 255 :
        LET s == mica_boot_slot(va, a, vb, b) IN
        /\ s \in {-1, 0, 1}
        /\ s = -1 <=> ~va /\ ~vb
        /\ s = 0 => va
        /\ s = 1 => vb
        /\ va /\ vb /\ b = (a + 1) % 256 => s = 1
        /\ va /\ vb /\ a = (b + 1) % 256 => s = 0
        /\ ~va /\ vb => s = 1
        /\ va /\ ~vb => s = 0
BY DEF mica_boot_slot
=============================================================================
