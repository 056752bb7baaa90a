----------------------------- MODULE BootLedger -----------------------------
(***************************************************************************)
(* What the boot transaction promises, with no copies, no flags, no cache  *)
(* and no buffer: one ledger of records that changes in whole steps.  A    *)
(* candidate is launched only against a trial that has left the ledger; a  *)
(* deployment is launched only when every newer one is exhausted.          *)
(***************************************************************************)
EXTENDS BootRecords

CONSTANTS NoId

VARIABLES
    ledger,     \* the records
    paid,       \* the candidate whose launch has been paid for, or NoId
    running,    \* the deployment whose kernel runs, or NoId
    attempts    \* launches of each id as a candidate since its installation

ledgerVars == <<ledger, paid, running, attempts>>

front == mica_boot_next(ledger)
withTries(i, t) == setTries(ledger, i, t)

Init ==
    /\ ledger \in Records \cup {NoRecords}
    /\ paid = NoId /\ running = NoId
    /\ attempts = [i \in Id |-> 0]

\* A trial leaves the ledger.  The launch it pays for may be lost with the power.
Consume ==
    /\ paid = NoId /\ running = NoId /\ front # 0
    /\ ledger[front].tries > 0
    /\ ledger' = withTries(front, ledger[front].tries - 1)
    /\ paid' \in {NoId, ledger[front].id}
    /\ UNCHANGED <<running, attempts>>

\* A confirmed deployment that failed is given up for good.
Retire ==
    /\ paid = NoId /\ running = NoId /\ front # 0
    /\ ledger[front].tries = Confirmed
    /\ ledger' = withTries(front, 0)
    /\ UNCHANGED <<paid, running, attempts>>

\* A paid candidate is tried; the kernel runs, or the image is refused.
LaunchCandidate ==
    /\ paid # NoId
    /\ paid' = NoId
    /\ running' \in {NoId, paid}
    /\ attempts' = [attempts EXCEPT ![paid] = @ + 1]
    /\ UNCHANGED ledger

LaunchConfirmed ==
    /\ paid = NoId /\ running = NoId /\ front # 0
    /\ ledger[front].tries = Confirmed
    /\ running' = ledger[front].id
    /\ UNCHANGED <<ledger, paid, attempts>>

\* A reset, a power loss or recovery.
Stop ==
    /\ paid' = NoId /\ running' = NoId
    /\ UNCHANGED <<ledger, attempts>>

Confirm ==
    /\ \E i \in DOMAIN ledger : ledger[i].id = running /\ ledger' = withTries(i, Confirmed)
    /\ UNCHANGED <<paid, running, attempts>>

\* A new deployment goes in front of the running one.
Install ==
    /\ \E i \in DOMAIN ledger, new \in Record :
          /\ ledger[i].id = running /\ new.tries = TrialLimit
          /\ ledger' = [k \in 1 .. 2 |-> IF k = 1 THEN new ELSE ledger[i]]
          /\ attempts' = [attempts EXCEPT ![new.id] = 0]
    /\ ledger' \in Records
    /\ UNCHANGED <<paid, running>>

Next == \/ Consume \/ Retire \/ LaunchCandidate \/ LaunchConfirmed \/ Stop \/ Confirm \/ Install

Spec == Init /\ [][Next]_ledgerVars
=============================================================================
