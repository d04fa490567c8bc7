----------------------------- MODULE Statement -----------------------------
(***************************************************************************)
(* convert() of one statement of fbn, zenith or palmpay: the parser walks  *)
(* the rows (WalkRows), the checks decide about what it returns            *)
(* (Reconcile), and the redactor's copy reads like the original (Redact).  *)
(* The figures of the statement are here, as printed: the parser hands     *)
(* them over and never reads them.                                         *)
(***************************************************************************)
EXTENDS WalkRows, Redact, Integers, FiniteSets

CONSTANTS
    Tolerance,       \* TOLERANCE
    Absent           \* a balance or a header total that was not printed

ASSUME StatementAssumption == Tolerance \in Nat /\ Absent \notin Int

VARIABLES
    result,          \* the ParseResult
    cpc, i, sumDebit, sumCredit, totals, rowWise, error    \* of Reconcile

checks == <<result, cpc, i, sumDebit, sumCredit, totals, rowWise, error>>
all == <<vars, checks>>

Checks == INSTANCE Reconcile WITH pc <- cpc

(* A movement goes out or comes in; amounts add up unit by unit.           *)
Debit(pos) == IF "out" \in At(pos).words THEN At(pos).units ELSE 0
Credit(pos) == IF "out" \in At(pos).words THEN 0 ELSE At(pos).units
Debits(S) == Cardinality(UNION {{<<pos, n>> : n \in 1..Debit(pos)} : pos \in S})
Credits(S) == Cardinality(UNION {{<<pos, n>> : n \in 1..Credit(pos)} : pos \in S})

(* The running balance printed beside a movement.                          *)
Balance(pos) ==
    LET upTo == {q \in Printed : q = pos \/ Before(q, pos)}
    IN  Credits(upTo) - Debits(upTo)

(* palmpay prints no balances, zenith no totals.                           *)
ResultOf ==
    [rows |-> [k \in DOMAIN transactions |->
                  LET pos == transactions[k].head IN
                  [debit |-> Debit(pos), credit |-> Credit(pos),
                   balance |-> IF bank = "palmpay" THEN Absent ELSE Balance(pos)]],
     totalDebit |-> IF bank # "zenith" /\ header THEN Debits(Printed) ELSE Absent,
     totalCredit |-> IF bank # "zenith" /\ header THEN Credits(Printed) ELSE Absent,
     optOut |-> FALSE]

NoResult == [rows |-> <<>>, totalDebit |-> Absent, totalCredit |-> Absent, optOut |-> FALSE]

ChecksIdle ==
    /\ result = NoResult /\ cpc = "idle" /\ i = 1 /\ sumDebit = 0 /\ sumCredit = 0
    /\ totals = "not_available" /\ rowWise = "not_available"
    /\ error = [kind |-> "none", row |-> 0]

Walks == Next /\ UNCHANGED checks

(* The parser returned.                                                    *)
HandOver ==
    /\ pc = "result" /\ cpc = "idle"
    /\ result' = ResultOf /\ cpc' = "start"
    /\ UNCHANGED <<vars, i, sumDebit, sumCredit, totals, rowWise, error>>

ChecksStep == cpc # "idle" /\ Checks!Next /\ UNCHANGED vars

StatementInit == Init /\ ChecksIdle
StatementNext == Walks \/ HandOver \/ ChecksStep
StatementSpec == StatementInit /\ [][StatementNext]_all

-----------------------------------------------------------------------------
(* Whatever the walk loses, the checks refuse once it weighs more than     *)
(* TOLERANCE: when totals were compared, the lost debits of a report, and  *)
(* its lost credits, come to one unit at most where TOLERANCE is 0.01; and *)
(* when balances were, what is lost between two booked movements cancels   *)
(* out as closely, so that a single loss of more there never passes.       *)
Lost(g, h) == {pos \in Printed : Before(g, pos) /\ Before(pos, h)}
LossShows ==
    cpc = "reported" =>
        /\ totals = "passed" => /\ Debits(Printed \ Heads) <= Tolerance
                                /\ Credits(Printed \ Heads) <= Tolerance
        /\ rowWise = "passed" => \A k \in 2..Len(transactions) :
             LET lost == Lost(transactions[k - 1].head, transactions[k].head)
             IN  Checks!Distance(Debits(lost), Credits(lost)) <= Tolerance

(* The redacted statement is a fixture for the same parser: its rows play  *)
(* the parts they played, so that it books the same movements, and of      *)
(* their narrations only the words that name no one are left.  Not where a *)
(* narration holds a label of the page header: the box drawn right of it   *)
(* takes the amounts along.                                                *)
Labels == {"Dear", "Account Name:", "Generated By", "ACCOUNT No.:", "Name", "Address"}
Kept == IF bank = "palmpay" THEN Phrases \cup Anchors \cup ChromeWords ELSE {}
RedactedAlike ==
    pc = "result" /\ cpc = "idle" /\ ReadsAsPrinted /\ (\A pos \in Printed : At(pos).narr \cap Labels = {}) =>
        \A p \in DOMAIN pages :
            LET copy == RedactedWalk(bank, pages[p]) IN
            \A k \in DOMAIN copy :
                /\ IsTx(copy[k]) = IsTx(pages[p][k])
                /\ pages[p][k].is \in {"move", "line"} => copy[k].narr \subseteq Kept

(* What the redactor's boxes take for granted, a hypothesis of the proof:  *)
(* a movement holds a label in its narration at most, none stands where    *)
(* the boxes below a label reach, and those of zenith and their lines      *)
(* stand below the column header of a page that has one.                   *)
LaidOutToRedact ==
    \A pos \in Positions : pos[2] \in DOMAIN pages[pos[1]] =>
        /\ At(pos).is = "move" => At(pos).words \cap Labels = {}
        /\ At(pos).is \in {"move", "line"} /\ bank = "zenith" =>
             pos[2] \in Below(pages[pos[1]], {"DATE", "DESCRIPTION"})
        /\ At(pos).is # "move" => \A q \in Printed : q[1] = pos[1] /\ pos[2] < q[2] =>
             /\ bank = "fbn" /\ "Dear" \in WordsOf(At(pos)) => pos[2] + AddressLines < q[2]
             /\ bank = "palmpay" /\ "Address" \in WordsOf(At(pos)) => pos[2] + 1 < q[2]
=============================================================================
