--------------------------- MODULE OpayStatement ---------------------------
(***************************************************************************)
(* convert() of an OPay statement: the parser reads it (OpayRows), the     *)
(* checks compare what it booked with the totals its bank printed of the   *)
(* first section (Reconcile), and the copy of it the redactor makes is     *)
(* read by the same parser (Redact).                                       *)
(***************************************************************************)
EXTENDS OpayRows
Edit == INSTANCE Redact

CONSTANTS
    Tolerance,       \* TOLERANCE
    Absent           \* a balance or a header total that was not printed

ASSUME StatementAssumption == Tolerance \in Nat /\ Absent \notin Int

VARIABLES
    header,          \* the totals the header was read to hold, never written
    result,          \* the ParseResult
    cpc, i, sumDebit, sumCredit, totals, rowWise, error    \* of Reconcile

checks == <<result, cpc, i, sumDebit, sumCredit, totals, rowWise, error>>
all == <<vars, header, checks>>

Checks == INSTANCE Reconcile WITH pc <- cpc

(* Amounts add up unit by unit.                                            *)
MoveRows == OfKind("move")
Debits(S) == Cardinality(UNION {{<<pos, n>> : n \in 1..At(pos).debit} : pos \in S})
Credits(S) == Cardinality(UNION {{<<pos, n>> : n \in 1..At(pos).credit} : pos \in S})

(* The balance column restarts at every withdrawal to savings: the parser  *)
(* opts out, so that no check reads it and it is left out here.            *)
ResultOf ==
    [rows |-> [k \in DOMAIN transactions |->
                  LET r == At(transactions[k].head) IN
                  [debit |-> r.debit, credit |-> r.credit, balance |-> Absent]],
     totalDebit |-> IF "debit" \in header THEN Debits(MoveRows) ELSE Absent,
     totalCredit |-> IF "credit" \in header THEN Credits(MoveRows) ELSE Absent,
     optOut |-> TRUE]

NoResult == [rows |-> <<>>, totalDebit |-> Absent, totalCredit |-> Absent, optOut |-> TRUE]

ChecksIdle ==
    /\ result = NoResult /\ cpc = "idle" /\ i = 1 /\ sumDebit = 0 /\ sumCredit = 0
    /\ totals = "not_available" /\ rowWise = "not_available"
    /\ error = [kind |-> "none", row |-> 0]

Walks == Next /\ UNCHANGED <<header, checks>>

(* The parser returned.                                                    *)
HandOver ==
    /\ pc = "result" /\ cpc = "idle"
    /\ result' = ResultOf /\ cpc' = "start"
    /\ UNCHANGED <<vars, header, i, sumDebit, sumCredit, totals, rowWise, error>>

ChecksStep == cpc # "idle" /\ Checks!Next /\ UNCHANGED <<vars, header>>

StatementInit == Init /\ header \in SUBSET {"debit", "credit"} /\ ChecksIdle
StatementNext == Walks \/ HandOver \/ ChecksStep
StatementSpec == StatementInit /\ [][StatementNext]_all

-----------------------------------------------------------------------------
(* Whatever the walk loses -- below a narration that reads like the title  *)
(* of the second section, or below a row of the sheet the parser does not  *)
(* know -- the checks refuse once it comes to more than TOLERANCE in       *)
(* either column; balances do not help, as the parser opts out of them.    *)
LossShows ==
    cpc = "reported" => /\ Debits(MoveRows \ Heads) <= Tolerance
                        /\ Credits(MoveRows \ Heads) <= Tolerance

(* The redacted statement is a fixture for the same parser: its pages hold *)
(* the movements they held with their amounts, and nothing is left of the  *)
(* narrations.  In a sheet that goes for the rows above the first blank    *)
(* one, where the redactor stops and the parser goes on.                   *)
copy == IF format = "xlsx" THEN <<Edit!OpaySheet(pages[1])>>
        ELSE [p \in DOMAIN pages |-> Edit!OpayPage(p, pages[p])]
Again == INSTANCE OpayRows WITH pages <- copy

Reached(pos) ==
    format = "xlsx" => \A k \in (HeaderRows + 1)..pos[2] : At(<<1, k>>).date # "none"

RedactedAlike ==
    pc = "result" /\ cpc = "idle" /\ ReadsAsPrinted =>
        /\ format = "pdf" => \A p \in DOMAIN pages :
             Again!TxRows(p) = TxRows(p) /\ Again!HitsSectionEnd(p) = HitsSectionEnd(p)
        /\ \A pos \in Positions : IsPlace(pos) /\ At(pos).is \in {"move", "line"} =>
             LET left == copy[pos[1]][pos[2]] IN
             /\ left.debit = At(pos).debit /\ left.credit = At(pos).credit
             /\ Reached(pos) => left.narr = {}

(* What the redactor's boxes take for granted, a hypothesis of the proof:  *)
(* the label with the holder below it stands above the line before the     *)
(* column header; that header and the section title stand outside the      *)
(* description column; and a sheet has no lines besides its movements.     *)
LaidOutToRedact ==
    /\ format = "pdf" /\ pages # <<>> =>
         /\ \A pos \in Positions : IsPlace(pos) /\ {"Account", "Name"} \subseteq WordsOf(At(pos)) =>
              pos[1] = 1 /\ pos[2] + 2 < FirstRow(1)
         /\ Anchors(1) # {} => "Trans." \in At(<<1, First(Anchors(1))>>).words
         /\ \A pos \in Titles : At(pos).is \in {"furniture", "saving"} =>
              {"Savings", "Account"} \subseteq At(pos).words
    /\ format = "xlsx" => OfKind("line") = {}
=============================================================================
