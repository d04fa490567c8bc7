------------------------------- MODULE Ledger -------------------------------
(***************************************************************************)
(* Statements as a bank prints them and as a parser may hand them over:    *)
(* a true ledger, one distortion of it at most, with or without a balance  *)
(* column, header totals and an opt-out.  The properties relate what       *)
(* reconcile_result says to what really happened to the statement.         *)
(***************************************************************************)
EXTENDS Reconcile, SequencesExt

VARIABLE case        \* the case the result came from

(* Sums(s)[k] is the sum of the first k numbers of s.                      *)
Sums(s) ==
    LET sum[k \in 0..Len(s)] == IF k = 0 THEN 0 ELSE sum[k - 1] + s[k] IN sum
Total(s) == Sums(s)[Len(s)]
Debits(s) == [k \in DOMAIN s |-> s[k].debit]
Credits(s) == [k \in DOMAIN s |-> s[k].credit]
Nets(s) == [k \in DOMAIN s |-> s[k].credit - s[k].debit]

(* The rows of a ledger that opens at zero, each with its balance.         *)
Printed(ledger) ==
    [k \in DOMAIN ledger |->
        [debit |-> ledger[k].debit, credit |-> ledger[k].credit, balance |-> Sums(Nets(ledger))[k]]]

(* One thing that goes wrong between the ledger and the parsed rows.       *)
Distortions == [kind : {"none", "drop", "repeat", "blank", "debit", "credit", "balance"},
                at : Nat \ {0}, by : Nat]

Distorted(s, d) ==
    CASE d.kind = "none" -> s
      [] d.kind = "drop" -> RemoveAt(s, d.at)
      [] d.kind = "repeat" -> InsertAt(s, d.at, s[d.at])
      [] d.kind = "blank" -> [s EXCEPT ![d.at].balance = Absent]
      [] d.kind = "debit" -> [s EXCEPT ![d.at].debit = @ + d.by]
      [] d.kind = "credit" -> [s EXCEPT ![d.at].credit = @ + d.by]
      [] d.kind = "balance" -> [s EXCEPT ![d.at].balance = @ + d.by]

WithoutBalances(s) == [k \in DOMAIN s |-> [s[k] EXCEPT !.balance = Absent]]

(* A movement goes out or comes in; no parser returns an empty statement.  *)
Moves == {m \in [debit : Nat, credit : Nat] : m.debit = 0 \/ m.credit = 0}
Cases == {c \in [ledger : Seq(Moves), distortion : Distortions, column : BOOLEAN, optOut : BOOLEAN,
                 debitShown : BOOLEAN, creditShown : BOOLEAN] : c.distortion.at \in DOMAIN c.ledger}

(* What is printed of a case, and read off it.                             *)
Parsed(c) ==
    LET s == Distorted(Printed(c.ledger), c.distortion) IN
    [rows |-> IF c.column THEN s ELSE WithoutBalances(s),
     totalDebit |-> IF c.debitShown THEN Total(Debits(c.ledger)) ELSE Absent,
     totalCredit |-> IF c.creditShown THEN Total(Credits(c.ledger)) ELSE Absent,
     optOut |-> c.optOut]

LedgerInit == case \in Cases /\ result = Parsed(case) /\ Init
LedgerNext == Next /\ UNCHANGED case
LedgerSpec == LedgerInit /\ [][LedgerNext]_<<vars, case>>

-----------------------------------------------------------------------------
Size(m) == m.debit + m.credit
TotalsRun == case.debitShown /\ case.creditShown
RowWiseRuns == case.column /\ ~case.optOut

(* Distortions a check has the evidence to see.  The chain of balances is  *)
(* blind to the amounts of the first row and to a row lost at either end.  *)
TotalsSee(d, l) ==
    \/ d.kind \in {"drop", "repeat"} /\ Size(l[d.at]) > Tolerance
    \/ d.kind \in {"debit", "credit"} /\ d.by > Tolerance

RowWiseSees(d, l) ==
    \/ d.kind = "drop" /\ d.at \in 2..(Len(l) - 1) /\ Size(l[d.at]) > Tolerance
    \/ d.kind = "repeat" /\ Size(l[d.at]) > Tolerance
    \/ d.kind \in {"debit", "credit"} /\ d.at >= 2 /\ d.by > Tolerance
    \/ d.kind = "balance" /\ Len(l) >= 2 /\ d.by > Tolerance
    \/ d.kind = "blank" /\ Len(l) >= 2

(* No statement with a dropped, repeated or altered row is reported clean  *)
(* when a check that has the evidence ran ("totals catch dropped rows,     *)
(* row-wise catches per-row arithmetic that happens to sum out"); and one  *)
(* read as it was printed is never refused when it carries evidence: one   *)
(* missing header total, a negative balance, a move of zero are no breaks. *)
DistortionCaught ==
    /\ pc = "reported" =>
         /\ ~(TotalsRun /\ TotalsSee(case.distortion, case.ledger))
         /\ ~(RowWiseRuns /\ RowWiseSees(case.distortion, case.ledger))
    /\ case.distortion.kind = "none" /\ (TotalsRun \/ RowWiseRuns) => pc # "raised"

(* README: both checks "catch silently-dropped rows": a check that passed  *)
(* means that no row that moved money is missing.                          *)
PassedMeansNoneDropped ==
    pc = "reported" /\ (totals = "passed" \/ rowWise = "passed") =>
        ~(case.distortion.kind = "drop" /\ Size(case.ledger[case.distortion.at]) > Tolerance)
=============================================================================
