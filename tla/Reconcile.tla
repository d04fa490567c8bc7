----------------------------- MODULE Reconcile -----------------------------
(***************************************************************************)
(* bankstract/reconcile.py: the checks reconcile_result runs on the rows a *)
(* parser extracted, loop by loop, and the report or error they end in.    *)
(* Amounts are integers in the unit of the statement's last decimal place. *)
(***************************************************************************)
EXTENDS Integers, Sequences

CONSTANTS
    Tolerance,       \* TOLERANCE
    Absent           \* a balance or a header total that was not printed

Balances == Int \cup {Absent}
Headers == Nat \cup {Absent}

(* Transaction refuses a negative debit or credit.                         *)
Transactions == [debit : Nat, credit : Nat, balance : Balances]

ParseResults == [rows : Seq(Transactions), totalDebit : Headers,
                 totalCredit : Headers, optOut : BOOLEAN]

ASSUME ToleranceAssumption == Tolerance \in Nat
ASSUME AbsentAssumption == Absent \notin Int

VARIABLES
    result,          \* the ParseResult, never written
    pc,              \* the check under way
    i,               \* row of the loop under way
    sumDebit, sumCredit,
    totals, rowWise, \* CheckStatus of either check
    error            \* [kind, row], row 0 for an error that names none

vars == <<result, pc, i, sumDebit, sumCredit, totals, rowWise, error>>

rows == result.rows
NoError == [kind |-> "none", row |-> 0]

Distance(a, b) == IF a >= b THEN a - b ELSE b - a

-----------------------------------------------------------------------------
Init ==
    /\ result \in ParseResults
    /\ pc = "start" /\ i = 1 /\ sumDebit = 0 /\ sumCredit = 0
    /\ totals = "not_available" /\ rowWise = "not_available"
    /\ error = NoError

Raise(kind, row) ==
    /\ error' = [kind |-> kind, row |-> row] /\ pc' = "raised"

HeaderTotals == result.totalCredit # Absent /\ result.totalDebit # Absent

(* Totals run when the parser read both header totals.                     *)
StartChecks ==
    /\ pc = "start"
    /\ pc' = IF HeaderTotals THEN "sum" ELSE "row_wise"
    /\ UNCHANGED <<result, i, sumDebit, sumCredit, totals, rowWise, error>>

(* Mutation: a debit is subtracted, as if money out were negative.         *)
SumRowNets ==
    /\ pc = "sum" /\ i <= Len(rows)
    /\ sumDebit' = sumDebit - rows[i].debit
    /\ sumCredit' = sumCredit + rows[i].credit
    /\ i' = i + 1
    /\ UNCHANGED <<result, pc, totals, rowWise, error>>

SumRow ==
    /\ pc = "sum" /\ i <= Len(rows)
    /\ sumDebit' = sumDebit + rows[i].debit
    /\ sumCredit' = sumCredit + rows[i].credit
    /\ i' = i + 1
    /\ UNCHANGED <<result, pc, totals, rowWise, error>>

(* Mutation: the debits are not compared.                                  *)
CompareCreditsOnly ==
    /\ pc = "sum" /\ i > Len(rows)
    /\ \/ /\ Distance(sumCredit, result.totalCredit) > Tolerance
          /\ Raise("credits", 0) /\ UNCHANGED totals
       \/ /\ Distance(sumCredit, result.totalCredit) <= Tolerance
          /\ totals' = "passed" /\ pc' = "row_wise" /\ UNCHANGED error
    /\ UNCHANGED <<result, i, sumDebit, sumCredit, rowWise>>

(* verify_totals: credits first, then debits.                              *)
CompareTotals ==
    /\ pc = "sum" /\ i > Len(rows)
    /\ \/ /\ Distance(sumCredit, result.totalCredit) > Tolerance
          /\ Raise("credits", 0) /\ UNCHANGED totals
       \/ /\ Distance(sumCredit, result.totalCredit) <= Tolerance
          /\ Distance(sumDebit, result.totalDebit) > Tolerance
          /\ Raise("debits", 0) /\ UNCHANGED totals
       \/ /\ Distance(sumCredit, result.totalCredit) <= Tolerance
          /\ Distance(sumDebit, result.totalDebit) <= Tolerance
          /\ totals' = "passed" /\ pc' = "row_wise" /\ UNCHANGED error
    /\ UNCHANGED <<result, i, sumDebit, sumCredit, rowWise>>

(* reconcile(): the rows with no balance.                                  *)
Missing == {k \in DOMAIN rows : rows[k].balance = Absent}
IsFirst(k, S) == k \in S /\ \A m \in S : k <= m

RowWiseDisabled ==
    /\ pc = "row_wise" /\ result.optOut
    /\ rowWise' = "disabled" /\ pc' = "decide"
    /\ UNCHANGED <<result, i, sumDebit, sumCredit, totals, error>>

(* No row has a balance: False, nothing was checked.                       *)
NoBalanceColumn ==
    /\ pc = "row_wise" /\ ~result.optOut
    /\ Missing = DOMAIN rows
    /\ pc' = "decide"
    /\ UNCHANGED <<result, i, sumDebit, sumCredit, totals, rowWise, error>>

(* Some rows have one and some do not: a parser slip.                      *)
PartialBalances ==
    /\ pc = "row_wise" /\ ~result.optOut
    /\ Missing # {} /\ Missing # DOMAIN rows
    /\ \E k \in DOMAIN rows : IsFirst(k, Missing) /\ Raise("missing", k)
    /\ UNCHANGED <<result, i, sumDebit, sumCredit, totals, rowWise>>

(* Every row has a balance: the chain starts at the second row.            *)
StartChain ==
    /\ pc = "row_wise" /\ ~result.optOut
    /\ Missing = {} /\ rows # <<>>
    /\ i' = 2 /\ pc' = "chain"
    /\ UNCHANGED <<result, sumDebit, sumCredit, totals, rowWise, error>>

Expected(k) == rows[k - 1].balance - rows[k].debit + rows[k].credit

(* The balance of row k follows from the row before it.                    *)
Chains(k) == Distance(Expected(k), rows[k].balance) <= Tolerance

(* Mutation: the loop goes on after a break and the last one is reported.  *)
ChainRowLast ==
    /\ pc = "chain" /\ i <= Len(rows)
    /\ IF Chains(i) \/ i < Len(rows)
       THEN i' = i + 1 /\ UNCHANGED <<pc, error>>
       ELSE Raise("balance", i) /\ i' = i
    /\ UNCHANGED <<result, sumDebit, sumCredit, totals, rowWise>>

ChainRow ==
    /\ pc = "chain" /\ i <= Len(rows)
    /\ IF Chains(i)
       THEN i' = i + 1 /\ UNCHANGED <<pc, error>>
       ELSE Raise("balance", i) /\ i' = i
    /\ UNCHANGED <<result, sumDebit, sumCredit, totals, rowWise>>

ChainHolds ==
    /\ pc = "chain" /\ i > Len(rows)
    /\ rowWise' = "passed" /\ pc' = "decide"
    /\ UNCHANGED <<result, i, sumDebit, sumCredit, totals, error>>

(* Mutation: only a failed check raises.                                   *)
DecideLenient ==
    /\ pc = "decide"
    /\ pc' = "reported"
    /\ UNCHANGED <<result, i, sumDebit, sumCredit, totals, rowWise, error>>

(* A result with no evidence for either check raises too.                  *)
Decide ==
    /\ pc = "decide"
    /\ IF totals # "passed" /\ rowWise # "passed"
       THEN Raise("no_evidence", 0)
       ELSE pc' = "reported" /\ UNCHANGED error
    /\ UNCHANGED <<result, i, sumDebit, sumCredit, totals, rowWise>>

Over == pc \in {"reported", "raised"} /\ UNCHANGED vars

Next == \/ StartChecks \/ SumRow \/ CompareTotals
        \/ RowWiseDisabled \/ NoBalanceColumn \/ PartialBalances \/ StartChain
        \/ ChainRow \/ ChainHolds \/ Decide \/ Over

Spec == Init /\ [][Next]_vars

-----------------------------------------------------------------------------
TypeOK ==
    /\ result \in ParseResults
    /\ pc \in {"start", "sum", "row_wise", "chain", "decide", "reported", "raised"}
    /\ i \in Nat \ {0}
    /\ sumDebit \in Nat /\ sumCredit \in Nat
    /\ totals \in {"not_available", "passed"}
    /\ rowWise \in {"not_available", "passed", "disabled"}
    /\ error \in [kind : {"none", "credits", "debits", "missing", "balance", "no_evidence"},
                  row : Nat]

(* Why the two below hold: the loop over the chain has compared every row  *)
(* behind it, and each status was given for what it says.                  *)
LoopHonest ==
    /\ pc \in {"start", "sum", "row_wise", "chain"} => rowWise = "not_available"
    /\ pc = "sum" => HeaderTotals
    /\ pc = "chain" => /\ ~result.optOut /\ Missing = {} /\ i \in 2..(Len(rows) + 1)
                       /\ \A k \in 2..(i - 1) : Chains(k)
    /\ rowWise = "passed" => /\ ~result.optOut /\ Missing = {}
                             /\ \A k \in 2..Len(rows) : Chains(k)
    /\ rowWise = "disabled" => result.optOut
    /\ pc \in {"decide", "reported"} /\ result.optOut => rowWise = "disabled"
    /\ totals = "passed" => HeaderTotals
    /\ pc = "reported" => totals = "passed" \/ rowWise = "passed"

(* A report that says row-wise passed is about every row: each has a       *)
(* balance that follows from the one before; and no report comes without   *)
(* a check that passed ("a result with no evidence ... would otherwise     *)
(* pass unverified").                                                      *)
ReportHonest ==
    pc = "reported" =>
        /\ totals = "passed" \/ rowWise = "passed"
        /\ rowWise = "passed" => /\ \A k \in DOMAIN rows : rows[k].balance # Absent
                                 /\ \A k \in 2..Len(rows) : Chains(k)
        /\ rowWise = "disabled" <=> result.optOut
        /\ totals = "passed" => HeaderTotals

(* The row an error names is where the statement first goes wrong: every   *)
(* row before it chains, or has a balance.                                 *)
FirstBreakNamed ==
    /\ error.kind = "balance" =>
         /\ error.row \in 2..Len(rows) /\ ~Chains(error.row)
         /\ \A k \in 2..(error.row - 1) : Chains(k)
    /\ error.kind = "missing" =>
         /\ error.row \in DOMAIN rows /\ rows[error.row].balance = Absent
         /\ \A k \in 1..(error.row - 1) : rows[k].balance # Absent
=============================================================================
