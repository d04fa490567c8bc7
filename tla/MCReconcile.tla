---------------------------- MODULE MCReconcile ----------------------------
(***************************************************************************)
(* The cases of Ledger up to a number of rows and an amount.               *)
(***************************************************************************)
EXTENDS Ledger

CONSTANTS
    MaxRows,         \* bound on the rows of a ledger
    MaxAmount        \* bound on one amount

MCMoves == {m \in [debit : 0..MaxAmount, credit : 0..MaxAmount] : m.debit = 0 \/ m.credit = 0}
MCLedgers == UNION {[1..n -> MCMoves] : n \in 1..MaxRows}

MCDistortions(s) ==
    {[kind |-> "none", at |-> 1, by |-> 0]}
    \cup [kind : {"drop", "repeat", "blank"}, at : DOMAIN s, by : {0}]
    \cup [kind : {"debit", "credit", "balance"}, at : DOMAIN s, by : 1..MaxAmount]

MCInit ==
    /\ \E l \in MCLedgers : \E d \in MCDistortions(l), c, o, hd, hc \in BOOLEAN :
         case = [ledger |-> l, distortion |-> d, column |-> c, optOut |-> o,
                 debitShown |-> hd, creditShown |-> hc]
    /\ LedgerInit
MCSpec == MCInit /\ [][LedgerNext]_<<vars, case>>
=============================================================================
