------------------------------ MODULE WalkRows ------------------------------
(***************************************************************************)
(* bankstract/parsers/_columnar.py walk_rows with the parse() of the two   *)
(* banks that use it (fbn.py, zenith.py), and the loop of palmpay.py,      *)
(* which is the same walk without columns and without furniture: rows of a *)
(* page become transactions, narration lines join the transaction above    *)
(* them, page furniture ends it.                                           *)
(*                                                                         *)
(* A row is what the predicates can tell apart: the words in its narration *)
(* column and outside it, a date, an amount in the balance column (for     *)
(* palmpay: an amount, on either side of the date), and whether build_tx   *)
(* accepts it.                                                             *)
(***************************************************************************)
EXTENDS Naturals, Sequences

CONSTANT
    Words            \* words a row can hold

(* `is` is the truth the parser cannot see: a money movement, a further    *)
(* line of the narration above it, or page furniture.  `units` is how much *)
(* a movement moves, counted in its last decimal place.                    *)
Rows == [is : {"move", "line", "furniture"}, lead : Words, words : SUBSET Words,
         narr : SUBSET Words, date : BOOLEAN, amount : {"none", "left", "right"},
         units : Nat, sound : BOOLEAN]

VARIABLES
    bank,            \* whose parser runs, never written
    pages,           \* words_per_page grouped into rows, never written
    header,          \* the header has both totals, never written
    page, row,       \* the loops of walk_rows
    pending,         \* pending_cols: position of a row, or Nobody
    tail,            \* pending_tail: positions of rows
    transactions,    \* [head, tail] of each built transaction
    walked,          \* walk_page events fired
    pc               \* "start", "walk", "built", or how parse() ended

vars == <<bank, pages, header, page, row, pending, tail, transactions, walked, pc>>

input == <<bank, pages, header>>

Nobody == <<0, 0>>
Positions == {<<p, r>> : p \in DOMAIN pages, r \in UNION {DOMAIN pages[q] : q \in DOMAIN pages}}
At(pos) == pages[pos[1]][pos[2]]
Before(a, b) == a[1] < b[1] \/ (a[1] = b[1] /\ a[2] < b[2])

-----------------------------------------------------------------------------
Holds(r, words) == words \subseteq r.words \cup r.narr
HoldsOne(r, words) == words \cap (r.words \cup r.narr) # {}

(* fbn: one word of CHROME_MARKERS is enough.                              *)
FbnMarkers == {"Please", "FirstContact", "firstbanknigeria.com", "Page", "Trans", "Closing", "Opening"}
FbnChrome(r) == HoldsOne(r, FbnMarkers)

(* Mutation: single words, as fbn does.                                    *)
ZenithChromeByWord(r) ==
    HoldsOne(r, {"TOTALS", "ALERTZ", "TOTAL", "DATE", "DESCRIPTION", "CREDIT", "Balance"})

(* zenith: structural, because narrations hold such words too.             *)
ZenithChrome(r) ==
    \/ HoldsOne(r, {"TOTALS", "ALERTZ"})
    \/ Holds(r, {"DATE", "DESCRIPTION"})
    \/ Holds(r, {"Opening", "Balance"})
    \/ Holds(r, {"TOTAL", "(CLEARED"})
    \/ r.lead = "Page"

(* palmpay has no such test.                                               *)
IsChrome(r) == \/ bank = "fbn" /\ FbnChrome(r)
               \/ bank = "zenith" /\ ZenithChrome(r)

(* has_date_and_balance, the minimum signature of a transaction row.       *)
HasDateAndBalance(r) == r.date /\ r.amount = "right"

(* _row_kind: both, only one, or neither of them.                          *)
RowKind(r) ==
    CASE r.date /\ r.amount # "none" -> "tx"
      [] ~r.date /\ r.amount = "none" -> "continuation"
      [] OTHER -> "partial"

IsTx(r) == IF bank = "palmpay" THEN RowKind(r) = "tx"
           ELSE ~IsChrome(r) /\ HasDateAndBalance(r)
Continues(r) == /\ IF bank = "palmpay" THEN RowKind(r) = "continuation"
                   ELSE ~IsChrome(r) /\ ~IsTx(r)
                /\ r.narr # {}

(* _parse_row wants the amount right of the date; with none a transaction  *)
(* row of palmpay is not kept.                                             *)
Opens(r) == r.amount = "right"

-----------------------------------------------------------------------------
Init ==
    /\ bank \in {"fbn", "zenith", "palmpay"}
    /\ pages \in Seq(Seq(Rows)) /\ header \in BOOLEAN
    /\ page = 1 /\ row = 1 /\ pending = Nobody /\ tail = <<>>
    /\ transactions = <<>> /\ walked = 0 /\ pc = "start"

(* parse(): no page at all is an error of its own; palmpay, which has no   *)
(* other evidence, does not go on without its header totals.               *)
Begin ==
    /\ pc = "start"
    /\ pc' = CASE pages = <<>> -> "empty_pdf"
               [] pages # <<>> /\ bank = "palmpay" /\ ~header -> "drift"
               [] OTHER -> "walk"
    /\ UNCHANGED <<input, page, row, pending, tail, transactions, walked>>

InRow == pc = "walk" /\ page <= Len(pages) /\ row <= Len(pages[page])
Here == <<page, row>>
Advance == row' = row + 1 /\ UNCHANGED <<input, page, walked>>

(* build_tx raises on a date that is none or a negative amount.            *)
Buildable == pending # Nobody => At(pending).sound

(* Mutation: pending_tail outlives its transaction.                        *)
FlushKeepTail ==
    /\ transactions' = IF pending = Nobody THEN transactions
                       ELSE Append(transactions, [head |-> pending, tail |-> tail])
    /\ tail' = tail

(* flush(), up to what takes the place of the pending transaction.         *)
Flush ==
    /\ transactions' = IF pending = Nobody THEN transactions
                       ELSE Append(transactions, [head |-> pending, tail |-> tail])
    /\ tail' = IF pending = Nobody THEN tail ELSE <<>>

ChromeRow ==
    /\ InRow /\ IsChrome(At(Here)) /\ Buildable
    /\ Flush /\ pending' = Nobody /\ UNCHANGED pc
    /\ Advance

(* Mutation: the row replaces the pending one, which is lost.              *)
TxRowReplaces ==
    /\ InRow /\ IsTx(At(Here)) /\ Buildable
    /\ pending' = (IF Opens(At(Here)) THEN Here ELSE Nobody)
    /\ tail' = <<>> /\ UNCHANGED <<transactions, pc>>
    /\ Advance

TxRow ==
    /\ InRow /\ IsTx(At(Here)) /\ Buildable
    /\ Flush /\ UNCHANGED pc
    /\ pending' = IF Opens(At(Here)) THEN Here ELSE Nobody
    /\ Advance

(* Only with a transaction open; any other row leaves no trace.            *)
OtherRow ==
    /\ InRow /\ ~IsChrome(At(Here)) /\ ~IsTx(At(Here))
    /\ tail' = IF pending # Nobody /\ Continues(At(Here)) THEN Append(tail, Here) ELSE tail
    /\ UNCHANGED <<pending, transactions, pc>>
    /\ Advance

EndPage ==
    /\ pc = "walk" /\ page <= Len(pages) /\ row > Len(pages[page])
    /\ page' = page + 1 /\ row' = 1 /\ walked' = walked + 1
    /\ UNCHANGED <<input, pending, tail, transactions, pc>>

(* The last flush, after the last walk_page.                               *)
EndWalk ==
    /\ pc = "walk" /\ page > Len(pages) /\ Buildable
    /\ Flush /\ pending' = Nobody /\ pc' = "built"
    /\ UNCHANGED <<input, page, row, walked>>

(* build_tx raised, in whichever flush came to the row.                    *)
BuildFails ==
    /\ ~Buildable
    /\ \/ InRow /\ (IsChrome(At(Here)) \/ IsTx(At(Here)))
       \/ pc = "walk" /\ page > Len(pages)
    /\ pc' = "bad_row"
    /\ UNCHANGED <<input, page, row, pending, tail, transactions, walked>>

(* parse() never returns an empty list: raise_no_transactions.             *)
Conclude ==
    /\ pc = "built"
    /\ pc' = IF transactions = <<>> THEN "no_transactions" ELSE "result"
    /\ UNCHANGED <<input, page, row, pending, tail, transactions, walked>>

Over == pc \in {"empty_pdf", "drift", "no_transactions", "bad_row", "result"} /\ UNCHANGED vars

Next == \/ Begin \/ ChromeRow \/ TxRow \/ OtherRow \/ EndPage \/ EndWalk
        \/ BuildFails \/ Conclude \/ Over

Spec == Init /\ [][Next]_vars

-----------------------------------------------------------------------------
TypeOK ==
    /\ page \in 1..(Len(pages) + 1) /\ row \in Nat \ {0}
    /\ pending \in Positions \cup {Nobody}
    /\ tail \in Seq(Positions)
    /\ transactions \in Seq([head : Positions, tail : Seq(Positions)])
    /\ walked = page - 1
    /\ pending = Nobody => tail = <<>>
    /\ pc \in {"start", "walk", "built", "empty_pdf", "drift", "no_transactions", "bad_row", "result"}

(* Rows behind the loop.                                                   *)
Passed(pos) == /\ pos \in Positions /\ pos[2] \in DOMAIN pages[pos[1]] /\ Before(pos, Here)

Heads == {transactions[k].head : k \in DOMAIN transactions}

(* No transaction row is lost, doubled or moved: at every moment those     *)
(* behind the loop are the built ones, in order, and the pending one; and  *)
(* a result has them all.                                                  *)
EachRowOnce ==
    /\ \A j, k \in DOMAIN transactions :
         j < k => Before(transactions[j].head, transactions[k].head)
    /\ pc # "start" => {pos \in Positions : Passed(pos) /\ IsTx(At(pos)) /\ Opens(At(pos))}
                         = Heads \cup (IF pending = Nobody THEN {} ELSE {pending})
    /\ pc = "result" => pending = Nobody /\ transactions # <<>>

(* A narration is its own row and the lines between it and the next        *)
(* furniture or transaction row, across page ends, and no others.          *)
Owns(h, pos) ==
    /\ Before(h, pos) /\ Continues(At(pos))
    /\ \A q \in Positions :
         Passed(q) /\ Before(h, q) /\ Before(q, pos) => ~IsChrome(At(q)) /\ ~IsTx(At(q))

Collected(h, t) ==
    /\ {t[n] : n \in DOMAIN t} = {pos \in Positions : Passed(pos) /\ Owns(h, pos)}
    /\ \A m, n \in DOMAIN t : m < n => Before(t[m], t[n])

TailsOwned ==
    pc = "result" => \A k \in DOMAIN transactions : Collected(transactions[k].head, transactions[k].tail)

(* The statement reads as it was printed: no narration holds the words     *)
(* that mark furniture of its bank, and every amount stands right of its   *)
(* date.                                                                   *)
Marks ==
    CASE bank = "fbn" -> {{w} : w \in FbnMarkers}
      [] bank = "zenith" -> {{"TOTALS"}, {"ALERTZ"}, {"DATE", "DESCRIPTION"},
                             {"Opening", "Balance"}, {"TOTAL", "(CLEARED"}}
      [] OTHER -> {}
Printed == {pos \in Positions : pos[2] \in DOMAIN pages[pos[1]] /\ At(pos).is = "move"}
ReadsAsPrinted ==
    \A pos \in Printed : At(pos).amount = "right" /\ \A m \in Marks : ~(m \subseteq At(pos).narr)

(* What is booked is what is printed: no page furniture is booked as a     *)
(* movement or lands in a narration, even the header lines of a later page *)
(* that look like narration, as the footer above them closed the           *)
(* transaction; and no movement is taken for furniture because its         *)
(* narration holds a word like CREDIT (docstring of zenith's               *)
(* _is_chrome_row).  palmpay has no furniture test: lines of the next      *)
(* page's header do join the last narration of a page.                     *)
BookedAsPrinted ==
    /\ \A k \in DOMAIN transactions :
         /\ At(transactions[k].head).is = "move"
         /\ bank # "palmpay" =>
              \A n \in DOMAIN transactions[k].tail : At(transactions[k].tail[n]).is = "line"
    /\ pc = "result" /\ ReadsAsPrinted => Printed \subseteq Heads

(* How the banks lay a statement out, the hypothesis of the proofs.  Every *)
(* page ends in a footer, and the rest of its furniture stands above its   *)
(* movements; a movement has a date and an amount and holds a mark in its  *)
(* narration at most; of all the others only an opening balance is dated.  *)
IsFooter(r) == r.is = "furniture" /\ r.lead = "Page" /\ "Page" \in r.words
LaidOutMove(r) ==
    /\ r.date /\ r.amount # "none" /\ (bank # "palmpay" => r.amount = "right")
    /\ r.lead # "Page" /\ \A m \in Marks : m \cap r.words = {}
LaidOutFurniture(pos) ==
    /\ At(pos).date => bank # "palmpay" /\ {"Opening", "Balance"} \subseteq At(pos).words
    /\ IsFooter(At(pos)) \/ \A q \in Printed : q[1] = pos[1] => Before(pos, q)
LaidOut ==
    /\ \A p \in DOMAIN pages : pages[p] # <<>> => IsFooter(pages[p][Len(pages[p])])
    /\ \A pos \in Positions : pos[2] \in DOMAIN pages[pos[1]] =>
         /\ At(pos).is = "move" => LaidOutMove(At(pos))
         /\ At(pos).is = "line" => ~At(pos).date
         /\ At(pos).is = "furniture" => LaidOutFurniture(pos)

(* Why these hold.  The pending row comes after the built ones, and the    *)
(* last flush leaves none pending.                                         *)
PendingLast ==
    /\ pending # Nobody => \A k \in DOMAIN transactions : Before(transactions[k].head, pending)
    /\ pc \notin {"walk", "bad_row"} => pending = Nobody
    /\ pc = "start" => page = 1 /\ row = 1 /\ transactions = <<>>

(* Every transaction has the lines it owns so far, no transaction row or   *)
(* furniture has followed the pending one, and one has followed the others.*)
Ends(r) == IsChrome(r) \/ IsTx(r)

TailsSoFar ==
    /\ pending # Nobody =>
         /\ Collected(pending, tail)
         /\ \A q \in Positions : Passed(q) /\ Before(pending, q) => ~Ends(At(q))
    /\ \A k \in DOMAIN transactions : Collected(transactions[k].head, transactions[k].tail)
    /\ pc = "walk" => \A k \in DOMAIN transactions :
         \E q \in Positions : Passed(q) /\ Before(transactions[k].head, q) /\ Ends(At(q))
=============================================================================
