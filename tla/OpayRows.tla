------------------------------ MODULE OpayRows ------------------------------
(***************************************************************************)
(* bankstract/parsers/opay.py parse(): the pages of the PDF statement, of  *)
(* which only the first section is read, and the rows of the workbook.     *)
(* A narration line is printed above or below its transaction row and goes *)
(* to the closest one on the page.                                         *)
(***************************************************************************)
EXTENDS Integers, Sequences, FiniteSets

Stamps == {"none", "stamp", "other"}     \* the date column: empty, parseable, or neither
Words == {"x", "Trans.", "Savings", "Account", "Name"}

(* `is` and `owner` are the truth the parser cannot see: `owner` is the    *)
(* place on the page of the movement a line belongs to.  `narr` is what    *)
(* the description column holds, `words` what else the row holds, `ref`    *)
(* that the reference column has a reference; `sound` that strptime and    *)
(* Decimal take the row's values.                                          *)
Rows == [is : {"move", "line", "furniture", "saving"}, owner : Nat, top : Int,
         words : SUBSET Words, narr : SUBSET Words, ref : BOOLEAN,
         date : Stamps, balance : BOOLEAN, sound : BOOLEAN, debit : Nat, credit : Nat]

VARIABLES
    format,          \* what sniff_format says, never written
    sheet,           \* a workbook has WALLET_SHEET, never written
    pages,           \* rows by page; a workbook's sheet is one, never written
    page, row,       \* the loops
    transactions,    \* [head, lines]
    walked,          \* walk_page events fired
    pc

vars == <<format, sheet, pages, page, row, transactions, walked, pc>>
input == <<format, sheet, pages>>

HeaderRows == 7      \* rows[7:], fixed in the code

Init ==
    /\ format \in {"pdf", "xlsx", "unknown"} /\ sheet \in BOOLEAN
    /\ pages \in Seq(Seq(Rows)) /\ (format = "xlsx" => Len(pages) = 1)
    /\ page = 1 /\ row = HeaderRows + 1
    /\ transactions = <<>> /\ walked = 0 /\ pc = "start"

(* OPayParser.parse: a file that is neither raises ParseError.             *)
Dispatch ==
    /\ pc = "start"
    /\ pc' = IF format = "unknown" THEN "unknown_format"
             ELSE IF format = "pdf" THEN (IF pages = <<>> THEN "empty_pdf" ELSE "walk")
             ELSE IF ~sheet \/ Len(pages[1]) < HeaderRows + 1 THEN "drift"
             ELSE "sheet"
    /\ UNCHANGED <<input, page, row, transactions, walked>>

-----------------------------------------------------------------------------
(* _process_page.                                                          *)
WordsOf(r) == r.words \cup r.narr
First(S) == CHOOSE k \in S : \A m \in S : k <= m

(* Page 1 starts below the column header; with none it has no rows.        *)
Anchors(p) == {k \in DOMAIN pages[p] : "Trans." \in WordsOf(pages[p][k])}
FirstRow(p) ==
    IF p > 1 THEN 1
    ELSE IF Anchors(p) = {} THEN Len(pages[p]) + 1 ELSE First(Anchors(p)) + 1

(* The row that names the second section: both words, wherever they stand. *)
Boundaries(p) ==
    {k \in FirstRow(p)..Len(pages[p]) : {"Savings", "Account"} \subseteq WordsOf(pages[p][k])}
HitsSectionEnd(p) == Boundaries(p) # {}
LastRow(p) == IF HitsSectionEnd(p) THEN First(Boundaries(p)) - 1 ELSE Len(pages[p])

IsTxRow(r) == r.date = "stamp" /\ r.balance
TxRows(p) == {k \in FirstRow(p)..LastRow(p) : IsTxRow(pages[p][k])}
Lines(p) == {k \in FirstRow(p)..LastRow(p) : ~IsTxRow(pages[p][k]) /\ (pages[p][k].narr # {} \/ pages[p][k].ref)}

Distance(p, k, m) ==
    LET d == pages[p][k].top - pages[p][m].top IN IF d >= 0 THEN d ELSE -d

(* Mutation: a line goes to the transaction above it, as walk_rows does.   *)
LastAbove(p, k) ==
    IF \E m \in TxRows(p) : m < k
    THEN CHOOSE m \in TxRows(p) : m < k /\ \A n \in TxRows(p) : n < k => n <= m
    ELSE First(TxRows(p))

(* min() keeps the first of several at the same distance.                  *)
Closest(p, k) == First({m \in TxRows(p) : \A n \in TxRows(p) : Distance(p, m, k) <= Distance(p, n, k)})

(* The rows of S on page p, from top to bottom.                            *)
Rank(S, k) == Cardinality({m \in S : m <= k})
Places(p, S) == [n \in 1..Cardinality(S) |-> <<p, CHOOSE k \in S : Rank(S, k) = n>>]
Booked(p) ==
    LET heads == Places(p, TxRows(p))
    IN  [k \in DOMAIN heads |->
            [head |-> heads[k],
             lines |-> Places(p, {m \in Lines(p) : Closest(p, m) = heads[k][2]})]]

-----------------------------------------------------------------------------
(* _parse_pdf.                                                             *)
(* Mutation: the walk goes on after the section's end.                     *)
WalkPageOn ==
    /\ pc = "walk" /\ page <= Len(pages)
    /\ \A k \in TxRows(page) : pages[page][k].sound
    /\ transactions' = transactions \o Booked(page)
    /\ walked' = walked + 1 /\ page' = page + 1
    /\ UNCHANGED <<input, row, pc>>

WalkPage ==
    /\ pc = "walk" /\ page <= Len(pages)
    /\ \A k \in TxRows(page) : pages[page][k].sound
    /\ transactions' = transactions \o Booked(page)
    /\ walked' = walked + 1 /\ page' = page + 1
    /\ pc' = IF HitsSectionEnd(page) THEN "built" ELSE "walk"
    /\ UNCHANGED <<input, row>>

(* strptime raised; nothing of the pages before is kept.                   *)
PageFails ==
    /\ pc = "walk" /\ page <= Len(pages)
    /\ \E k \in TxRows(page) : ~pages[page][k].sound
    /\ pc' = "bad_row"
    /\ UNCHANGED <<input, page, row, transactions, walked>>

EndWalk ==
    /\ pc = "walk" /\ page > Len(pages)
    /\ pc' = "built"
    /\ UNCHANGED <<input, page, row, transactions, walked>>

(* _parse_xlsx, the loop over rows[7:].                                    *)
Cell == pages[1][row]
InSheet == pc = "sheet" /\ row <= Len(pages[1])

BlankRow ==
    /\ InSheet /\ Cell.date = "none"
    /\ row' = row + 1
    /\ UNCHANGED <<input, page, transactions, walked, pc>>

SheetRow ==
    /\ InSheet /\ Cell.date = "stamp" /\ Cell.sound
    /\ transactions' = Append(transactions, [head |-> <<1, row>>, lines |-> <<>>])
    /\ row' = row + 1
    /\ UNCHANGED <<input, page, walked, pc>>

SheetRowFails ==
    /\ InSheet /\ Cell.date = "stamp" /\ ~Cell.sound
    /\ pc' = "bad_row"
    /\ UNCHANGED <<input, page, row, transactions, walked>>

(* "End-of-sheet sentinel or unrecognised row": break.                     *)
SheetStops ==
    /\ \/ InSheet /\ Cell.date = "other"
       \/ pc = "sheet" /\ row > Len(pages[1])
    /\ pc' = "sheet_read"
    /\ UNCHANGED <<input, page, row, transactions, walked>>

(* Mutation: the sheet fires no event, the bar never moves.                *)
SheetReadUnseen ==
    /\ pc = "sheet_read"
    /\ pc' = "built"
    /\ UNCHANGED <<input, page, row, transactions, walked>>

(* One walk_page for the whole sheet.                                      *)
SheetRead ==
    /\ pc = "sheet_read"
    /\ walked' = 1 /\ pc' = "built"
    /\ UNCHANGED <<input, page, row, transactions>>

(* Both formats: no transaction is EmptyStatementError.                    *)
Conclude ==
    /\ pc = "built"
    /\ pc' = IF transactions = <<>> THEN "no_transactions" ELSE "result"
    /\ UNCHANGED <<input, page, row, transactions, walked>>

Ends == {"unknown_format", "empty_pdf", "drift", "bad_row", "no_transactions", "result"}
Over == pc \in Ends /\ UNCHANGED vars

Next == \/ Dispatch \/ WalkPage \/ PageFails \/ EndWalk
        \/ BlankRow \/ SheetRow \/ SheetRowFails \/ SheetStops \/ SheetRead
        \/ Conclude \/ Over

Spec == Init /\ [][Next]_vars

-----------------------------------------------------------------------------
At(pos) == pages[pos[1]][pos[2]]
Positions == {<<p, k>> : p \in DOMAIN pages, k \in UNION {DOMAIN pages[q] : q \in DOMAIN pages}}
IsPlace(pos) == pos[1] \in DOMAIN pages /\ pos[2] \in DOMAIN pages[pos[1]]
Before(a, b) == a[1] < b[1] \/ (a[1] = b[1] /\ a[2] < b[2])
Heads == {transactions[k].head : k \in DOMAIN transactions}
OfKind(kind) == {pos \in Positions : IsPlace(pos) /\ At(pos).is = kind}
Titles == {pos \in Positions : IsPlace(pos) /\ pos[2] \in Boundaries(pos[1])}

TypeOK ==
    /\ pc \in Ends \cup {"start", "walk", "sheet", "sheet_read", "built"}
    /\ page \in 1..(Len(pages) + 1) /\ walked \in 0..Len(pages)
    /\ row \in Nat \ {0}
    /\ \A k \in DOMAIN transactions :
         /\ IsPlace(transactions[k].head)
         /\ \A m \in DOMAIN transactions[k].lines : IsPlace(transactions[k].lines[m])
    /\ pc = "result" => walked >= 1 /\ transactions # <<>>

(* Nothing but the first section is booked, on the page where the second   *)
(* begins and on all that follow ("We only parse the first section"); each *)
(* row once, in the order of print.                                        *)
FirstSectionOnly ==
    /\ \A k \in DOMAIN transactions : At(transactions[k].head).is = "move"
    /\ \A j, k \in DOMAIN transactions :
         j < k => Before(transactions[j].head, transactions[k].head)

(* The statement reads as it was printed: the anchor is found, no row of a *)
(* movement or its lines holds both words of the section title, and every  *)
(* stamped row of a sheet comes before the first it does not know.         *)
ReadsAsPrinted ==
    /\ format = "pdf" => /\ Anchors(1) # {}
                         /\ \A pos \in OfKind("move") \cup OfKind("line") : pos \notin Titles
    /\ format = "xlsx" => \A pos \in OfKind("move") : \A k \in 1..pos[2] : pages[1][k].date # "other"

(* Every movement of the first section is booked, whatever single words    *)
(* its narration holds and however many blank rows stand in a sheet; and a *)
(* narration line joins the movement it was printed with, above or below,  *)
(* and only that one ("would mis-attach the pre-row to the previous tx").  *)
BookedAsPrinted ==
    pc = "result" /\ ReadsAsPrinted =>
        /\ Heads = OfKind("move")
        /\ format = "pdf" => \A k \in DOMAIN transactions :
             LET t == transactions[k] IN
             {t.lines[m] : m \in DOMAIN t.lines}
               = {pos \in OfKind("line") : pos[1] = t.head[1] /\ At(pos).owner = At(t.head).owner}

(* How the bank lays a statement out, the hypothesis of the proofs: below  *)
(* the anchor stand movements, each with its lines closer to it than to    *)
(* any other, and nothing else that is stamped or holds a narration; then  *)
(* a title and the savings.  In a sheet the movements have a date.         *)
OwnLine(pos, m) ==
    /\ pos[1] = m[1] /\ At(pos).owner = At(m).owner
    /\ \A n \in OfKind("move") : n[1] = m[1] /\ n # m =>
         Distance(m[1], m[2], pos[2]) < Distance(m[1], n[2], pos[2])
LaidOutPdf ==
    /\ \A pos \in OfKind("move") : IsTxRow(At(pos)) /\ pos[2] >= FirstRow(pos[1])
    /\ \A m, n \in OfKind("move") : m[1] = n[1] /\ At(m).owner = At(n).owner => m = n
    /\ \A pos \in OfKind("line") :
         /\ ~IsTxRow(At(pos)) /\ At(pos).narr # {} /\ pos[2] >= FirstRow(pos[1])
         /\ \E m \in OfKind("move") : OwnLine(pos, m)
    /\ \A pos \in OfKind("furniture") \cup OfKind("saving") :
         \/ pos[2] < FirstRow(pos[1])
         \/ ~IsTxRow(At(pos)) /\ At(pos).narr = {} /\ ~At(pos).ref
         \/ \E t \in Titles : t = pos \/ Before(t, pos)
    /\ \A t \in Titles \cap (OfKind("furniture") \cup OfKind("saving")) :
         \A pos \in OfKind("move") \cup OfKind("line") : Before(pos, t)
LaidOutSheet ==
    /\ \A pos \in OfKind("move") : pos[2] > HeaderRows /\ At(pos).date # "none"
    /\ \A pos \in Positions : IsPlace(pos) /\ pos[2] > HeaderRows /\ At(pos).date = "stamp" =>
         At(pos).is = "move"
LaidOut == (format = "pdf" => LaidOutPdf) /\ (format = "xlsx" => LaidOutSheet)
=============================================================================
