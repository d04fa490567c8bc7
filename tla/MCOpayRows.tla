----------------------------- MODULE MCOpayRows -----------------------------
(***************************************************************************)
(* OPay statements as the bank prints them: a summary and the column       *)
(* header on page 1, blocks of a transaction row with a narration line     *)
(* above and below it, the savings section, which may go on for pages; and *)
(* workbooks with blank rows and a row the parser does not know.           *)
(***************************************************************************)
EXTENDS OpayStatement

CONSTANTS
    MaxBlocks,       \* bound on the movements of a page
    MaxWallet,       \* bound on the pages of the first section
    MaxSheetRows,    \* bound on the rows of a sheet below its header
    Anchored         \* whether the word Trans. of the column header is read

LOCAL INSTANCE SequencesExt

Blank == [is |-> "furniture", owner |-> 0, top |-> 0, words |-> {}, narr |-> {}, ref |-> FALSE,
          date |-> "none", balance |-> FALSE, sound |-> TRUE, debit |-> 0, credit |-> 0]
Summary == <<[Blank EXCEPT !.words = {"Account", "Name"}], [Blank EXCEPT !.narr = {"x"}]>>
ColumnHeader == [Blank EXCEPT !.words = {"Trans."}, !.narr = {"x"}]
SectionTitle == [Blank EXCEPT !.words = {"Savings", "Account"}, !.narr = {"x"}]
Move == [Blank EXCEPT !.is = "move", !.date = "stamp", !.balance = TRUE, !.narr = {"x"}, !.ref = TRUE]
Saving == [Move EXCEPT !.is = "saving", !.debit = 2]

(* Blocks stand five units apart, a line two units from its row.           *)
Pitch == 5
Plain == [above |-> FALSE, below |-> FALSE, words |-> {}, on |-> "row", sound |-> TRUE,
          debit |-> 2, credit |-> 0]
Blocks == {[Plain EXCEPT !.above = a, !.below = b] : a, b \in BOOLEAN}
          \cup {[Plain EXCEPT !.debit = 0, !.credit = 2],
                [Plain EXCEPT !.above = TRUE, !.below = TRUE, !.words = {"Account"}, !.on = "line"],
                [Plain EXCEPT !.below = TRUE, !.words = {"Savings", "Account"}, !.on = "line"],
                [Plain EXCEPT !.words = {"Savings", "Account"}, !.debit = 1],
                [Plain EXCEPT !.sound = FALSE]}

Line(owner, top, words) ==
    [Blank EXCEPT !.is = "line", !.owner = owner, !.top = top, !.narr = {"x"} \cup words]
Printed(b, n) ==
    (IF b.above THEN <<Line(n, Pitch * n - 2, {})>> ELSE <<>>)
    \o <<[Move EXCEPT !.owner = n, !.top = Pitch * n, !.sound = b.sound, !.debit = b.debit,
                      !.credit = b.credit, !.narr = {"x"} \cup IF b.on = "row" THEN b.words ELSE {}]>>
    \o (IF b.below THEN <<Line(n, Pitch * n + 2, IF b.on = "line" THEN b.words ELSE {})>> ELSE <<>>)
Body(blocks) == FlattenSeq([n \in DOMAIN blocks |-> Printed(blocks[n], n)])
Savings(n, columns) == <<SectionTitle, columns>> \o [k \in 1..n |-> Saving]

Bodies == {Body(b) : b \in UNION {[1..n -> Blocks] : n \in 0..MaxBlocks}}

(* The column header stands on page 1 and again above the second section.  *)
(* `anchor`: it is read as the word the parser looks for.                  *)
Statements ==
    {LET columns == IF anchor THEN ColumnHeader ELSE Blank IN
     [n \in 1..(Len(w) + more) |->
        (IF n = 1 THEN Append(Summary, columns) ELSE <<>>)
        \o (IF n <= Len(w) THEN w[n] ELSE [k \in 1..2 |-> Saving])
        \o (IF n = Len(w) /\ (title \/ more > 0) THEN Savings(1, columns) ELSE <<>>)] :
        w \in UNION {[1..n -> Bodies] : n \in 1..MaxWallet}, more \in 0..1,
        anchor \in Anchored, title \in BOOLEAN}

SheetRows == {Move, [Move EXCEPT !.debit = 2], [Move EXCEPT !.sound = FALSE], Blank,
              [Blank EXCEPT !.date = "other"], [Move EXCEPT !.date = "other", !.debit = 1]}
Sheets == {<<[k \in 1..HeaderRows |-> Blank] \o s>> :
              s \in UNION {[1..n -> SheetRows] : n \in 0..MaxSheetRows}}

(* Any header of one page, both totals of more.                            *)
MCInit ==
    /\ \/ format = "pdf" /\ sheet = FALSE /\ pages \in Statements \cup {<<>>}
       \/ format = "xlsx" /\ sheet \in BOOLEAN /\ pages \in Sheets
       \/ format = "unknown" /\ sheet = FALSE /\ pages = <<>>
    /\ StatementInit
    /\ Len(pages) = 1 \/ header = {"debit", "credit"}
MCSpec == MCInit /\ [][StatementNext]_all
=============================================================================
