------------------------------- MODULE Redact -------------------------------
(***************************************************************************)
(* bankstract/redactors: what the header pass and the body pass of each    *)
(* bank leave of a page's rows.  Both passes read the page as it was and   *)
(* the marked boxes go at the end, so a row loses what either has marked.  *)
(*                                                                         *)
(* Rows are those of WalkRows and OpayRows; of a row only the description  *)
(* column (`narr`) and what stands right of it matter, as references keep  *)
(* their shape and the sweeps for phone numbers replace a word by one of   *)
(* the same kind.                                                          *)
(***************************************************************************)
EXTENDS Integers, Sequences, FiniteSets

WordsOf(r) == r.words \cup r.narr
Blanked(r) == [r EXCEPT !.narr = {}]

(* A box from the label to the right margin.                               *)
RightErased(r) == [r EXCEPT !.narr = {}, !.amount = "none"]

(* The rows below the first one that holds the words, or all of them.      *)
Below(rows, words) ==
    LET anchors == {k \in DOMAIN rows : words \subseteq WordsOf(rows[k])}
    IN  {k \in DOMAIN rows : anchors = {} \/ \E m \in anchors : m < k}

(* search_for finds a label anywhere on the page.                          *)
Labelled(rows, words) == {k \in DOMAIN rows : words \cap WordsOf(rows[k]) # {}}
Under(ks, n) == UNION {(k + 1)..(k + n) : k \in ks}

-----------------------------------------------------------------------------
AddressLines == 3

FbnHeader(rows) ==
    LET dear == Labelled(rows, {"Dear"})
        lines == Labelled(rows, {"Account Name:", "Generated By"})
    IN  dear \cup lines \cup Under(dear, AddressLines)

(* Mutation: the detail column has no right end.                           *)
FbnDetailOpen(r) == RightErased(r)

(* Every word of the detail column, on every page.                         *)
FbnDetail(r) == Blanked(r)

FbnPage(rows) ==
    [k \in DOMAIN rows |-> IF k \in FbnHeader(rows) THEN RightErased(rows[k]) ELSE FbnDetail(rows[k])]

(* The boilerplate above the column header stays: detect() reads it.  The  *)
(* boxes of the name and the address end at half the page, the one of the  *)
(* account number does not.                                                *)
ZenithPage(rows) ==
    LET name == Labelled(rows, {"ACCOUNT NAME:"})
        number == Labelled(rows, {"ACCOUNT No.:"})
        body == Below(rows, {"DATE", "DESCRIPTION"})
    IN  [k \in DOMAIN rows |->
            CASE k \in number -> RightErased(rows[k])
              [] k \notin number /\ k \in name \cup Under(name, AddressLines) \cup body
                   -> Blanked(rows[k])
              [] OTHER -> rows[k]]

-----------------------------------------------------------------------------
(* NARRATION_PHRASES, ANCHOR_PHRASES and HEADER_CHROME, one word of each.  *)
Phrases == {"Stamp"}
Anchors == {"Send"}
ChromeWords == {"Page", "Total"}

(* A known phrase stays whole; of the others what follows an anchor goes,  *)
(* or everything.                                                          *)
PalmPayTx(r) ==
    IF r.narr # {} /\ r.narr \subseteq Phrases THEN r
    ELSE [r EXCEPT !.narr = @ \cap Anchors]

(* _narration_span: only a row whose amount is right of its date has one.  *)
PalmPayRow(r) ==
    IF r.date /\ r.amount = "right" THEN PalmPayTx(r)
    ELSE [r EXCEPT !.narr = @ \cap ChromeWords]

PalmPayPage(rows) ==
    LET labels == Labelled(rows, {"Name", "Address"})
        wrapped == Under(Labelled(rows, {"Address"}), 1)
    IN
    [k \in DOMAIN rows |-> IF k \in labels \cup wrapped THEN RightErased(rows[k]) ELSE PalmPayRow(rows[k])]

RedactedWalk(bank, rows) ==
    CASE bank = "fbn" -> FbnPage(rows)
      [] bank = "zenith" -> ZenithPage(rows)
      [] bank = "palmpay" -> PalmPayPage(rows)

-----------------------------------------------------------------------------
(* Words and references of DESC_ZONE; dates, amounts and "--" stay.        *)
DescZone(r) == Blanked(r)

(* Mutation: the column header in the middle of a later page is taken for  *)
(* the one of page 1.                                                      *)
OpayBodyAnyPage(p, rows) == Below(rows, {"Trans."})

(* Only page 1 has rows above the body.                                    *)
OpayBody(p, rows) == IF p = 1 THEN Below(rows, {"Trans."}) ELSE DOMAIN rows

(* The line under the label holds name, number and address; the one with   *)
(* the time of printing has nothing a parser reads.                        *)
OpayPage(p, rows) ==
    LET label == {k \in DOMAIN rows : {"Account", "Name"} \subseteq WordsOf(rows[k])} IN
    [k \in DOMAIN rows |->
        IF k \in Under(label, 1)
        THEN [rows[k] EXCEPT !.words = {}, !.narr = {}, !.date = "none", !.balance = FALSE]
        ELSE IF k \in OpayBody(p, rows) THEN DescZone(rows[k]) ELSE rows[k]]

(* A sheet, from row 8 to the first blank date cell.                       *)
OpaySheet(rows) ==
    [k \in DOMAIN rows |->
        IF k >= 8 /\ \A m \in 8..k : rows[m].date # "none" THEN Blanked(rows[k]) ELSE rows[k]]
=============================================================================
