----------------------------- MODULE MCWalkRows -----------------------------
(***************************************************************************)
(* Statements in the layouts of fbn, zenith and palmpay: a page is header  *)
(* lines, movements with their narration lines, and a footer.  Only the    *)
(* footer and the column header are sure to hold a furniture word; the     *)
(* other header lines (a name, an address) look like narration.            *)
(***************************************************************************)
EXTENDS Statement
LOCAL INSTANCE SequencesExt

CONSTANTS
    Banks,           \* the banks a run is about
    MaxPages,        \* bound on the pages
    MaxBody          \* bound on the rows of one page that are not furniture

Line(narr) == [is |-> "line", lead |-> "x", words |-> {}, narr |-> narr,
               date |-> FALSE, amount |-> "none", units |-> 2, sound |-> TRUE]
Furniture(words, lead) == [Line({"x"}) EXCEPT !.is = "furniture", !.words = words, !.lead = lead]
Move(narr) == [Line(narr) EXCEPT !.is = "move", !.date = TRUE, !.amount = "right"]
Out(r) == [r EXCEPT !.words = {"out"}]
Small(r) == [r EXCEPT !.units = 1]

(* The opening balance row of a dated summary would pass for a movement.   *)
OpeningRow == [Furniture({"Opening", "Balance"}, "Opening") EXCEPT !.date = TRUE, !.amount = "right"]
AddressLine == Furniture({}, "x")
Footer == Furniture({"Page"}, "Page")
Tops ==
    CASE bank = "fbn" ->
            {<<AddressLine>>, <<OpeningRow>>, <<AddressLine, Furniture({"Trans"}, "Trans")>>,
             <<Furniture({"Dear"}, "Dear"), AddressLine, AddressLine, AddressLine>>}
      [] bank = "zenith" ->
            {<<AddressLine>>, <<OpeningRow>>,
             <<AddressLine, Furniture({"DATE", "DESCRIPTION"}, "DATE")>>}
      [] bank = "palmpay" ->
            {<<>>, <<AddressLine, [Furniture({"Total"}, "Total") EXCEPT !.amount = "right"]>>,
             <<Furniture({"Name"}, "Name")>>}

Ordinary == {Move({"x"}), Out(Move({"x"})), Line({"x"})}

(* "CAPITALIZED INTEREST CREDIT", "BALANCE B/F OPENING" and the like; a    *)
(* label of the page header; a row whose amount moved left of its date; a  *)
(* date that is none.  A statement holds one of them.  Those that are lost *)
(* move more than the tolerance or, if Small, no more than that.           *)
Odd ==
    {Line({}), [Move({"x"}) EXCEPT !.sound = FALSE]}
    \cup CASE bank = "fbn" -> {Move({"x", "CREDIT"}), Move({"x", "Opening"}), Out(Small(Move({"x", "Opening"}))),
                                Move({"x", "Dear"})}
           [] bank = "zenith" -> {Move({"x", "CREDIT"}), Move({"x", "TOTALS"}), Small(Move({"x", "TOTALS"}))}
           [] bank = "palmpay" -> {Move({"Stamp"}), Move({"x", "Send"}), Move({"x", "Name"}),
                                   [Out(Move({"x"})) EXCEPT !.amount = "left"],
                                   [Small(Move({"x"})) EXCEPT !.amount = "left"],
                                   [Line({"x"}) EXCEPT !.amount = "right"]}

Bodies(n) ==
    LET plain == [1..n -> BoundedSeq(Ordinary, MaxBody)] IN
    plain \cup UNION {{[b EXCEPT ![p][k] = r] : k \in DOMAIN b[p], r \in Odd} : b \in plain, p \in 1..n}

MCInit ==
    /\ bank \in Banks /\ header \in IF bank = "zenith" THEN {FALSE} ELSE BOOLEAN
    /\ \E n \in 0..MaxPages : \E tops \in [1..n -> Tops] : \E bodies \in Bodies(n) :
         pages = [p \in 1..n |-> tops[p] \o bodies[p] \o <<Footer>>]
    /\ page = 1 /\ row = 1 /\ pending = Nobody /\ tail = <<>>
    /\ transactions = <<>> /\ walked = 0 /\ pc = "start"
    /\ ChecksIdle
MCSpec == MCInit /\ [][StatementNext]_all
=============================================================================
