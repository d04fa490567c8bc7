----------------------------- MODULE MCInspect -----------------------------
(***************************************************************************)
(* Files for inspect: every way a call can start and a file can fail, rows *)
(* over all short sequences of days, one page of all short drawings, and   *)
(* files of several plain, dense, unreadable and oversized pages.          *)
(***************************************************************************)
EXTENDS Inspect

CONSTANTS
    MaxRows,         \* bound on the rows of a statement
    MaxCommands,     \* bound on the commands of a drawing
    MaxPages,        \* bound on the pages of a file
    Failures         \* how a file may fail to open

Box(a, b) == [from |-> a, to |-> b]
Run(glyphs) == [glyphs |-> glyphs, finite |-> TRUE]
Text(runs) == [op |-> "text", runs |-> runs]
Cover(box, opacity) == [op |-> "fill", box |-> box, opacity |-> opacity, finite |-> TRUE]
Page(commands) == [oversized |-> FALSE, commands |-> commands]

Wide == Run(<<Box(0, 3)>>)
Narrow == Run(<<Box(4, 5)>>)
Amount == Run(<<Box(0, 1), Box(2, 5)>>)
NotANumber == [glyphs |-> <<Box(0, 3)>>, finite |-> FALSE]

PlainFile ==
    [supplied |-> FALSE, agrees |-> TRUE, parse |-> "ok", bank |-> TRUE, breakRow |-> 0,
     days |-> <<1, 1>>, period |-> <<>>, format |-> "pdf", failure |-> "none",
     marks |-> {}, pages |-> <<Page(<<Text(<<Wide>>)>>)>>]

(* A failed open says nothing of the parse: another library parsed, or the *)
(* result was given.                                                       *)
Calls ==
    {[PlainFile EXCEPT !.supplied = s, !.agrees = a, !.parse = p, !.bank = b, !.breakRow = r,
                       !.format = f, !.failure = x, !.marks = m] :
        s \in BOOLEAN, a \in BOOLEAN, p \in {"ok", "rejected", "encrypted"}, b \in BOOLEAN,
        r \in {0, 2}, f \in {"pdf", "xlsx"}, x \in {"none"} \cup Failures,
        m \in {{}, {"unexpected_producer"}, {"incremental_update", "id_changed"}}}

Statements ==
    {[PlainFile EXCEPT !.days = d, !.period = p] :
        d \in UNION {[1..n -> 1..3] : n \in 1..MaxRows}, p \in {<<>>, <<1, 3>>, <<2, 2>>}}

Drawn == {Text(<<Wide>>), Text(<<Amount>>), Text(<<Wide, Narrow>>), Text(<<Run(<<>>)>>),
          Text(<<NotANumber>>)}
         \cup {Cover(b, 100) : b \in {Box(0, 1), Box(1, 2), Box(2, 4), Box(1, 1)}}
         \cup {Cover(Box(0, 5), o) : o \in {0, Opaque - 1, Opaque}}
         \cup {[Cover(Box(0, 5), 100) EXCEPT !.finite = FALSE]}
Drawings ==
    {[PlainFile EXCEPT !.pages = <<Page(d)>>] :
        d \in UNION {[1..n -> Drawn] : n \in 1..MaxCommands}}

PageKinds ==
    {Page(<<Text(<<Wide>>)>>),
     Page(<<Text(<<Wide>>), Cover(Box(0, 5), 100)>>),
     Page(<<Text(<<Wide>>), Text(<<Narrow>>), Cover(Box(4, 5), 100), Cover(Box(0, 1), 100)>>),
     Page(<<Text(<<Narrow>>), Text(<<Narrow>>), Text(<<Narrow>>), Text(<<Narrow>>)>>),
     Page(<<Text(<<Narrow>>), Cover(Box(5, 6), 100), Cover(Box(5, 6), 100),
            Cover(Box(4, 5), 100), Cover(Box(5, 6), 100)>>),
     [oversized |-> TRUE, commands |-> <<Text(<<Wide>>), Cover(Box(0, 5), 100)>>]}
Files == {[PlainFile EXCEPT !.pages = p] : p \in UNION {[1..n -> PageKinds] : n \in 2..MaxPages}}

MCInit == source \in Calls \cup Statements \cup Drawings \cup Files /\ Init
MCSpec == MCInit /\ [][Next]_vars
=============================================================================
