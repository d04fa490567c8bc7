------------------------------ MODULE Inspect ------------------------------
(***************************************************************************)
(* bankstract/integrity.py: one call of _inspect, from the parse it starts *)
(* with to the ordered report, and pdf_forensics of _pymupdf.py, which     *)
(* reads the pages for it.                                                 *)
(*                                                                         *)
(* A page is the sequence of its drawing commands; the position of one is  *)
(* its seqno.  Boxes are intervals of one line: what counts is how much of *)
(* a glyph a later fill takes.  A text command may print several runs.     *)
(***************************************************************************)
EXTENDS Integers, Sequences, FiniteSets

CONSTANTS
    MaxPageObjects,  \* _MAX_PAGE_OBJECTS
    OverlayBudget,   \* _OVERLAY_BUDGET
    Opaque,          \* _OPAQUE, in percent
    CoverNum, CoverDen   \* _COVER_RATIO as a fraction

ASSUME InspectAssumption ==
    /\ MaxPageObjects \in Nat /\ OverlayBudget \in Nat /\ Opaque \in 1..100
    /\ CoverNum \in Nat \ {0} /\ CoverDen \in Nat \ {0}

Codes == {"unparseable", "checks_skipped", "reconciliation_failed", "incremental_update",
          "modified_after_create", "unexpected_producer", "unexpected_font", "id_changed",
          "overlay_over_text", "date_out_of_order", "date_outside_period"}

(* `text` is the seqno of the run that `detail` quotes; 0 stands for None. *)
Signals == [code : Codes, page : Nat, row : Nat, text : Nat]
Signal(code, page, row, text) == [code |-> code, page |-> page, row |-> row, text |-> text]

Severity(code) ==
    IF code \in {"unparseable", "reconciliation_failed", "incremental_update",
                 "overlay_over_text"} THEN "error" ELSE "warn"

VARIABLES
    source,          \* the call and what is in the file, never written
    pc,              \* the check under way, or how the call ended
    guarded,         \* _file runs inside _file_checked
    i, direction,    \* the loop over the days
    page,            \* the loop over the pages
    left,            \* pairs of a fill and a run the page has yet to compare
    spans, fills, unreadable, oversized,    \* PdfForensics
    seen, covered, spent, skipped,          \* locals of _overlays
    signals,
    work, compared   \* history: comparisons made, and of what with what

vars == <<source, pc, guarded, i, direction, page, left, spans, fills, unreadable,
          oversized, seen, covered, spent, skipped, signals, work, compared>>

rowLoop == <<i, direction>>
forensics == <<spans, fills, unreadable, oversized>>
overlay == <<left, seen, covered, spent, skipped, work, compared>>

-----------------------------------------------------------------------------
(* The call and the file as the libraries find it.                         *)
Boxes == [from : Int, to : Int]
TextRuns == [glyphs : Seq(Boxes), finite : BOOLEAN]
DrawCommands == [op : {"text"}, runs : Seq(TextRuns)]
                \cup [op : {"fill"}, box : Boxes, opacity : 0..100, finite : BOOLEAN]
Marks == {"incremental_update", "modified_after_create", "unexpected_producer",
          "id_changed", "unexpected_font"}
Sources == [supplied : BOOLEAN, agrees : BOOLEAN, parse : {"ok", "rejected", "encrypted"},
            bank : BOOLEAN, breakRow : Nat, days : Seq(Int), period : {<<>>} \cup (Int \X Int),
            format : {"pdf", "xlsx"}, failure : {"none", "expected", "other"},
            marks : SUBSET Marks,
            pages : Seq([oversized : BOOLEAN, commands : Seq(DrawCommands)])]

Init ==
    /\ source \in Sources
    /\ pc = "start" /\ guarded = FALSE
    /\ i = 2 /\ direction = 0
    /\ page = 1 /\ left = {}
    /\ spans = {} /\ fills = {} /\ unreadable = 0 /\ oversized = {}
    /\ seen = {} /\ covered = <<>> /\ spent = 0 /\ skipped = {}
    /\ signals = <<>> /\ work = 0 /\ compared = {}

Report(s) == signals' = signals \o s

(* `bank` and the bank of the given result differ: ValueError.             *)
Mismatch ==
    /\ pc = "start" /\ source.supplied /\ ~source.agrees
    /\ pc' = "refused"
    /\ UNCHANGED <<source, guarded, rowLoop, page, forensics, overlay, signals>>

ParseEncrypted ==
    /\ pc = "start" /\ ~source.supplied /\ source.parse = "encrypted"
    /\ pc' = "encrypted"
    /\ UNCHANGED <<source, guarded, rowLoop, page, forensics, overlay, signals>>

ParseRejects ==
    /\ pc = "start" /\ ~source.supplied /\ source.parse = "rejected"
    /\ Report(<<Signal("unparseable", 0, 0, 0)>>)
    /\ pc' = "file" /\ guarded' = TRUE
    /\ UNCHANGED <<source, rowLoop, page, forensics, overlay>>

(* A result at hand, given or parsed: _reconciliation comes first.         *)
Reconciliation ==
    /\ pc = "start"
    /\ \/ source.supplied /\ source.agrees
       \/ ~source.supplied /\ source.parse = "ok"
    /\ Report(IF source.breakRow = 0 THEN <<>>
              ELSE <<Signal("reconciliation_failed", 0, source.breakRow, 0)>>)
    /\ pc' = "days"
    /\ UNCHANGED <<source, guarded, rowLoop, page, forensics, overlay>>

(* _rows.                                                                  *)
Step(k) == IF source.days[k] > source.days[k - 1] THEN 1
           ELSE IF source.days[k] < source.days[k - 1] THEN -1 ELSE 0

(* Mutation: every step sets the direction, one of no day clears it.       *)
DayStepForgets ==
    /\ pc = "days" /\ i <= Len(source.days)
    /\ IF Step(i) # 0 /\ direction # 0 /\ Step(i) # direction
       THEN Report(<<Signal("date_out_of_order", 0, i, 0)>>) /\ pc' = "period"
       ELSE UNCHANGED <<signals, pc>>
    /\ direction' = Step(i)
    /\ i' = i + 1
    /\ UNCHANGED <<source, guarded, page, forensics, overlay>>

DayStep ==
    /\ pc = "days" /\ i <= Len(source.days)
    /\ IF Step(i) # 0 /\ direction # 0 /\ Step(i) # direction
       THEN Report(<<Signal("date_out_of_order", 0, i, 0)>>) /\ pc' = "period"
       ELSE UNCHANGED <<signals, pc>>
    /\ direction' = IF direction = 0 THEN Step(i) ELSE direction
    /\ i' = i + 1
    /\ UNCHANGED <<source, guarded, page, forensics, overlay>>

DaysDone ==
    /\ pc = "days" /\ i > Len(source.days)
    /\ pc' = "period"
    /\ UNCHANGED <<source, guarded, rowLoop, page, forensics, overlay, signals>>

(* Rows outside the statement period, when the metadata holds both ends.   *)
Outside ==
    IF source.period = <<>> THEN {}
    ELSE {k \in DOMAIN source.days : source.days[k] \notin source.period[1]..source.period[2]}

Period ==
    /\ pc = "period"
    /\ \/ Outside = {} /\ UNCHANGED signals
       \/ \E k \in Outside : /\ \A m \in Outside : k <= m
                             /\ Report(<<Signal("date_outside_period", 0, k, 0)>>)
    /\ pc' = "file"
    /\ UNCHANGED <<source, guarded, rowLoop, page, forensics, overlay>>

-----------------------------------------------------------------------------
(* _file and _xlsx_signals.  A bank with no baseline has none to compare.  *)
XlsxFile ==
    /\ pc = "file" /\ source.format = "xlsx" /\ source.failure = "none"
    /\ Report(IF source.bank /\ "unexpected_producer" \in source.marks
              THEN <<Signal("unexpected_producer", 0, 0, 0)>> ELSE <<>>)
    /\ pc' = "order"
    /\ UNCHANGED <<source, guarded, rowLoop, page, forensics, overlay>>

PdfFile ==
    /\ pc = "file" /\ source.format = "pdf"
    /\ pc' = "read" /\ page' = 1
    /\ UNCHANGED <<source, guarded, rowLoop, forensics, overlay, signals>>

(* pdf_forensics, one page: the runs of text, then the fills.              *)
Commands(n) == source.pages[n].commands
Texts(n) == {q \in DOMAIN Commands(n) : Commands(n)[q].op = "text"}
Paths(n) == {q \in DOMAIN Commands(n) : Commands(n)[q].op = "fill"}

Runs(n) == UNION {{[page |-> n, seqno |-> q, index |-> r,
                    glyphs |-> Commands(n)[q].runs[r].glyphs,
                    finite |-> Commands(n)[q].runs[r].finite] :
                   r \in DOMAIN Commands(n)[q].runs} : q \in Texts(n)}

(* `path.get("fill_opacity") or 1.0`: an opacity of zero reads as full.    *)
Opacity(command) == IF command.opacity = 0 THEN 100 ELSE command.opacity

Fills(n) == {[page |-> n, seqno |-> q, box |-> Commands(n)[q].box,
              opacity |-> Opacity(Commands(n)[q]),
              finite |-> Commands(n)[q].finite] : q \in Paths(n)}

(* A run of blanks is no run.                                              *)
Visible(n) == {run \in Runs(n) : run.glyphs # <<>>}

(* Mutation: objects at NaN are kept like others.                          *)
FiniteOrNot(S) == S

Finite(S) == {x \in S : x.finite}

(* A page whose content stream is too large is not extracted.              *)
OversizedPage ==
    /\ pc = "read" /\ page <= Len(source.pages) /\ source.pages[page].oversized
    /\ oversized' = oversized \cup {page} /\ page' = page + 1
    /\ UNCHANGED <<source, pc, guarded, rowLoop, spans, fills, unreadable, overlay, signals>>

ReadPage ==
    /\ pc = "read" /\ page <= Len(source.pages) /\ ~source.pages[page].oversized
    /\ spans' = spans \cup Finite(Visible(page))
    /\ fills' = fills \cup Finite(Fills(page))
    /\ unreadable' = unreadable + Cardinality(Visible(page) \ Finite(Visible(page)))
                                 + Cardinality(Fills(page) \ Finite(Fills(page)))
    /\ page' = page + 1
    /\ UNCHANGED <<source, pc, guarded, rowLoop, oversized, overlay, signals>>

(* Mutation: a failure to open reads as nothing found.                     *)
FileFailsSilently ==
    /\ pc \in {"file", "read"} /\ source.failure # "none"
    /\ pc' = IF source.failure = "expected" THEN "order" ELSE "failed"
    /\ UNCHANGED <<source, guarded, rowLoop, page, forensics, overlay, signals>>

(* The file does not open, or a page of it does not load.  Only            *)
(* _file_checked catches that, and only ValueError and RuntimeError.       *)
FileFails ==
    /\ pc \in {"file", "read"} /\ source.failure # "none"
    /\ IF guarded /\ source.failure = "expected"
       THEN pc' = "order" /\ Report(<<Signal("checks_skipped", 0, 0, 0)>>)
       ELSE pc' = "failed" /\ UNCHANGED signals
    /\ UNCHANGED <<source, guarded, rowLoop, page, forensics, overlay>>

(* _pdf_signals: what the file says of itself, in the order of the checks. *)
Baselined == {"unexpected_producer", "id_changed", "unexpected_font"}
Mark(code) == IF code \in source.marks /\ (code \in Baselined => source.bank)
              THEN <<Signal(code, 0, 0, 0)>> ELSE <<>>

PdfSignals ==
    /\ pc = "read" /\ page > Len(source.pages) /\ source.failure = "none"
    /\ Report(Mark("incremental_update") \o Mark("modified_after_create")
              \o Mark("unexpected_producer") \o Mark("id_changed") \o Mark("unexpected_font"))
    /\ pc' = "triage"
    /\ UNCHANGED <<source, guarded, rowLoop, page, forensics, overlay>>

-----------------------------------------------------------------------------
(* _content_signals and _overlays.                                         *)
Width(b) == IF b.to > b.from THEN b.to - b.from ELSE 0
Overlap(a, b) == Width([from |-> IF a.from >= b.from THEN a.from ELSE b.from,
                        to |-> IF a.to <= b.to THEN a.to ELSE b.to])

IsCover(fill) == fill.opacity >= Opaque /\ Width(fill.box) > 0

OnPage(S, n) == {x \in S : x.page = n}
OffPages(S, pages) == {x \in S : x.page \notin pages}

Covers == {fill \in fills : IsCover(fill)}
Crowded == {n \in DOMAIN source.pages : \/ Cardinality(OnPage(spans, n)) > MaxPageObjects
                                        \/ Cardinality(OnPage(Covers, n)) > MaxPageObjects}

(* Mutation: a crowded page is left out and not reported.                  *)
TriageQuietly ==
    /\ pc = "triage"
    /\ spans' = OffPages(spans, Crowded) /\ fills' = OffPages(Covers, Crowded)
    /\ pc' = "overlay" /\ page' = 1
    /\ UNCHANGED <<source, guarded, rowLoop, unreadable, oversized, overlay, signals>>

Triage ==
    /\ pc = "triage"
    /\ spans' = OffPages(spans, Crowded) /\ fills' = OffPages(Covers, Crowded)
    /\ skipped' = Crowded
    /\ pc' = "overlay" /\ page' = 1
    /\ UNCHANGED <<source, guarded, rowLoop, unreadable, oversized, left, seen, covered, spent,
                   work, compared, signals>>

PageSpans == OnPage(spans, page)
PageFills == OnPage(fills, page)
Cost == Cardinality(PageFills) * Cardinality(PageSpans)

PlainPage ==
    /\ pc = "overlay" /\ page \in DOMAIN source.pages /\ PageFills = {}
    /\ page' = page + 1
    /\ UNCHANGED <<source, pc, guarded, rowLoop, forensics, overlay, signals>>

PageOverBudget ==
    /\ pc = "overlay" /\ page \in DOMAIN source.pages /\ PageFills # {}
    /\ spent + Cost > OverlayBudget
    /\ skipped' = skipped \cup {page} /\ page' = page + 1
    /\ UNCHANGED <<source, pc, guarded, rowLoop, forensics, left, seen, covered, spent,
                   work, compared, signals>>

BeginPage ==
    /\ pc = "overlay" /\ page \in DOMAIN source.pages /\ PageFills # {}
    /\ spent + Cost <= OverlayBudget
    /\ spent' = spent + Cost /\ seen' = {} /\ covered' = <<>>
    /\ left' = PageFills \X PageSpans
    /\ pc' = "compare"
    /\ UNCHANGED <<source, guarded, rowLoop, page, forensics, skipped, work, compared, signals>>

(* The pairs of a page, fill by fill, every run under each.                *)
Earlier(a, b) ==
    \/ a[1].seqno < b[1].seqno
    \/ a[1] = b[1] /\ a[2].seqno < b[2].seqno
    \/ a[1] = b[1] /\ a[2].seqno = b[2].seqno /\ a[2].index < b[2].index

(* The box of the whole run, from some glyph to some other, gaps included: *)
(* a cheap filter.                                                         *)
Touches(fill, span) ==
    \E g, h \in DOMAIN span.glyphs :
        Overlap([from |-> span.glyphs[g].from, to |-> span.glyphs[h].to], fill.box) > 0

(* _hides_a_glyph: what each glyph has lost so far, up to the first that   *)
(* has lost enough.  The key is the seqno and the index of the glyph.      *)
Already(q, g) == IF <<q, g>> \in DOMAIN covered THEN covered[<<q, g>>] ELSE 0

TakenOnce(fill, span, g) == Overlap(span.glyphs[g], fill.box)

Taken(fill, span, g) == Already(span.seqno, g) + Overlap(span.glyphs[g], fill.box)

Inked(span) == {g \in DOMAIN span.glyphs : Width(span.glyphs[g]) > 0}
Enough(lost, glyph) == lost * CoverDen >= CoverNum * Width(glyph)
Gone(fill, span) == {g \in Inked(span) : Enough(Taken(fill, span, g), span.glyphs[g])}

Counted(fill, span) == {g \in Inked(span) : \A h \in Gone(fill, span) : g <= h}
Tally(fill, span) ==
    LET keys == {<<span.seqno, g>> : g \in Counted(fill, span)}
    IN  [k \in DOMAIN covered \cup keys |-> IF k \in keys THEN Taken(fill, span, k[2]) ELSE covered[k]]

Compare(fill, span) ==
    /\ IF span.seqno \in seen \/ span.seqno >= fill.seqno \/ ~Touches(fill, span)
       THEN UNCHANGED <<seen, covered, signals>>
       ELSE /\ covered' = Tally(fill, span)
            /\ IF Gone(fill, span) = {} THEN UNCHANGED <<seen, signals>>
               ELSE /\ seen' = seen \cup {span.seqno}
                    /\ Report(<<Signal("overlay_over_text", page, 0, span.seqno)>>)
    /\ compared' = compared \cup {<<page, span.seqno, fill.seqno>>}

ComparePair ==
    /\ pc = "compare"
    /\ \E next \in left :
         /\ \A other \in left \ {next} : Earlier(next, other)
         /\ Compare(next[1], next[2])
         /\ left' = left \ {next}
    /\ work' = work + 1
    /\ UNCHANGED <<source, pc, guarded, rowLoop, page, forensics, spent, skipped>>

EndPage ==
    /\ pc = "compare" /\ left = {}
    /\ pc' = "overlay" /\ page' = page + 1
    /\ UNCHANGED <<source, guarded, rowLoop, forensics, overlay, signals>>

(* What the size and overlay checks left out, one warning of each kind.    *)
ReportSkipped ==
    /\ pc = "overlay" /\ page \notin DOMAIN source.pages
    /\ LET missing == skipped \cup oversized
           unread == IF unreadable > 0 THEN <<Signal("checks_skipped", 0, 0, 0)>> ELSE <<>>
           pages == IF missing = {} THEN <<>>
                    ELSE <<Signal("checks_skipped", CHOOSE n \in missing : \A m \in missing : n <= m, 0, 0)>>
       IN  Report(unread \o pages)
    /\ pc' = "order"
    /\ UNCHANGED <<source, guarded, rowLoop, page, forensics, overlay>>

(* _ordered: a stable sort, errors first.                                  *)
IsError(s) == Severity(s.code) = "error"
Sooner(j, k) == IF IsError(signals[j]) <=> IsError(signals[k]) THEN j < k ELSE IsError(signals[j])
Order ==
    /\ pc = "order"
    /\ \E sorted \in [DOMAIN signals -> DOMAIN signals] :
         /\ \A k \in DOMAIN signals : \E j \in DOMAIN signals : sorted[j] = k
         /\ \A j, k \in DOMAIN signals : j < k <=> Sooner(sorted[j], sorted[k])
         /\ signals' = [k \in DOMAIN signals |-> signals[sorted[k]]]
    /\ pc' = "reported"
    /\ UNCHANGED <<source, guarded, rowLoop, page, forensics, overlay>>

Over == pc \in {"reported", "refused", "encrypted", "failed"} /\ UNCHANGED vars

Next == \/ Mismatch \/ ParseEncrypted \/ ParseRejects \/ Reconciliation
        \/ DayStep \/ DaysDone \/ Period
        \/ XlsxFile \/ PdfFile \/ OversizedPage \/ ReadPage \/ FileFails \/ PdfSignals
        \/ Triage \/ PlainPage \/ PageOverBudget \/ BeginPage \/ ComparePair \/ EndPage
        \/ ReportSkipped \/ Order \/ Over

Spec == Init /\ [][Next]_vars

-----------------------------------------------------------------------------
TypeOK ==
    /\ pc \in {"start", "days", "period", "file", "read", "triage", "overlay", "compare",
               "order", "reported", "refused", "encrypted", "failed"}
    /\ guarded \in BOOLEAN /\ (guarded => source.parse = "rejected")
    /\ i \in Nat \ {0} /\ direction \in {-1, 0, 1}
    /\ page \in 1..(Len(source.pages) + 1) /\ left \subseteq fills \X spans
    /\ \A run \in spans : run.page \in DOMAIN source.pages /\ run.finite /\ run.glyphs # <<>>
    /\ \A fill \in fills : fill.page \in DOMAIN source.pages /\ fill.finite /\ fill.opacity \in 1..100
    /\ unreadable \in Nat /\ oversized \subseteq DOMAIN source.pages
    /\ seen \subseteq Nat /\ spent \in Nat /\ work \in Nat
    /\ \A k \in DOMAIN covered : covered[k] \in Nat
    /\ skipped \subseteq DOMAIN source.pages
    /\ signals \in Seq(Signals)

Told == {signals[k] : k \in DOMAIN signals}
Reported(code) == {s \in Told : s.code = code}

(* What the page shows, against which the report is held.                  *)
DrawnOver(n, q) == {r \in DOMAIN Commands(n) : r > q /\ Commands(n)[r].op = "fill"}
Hiding(n, q) == {r \in DrawnOver(n, q) : Commands(n)[r].finite /\ Commands(n)[r].opacity >= Opaque}
Inside(c, b) == b.from <= c /\ c < b.to
Lost(n, q, glyph) ==
    Cardinality({c \in glyph.from..(glyph.to - 1) :
                    \E r \in Hiding(n, q) : Inside(c, Commands(n)[r].box)})
HiddenRun(n, q, run) ==
    run.finite /\ \E g \in DOMAIN run.glyphs :
        /\ Width(run.glyphs[g]) > 0
        /\ Enough(Lost(n, q, run.glyphs[g]), run.glyphs[g])
Hidden(n) == {q \in Texts(n) : \E k \in DOMAIN Commands(n)[q].runs :
                                   HiddenRun(n, q, Commands(n)[q].runs[k])}

(* Text of which later opaque fills hide a glyph past the line is          *)
(* reported, however the cover is cut into strips, on every page that was  *)
(* not left out ("A cover cut into strips that are each under the line     *)
(* still adds up").  One report for all runs of a command.  And nothing    *)
(* else is: no highlight and no fill drawn first makes an overlay error,   *)
(* the text named is under a later fill that is not a faint one.           *)
HiddenReported ==
    /\ pc = "reported" /\ source.format = "pdf" /\ source.failure = "none" =>
         \A n \in DOMAIN source.pages \ (skipped \cup oversized) : \A q \in Hidden(n) :
             \E s \in Reported("overlay_over_text") : s.page = n /\ s.text = q
    /\ \A s \in Reported("overlay_over_text") :
         LET n == s.page  q == s.text IN
         \E r \in DrawnOver(n, q) : \E g \in {Commands(n)[q].runs[m].glyphs :
                                               m \in DOMAIN Commands(n)[q].runs} :
             /\ Commands(n)[r].opacity = 0 \/ Commands(n)[r].opacity >= Opaque
             /\ \E h \in DOMAIN g : Overlap(g[h], Commands(n)[r].box) > 0

(* A report with no `checks_skipped` stands for a whole file: every run    *)
(* was held against every later cover of its page, or is reported.  And    *)
(* the comparisons never pass the budget, over all pages of the file       *)
(* ("Span and fill pairs compared across the whole file").                 *)
SilenceMeansCompared ==
    /\ work <= OverlayBudget
    /\ pc = "reported" /\ source.format = "pdf" /\ Reported("checks_skipped") = {} =>
         \A n \in DOMAIN source.pages : \A q \in Texts(n) :
             \/ \A k \in DOMAIN Commands(n)[q].runs : Commands(n)[q].runs[k].glyphs = <<>>
             \/ \A r \in DrawnOver(n, q) :
                   Commands(n)[r].opacity \in 1..(Opaque - 1) \/ Width(Commands(n)[r].box) = 0
                       \/ <<n, q, r>> \in compared

Ascending == \A k \in 2..Len(source.days) : source.days[k - 1] <= source.days[k]
Descending == \A k \in 2..Len(source.days) : source.days[k - 1] >= source.days[k]
Turns(k) == \E a, b \in 2..k : Step(a) = 1 /\ Step(b) = -1

(* Days are out of order when they run neither way; same days are no       *)
(* break ("Compare dates by day").  The row named is the first that turns. *)
DatesHonest ==
    pc = "reported" /\ ~guarded =>
        /\ Reported("date_out_of_order") = {} <=> Ascending \/ Descending
        /\ \A s \in Reported("date_out_of_order") : Turns(s.row) /\ ~Turns(s.row - 1)

(* A clean report is never the absence of a check: the file was parsed,    *)
(* its numbers hold, it opened, and none of its pages hides a glyph.       *)
CleanMeansChecked ==
    pc = "reported" /\ signals = <<>> =>
        /\ ~guarded /\ source.breakRow = 0 /\ source.failure = "none"
        /\ Ascending \/ Descending
        /\ source.format = "pdf" => /\ "incremental_update" \notin source.marks
                                    /\ \A n \in DOMAIN source.pages : Hidden(n) = {}

(* docs/rules/integrity.md: "a file that will not open for the file        *)
(* checks, becomes a checks_skipped warning".                              *)
FileFailureReported == source.failure # "none" => pc # "failed"
=============================================================================
