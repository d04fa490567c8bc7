--------------------------- MODULE InspectProofs ---------------------------
(***************************************************************************)
(* Proofs about Inspect for every file and every cap: the report holds     *)
(* what the pages hide, and what it does not say was looked at.            *)
(***************************************************************************)
EXTENDS Inspect, FiniteSetTheorems, WellFoundedInduction, TLAPS

(* A set of naturals has a least member.                                   *)
LEMMA Least ==
    ASSUME NEW T, T \subseteq Nat, T # {}
    PROVE  \E x \in T : \A y \in T : x <= y
<1>1. PICK m \in T : \A k \in T : <<k, m>> \notin OpToRel(<, Nat)
  BY WFMin, NatLessThanWellFounded, Zenon
<1>2. ASSUME NEW y \in T, y < m
      PROVE  FALSE
  <2>1. <<y, m>> \in OpToRel(<, Nat)
    BY <1>2 DEF OpToRel
  <2> QED
    BY <1>1, <2>1
<1> QED
  BY <1>2

(* The values of a function on a finite set are finitely many.             *)
LEMMA FiniteImage ==
    ASSUME NEW S, IsFiniteSet(S), NEW T, NEW f \in [S -> T]
    PROVE  IsFiniteSet({f[x] : x \in S})
<1>1. f \in Surjection(S, {f[x] : x \in S})
  BY DEF Surjection
<1> QED
  BY <1>1, FS_Surjection

-----------------------------------------------------------------------------
(* What is said                                                            *)

ToldOf(s) == {s[k] : k \in DOMAIN s}

LEMMA ToldMore ==
    ASSUME NEW s \in Seq(Signals), NEW t \in Seq(Signals)
    PROVE  s \o t \in Seq(Signals) /\ ToldOf(s \o t) = ToldOf(s) \cup ToldOf(t)
<1>1. /\ DOMAIN s = 1..Len(s) /\ DOMAIN t = 1..Len(t) /\ Len(s) \in Nat /\ Len(t) \in Nat
      /\ s \o t \in Seq(Signals) /\ DOMAIN (s \o t) = 1..(Len(s) + Len(t))
      /\ \A k \in 1..Len(s) : (s \o t)[k] = s[k]
      /\ \A k \in 1..Len(t) : (s \o t)[Len(s) + k] = t[k]
  OBVIOUS
<1>2. ASSUME NEW k \in 1..(Len(s) + Len(t))
      PROVE  (s \o t)[k] \in ToldOf(s) \cup ToldOf(t)
  <2>1. CASE k <= Len(s)
    BY <1>1, <2>1 DEF ToldOf
  <2>2. CASE k > Len(s)
    <3>1. k - Len(s) \in 1..Len(t) /\ k = Len(s) + (k - Len(s))
      BY <1>1, <2>2
    <3> QED
      BY <1>1, <3>1 DEF ToldOf
  <2> QED
    BY <1>1, <2>1, <2>2
<1>3. ASSUME NEW k \in 1..Len(t)
      PROVE  t[k] \in ToldOf(s \o t)
  <2>1. Len(s) + k \in 1..(Len(s) + Len(t))
    BY <1>1
  <2> QED
    BY <1>1, <2>1 DEF ToldOf
<1>4. ASSUME NEW k \in 1..Len(s)
      PROVE  s[k] \in ToldOf(s \o t)
  <2>1. k \in 1..(Len(s) + Len(t))
    BY <1>1
  <2> QED
    BY <1>1, <2>1 DEF ToldOf
<1> QED
  BY <1>1, <1>2, <1>3, <1>4 DEF ToldOf

LEMMA ToldOne ==
    ASSUME NEW x
    PROVE  ToldOf(<<x>>) = {x} /\ ToldOf(<<>>) = {}
BY DEF ToldOf

LEMMA ToldIs == Told = ToldOf(signals) /\ Told' = ToldOf(signals')
BY DEF Told, ToldOf

-----------------------------------------------------------------------------
(* What is in a file                                                       *)

LEMMA SourceParts ==
    ASSUME source \in Sources
    PROVE  /\ source.supplied \in BOOLEAN /\ source.agrees \in BOOLEAN
           /\ source.bank \in BOOLEAN /\ source.breakRow \in Nat
           /\ source.days \in Seq(Int) /\ source.format \in {"pdf", "xlsx"}
           /\ source.period \in {<<>>} \cup (Int \X Int)
           /\ source.parse \in {"ok", "rejected", "encrypted"}
           /\ source.failure \in {"none", "expected", "other"} /\ source.marks \subseteq Marks
           /\ source.pages \in Seq([oversized : BOOLEAN, commands : Seq(DrawCommands)])
           /\ DOMAIN source.pages = 1..Len(source.pages) /\ Len(source.pages) \in Nat
<1>1. /\ source.supplied \in BOOLEAN /\ source.agrees \in BOOLEAN
      /\ source.bank \in BOOLEAN /\ source.breakRow \in Nat
      /\ source.parse \in {"ok", "rejected", "encrypted"}
      /\ source.failure \in {"none", "expected", "other"} /\ source.marks \subseteq Marks
  BY DEF Sources
<1>2. source.days \in Seq(Int) /\ source.format \in {"pdf", "xlsx"}
  BY DEF Sources
<1>3. source.period \in {<<>>} \cup (Int \X Int)
  BY DEF Sources
<1>4. source.pages \in Seq([oversized : BOOLEAN, commands : Seq(DrawCommands)])
  BY DEF Sources
<1>5. DOMAIN source.pages = 1..Len(source.pages) /\ Len(source.pages) \in Nat
  BY <1>4
<1> QED
  BY <1>1, <1>2, <1>3, <1>4, <1>5

LEMMA Member == ASSUME NEW T, NEW s \in Seq(T), NEW k \in DOMAIN s PROVE s[k] \in T
OBVIOUS

LEMMA CommandsType ==
    ASSUME source \in Sources, NEW n \in DOMAIN source.pages
    PROVE  /\ source.pages[n].oversized \in BOOLEAN
           /\ Commands(n) \in Seq(DrawCommands)
           /\ DOMAIN Commands(n) = 1..Len(Commands(n)) /\ Len(Commands(n)) \in Nat
           /\ \A q \in DOMAIN Commands(n) : Commands(n)[q] \in DrawCommands
<1>1. source.pages \in Seq([oversized : BOOLEAN, commands : Seq(DrawCommands)])
  BY SourceParts
<1>2. source.pages[n] \in [oversized : BOOLEAN, commands : Seq(DrawCommands)]
  BY <1>1, Member
<1>3. source.pages[n].oversized \in BOOLEAN /\ Commands(n) \in Seq(DrawCommands)
  BY <1>2 DEF Commands
<1>4. DOMAIN Commands(n) = 1..Len(Commands(n)) /\ Len(Commands(n)) \in Nat
  BY <1>3
<1>5. \A q \in DOMAIN Commands(n) : Commands(n)[q] \in DrawCommands
  BY <1>3
<1> QED
  BY <1>3, <1>4, <1>5

LEMMA TextType ==
    ASSUME source \in Sources, NEW n \in DOMAIN source.pages, NEW q \in Texts(n)
    PROVE  /\ q \in Nat /\ Commands(n)[q].runs \in Seq(TextRuns)
           /\ DOMAIN Commands(n)[q].runs = 1..Len(Commands(n)[q].runs)
           /\ Len(Commands(n)[q].runs) \in Nat
           /\ \A r \in DOMAIN Commands(n)[q].runs :
                /\ Commands(n)[q].runs[r].glyphs \in Seq(Boxes)
                /\ Commands(n)[q].runs[r].finite \in BOOLEAN
<1>1. q \in DOMAIN Commands(n) /\ Commands(n)[q].op = "text"
  BY DEF Texts
<1>2. q \in Nat /\ Commands(n)[q] \in DrawCommands
  BY <1>1, CommandsType
<1>3. Commands(n)[q].runs \in Seq(TextRuns)
  BY <1>1, <1>2 DEF DrawCommands
<1>4. /\ DOMAIN Commands(n)[q].runs = 1..Len(Commands(n)[q].runs)
      /\ Len(Commands(n)[q].runs) \in Nat
  BY <1>3
<1>5. \A r \in DOMAIN Commands(n)[q].runs : Commands(n)[q].runs[r] \in TextRuns
  BY <1>3
<1>6. \A r \in DOMAIN Commands(n)[q].runs :
        /\ Commands(n)[q].runs[r].glyphs \in Seq(Boxes)
        /\ Commands(n)[q].runs[r].finite \in BOOLEAN
  BY <1>5 DEF TextRuns
<1> QED
  BY <1>2, <1>3, <1>4, <1>6

LEMMA PathType ==
    ASSUME source \in Sources, NEW n \in DOMAIN source.pages, NEW r \in Paths(n)
    PROVE  /\ r \in Nat /\ Commands(n)[r].opacity \in 0..100
           /\ Commands(n)[r].box.from \in Int /\ Commands(n)[r].box.to \in Int
           /\ Commands(n)[r].finite \in BOOLEAN /\ Opacity(Commands(n)[r]) \in 1..100
<1>1. r \in DOMAIN Commands(n) /\ Commands(n)[r].op = "fill"
  BY DEF Paths
<1>2. r \in Nat /\ Commands(n)[r] \in DrawCommands
  BY <1>1, CommandsType
<1>3. /\ Commands(n)[r].box \in Boxes /\ Commands(n)[r].opacity \in 0..100
      /\ Commands(n)[r].finite \in BOOLEAN
  BY <1>1, <1>2 DEF DrawCommands
<1>4. Commands(n)[r].box.from \in Int /\ Commands(n)[r].box.to \in Int
  BY <1>3 DEF Boxes
<1>5. Opacity(Commands(n)[r]) \in 1..100
  BY <1>3 DEF Opacity
<1> QED
  BY <1>2, <1>3, <1>4, <1>5

RunOf(n, q, r) == [page |-> n, seqno |-> q, index |-> r,
                   glyphs |-> Commands(n)[q].runs[r].glyphs,
                   finite |-> Commands(n)[q].runs[r].finite]
FillOf(n, q) == [page |-> n, seqno |-> q, box |-> Commands(n)[q].box,
                 opacity |-> Opacity(Commands(n)[q]), finite |-> Commands(n)[q].finite]

LEMMA RunsHold ==
    ASSUME NEW n
    PROVE  /\ \A run \in Runs(n) : \E q \in Texts(n) : \E r \in DOMAIN Commands(n)[q].runs :
                run = RunOf(n, q, r)
           /\ \A q \in Texts(n) : \A r \in DOMAIN Commands(n)[q].runs : RunOf(n, q, r) \in Runs(n)
BY DEF Runs, RunOf

LEMMA FillsHold ==
    ASSUME NEW n
    PROVE  /\ \A fill \in Fills(n) : \E q \in Paths(n) : fill = FillOf(n, q)
           /\ \A q \in Paths(n) : FillOf(n, q) \in Fills(n)
BY DEF Fills, FillOf

(* A run that is read names the place it was printed at.                   *)
LEMMA RunParts ==
    ASSUME source \in Sources, NEW n \in DOMAIN source.pages, NEW run \in Runs(n)
    PROVE  /\ run.page = n /\ run.seqno \in Texts(n) /\ run.seqno \in Nat
           /\ run.index \in DOMAIN Commands(n)[run.seqno].runs
           /\ run.glyphs = Commands(n)[run.seqno].runs[run.index].glyphs
           /\ run.finite = Commands(n)[run.seqno].runs[run.index].finite
           /\ run.glyphs \in Seq(Boxes) /\ run.finite \in BOOLEAN
<1>1. PICK q \in Texts(n) : \E r \in DOMAIN Commands(n)[q].runs : run = RunOf(n, q, r)
  BY RunsHold
<1>2. PICK r \in DOMAIN Commands(n)[q].runs : run = RunOf(n, q, r)
  BY <1>1
<1>3. /\ run.page = n /\ run.seqno = q /\ run.index = r
      /\ run.glyphs = Commands(n)[q].runs[r].glyphs /\ run.finite = Commands(n)[q].runs[r].finite
  BY <1>2 DEF RunOf
<1> QED
  BY <1>3, TextType

LEMMA FillParts ==
    ASSUME source \in Sources, NEW n \in DOMAIN source.pages, NEW fill \in Fills(n)
    PROVE  /\ fill.page = n /\ fill.seqno \in Paths(n) /\ fill.seqno \in Nat
           /\ fill = FillOf(n, fill.seqno) /\ fill.box = Commands(n)[fill.seqno].box
           /\ fill.opacity = Opacity(Commands(n)[fill.seqno])
           /\ fill.box.from \in Int /\ fill.box.to \in Int
           /\ fill.finite \in BOOLEAN /\ fill.opacity \in 1..100
<1>1. PICK q \in Paths(n) : fill = FillOf(n, q)
  BY FillsHold
<1>2. /\ fill.page = n /\ fill.seqno = q /\ fill.box = Commands(n)[q].box
      /\ fill.opacity = Opacity(Commands(n)[q]) /\ fill.finite = Commands(n)[q].finite
  BY <1>1 DEF FillOf
<1> QED
  BY <1>1, <1>2, PathType

(* A page holds finitely many runs and fills.                              *)
LEMMA PageFinite ==
    ASSUME source \in Sources, NEW n \in DOMAIN source.pages
    PROVE  IsFiniteSet(Runs(n)) /\ IsFiniteSet(Fills(n))
<1>1. IsFiniteSet(DOMAIN Commands(n))
  BY CommandsType, FS_Interval
<1>2. IsFiniteSet(Texts(n)) /\ IsFiniteSet(Paths(n))
  BY <1>1, FS_Subset DEF Texts, Paths
<1>3. IsFiniteSet(Fills(n))
  <2> DEFINE f == [q \in Paths(n) |-> FillOf(n, q)]
  <2>1. f \in [Paths(n) -> Fills(n)]
    BY FillsHold
  <2>2. IsFiniteSet({f[q] : q \in Paths(n)})
    BY <1>2, <2>1, FiniteImage
  <2>3. Fills(n) = {f[q] : q \in Paths(n)}
    BY DEF Fills, FillOf
  <2> QED
    BY <2>2, <2>3
<1>4. IsFiniteSet(Runs(n))
  <2> DEFINE Of(q) == {RunOf(n, q, r) : r \in DOMAIN Commands(n)[q].runs}
             f == [q \in Texts(n) |-> Of(q)]
  <2>1. ASSUME NEW q \in Texts(n)
        PROVE  IsFiniteSet(Of(q))
    <3> DEFINE g == [r \in DOMAIN Commands(n)[q].runs |-> RunOf(n, q, r)]
    <3>1. IsFiniteSet(DOMAIN Commands(n)[q].runs)
      <4>1. PICK last \in Nat : DOMAIN Commands(n)[q].runs = 1..last
        BY TextType
      <4>2. IsFiniteSet(1..last)
        BY FS_Interval
      <4> QED
        BY <4>1, <4>2
    <3>2. g \in [DOMAIN Commands(n)[q].runs -> Runs(n)]
      BY RunsHold
    <3>3. IsFiniteSet({g[r] : r \in DOMAIN Commands(n)[q].runs})
      BY <3>1, <3>2, FiniteImage
    <3>4. \A r \in DOMAIN Commands(n)[q].runs : g[r] = RunOf(n, q, r)
      OBVIOUS
    <3> HIDE DEF g
    <3>5. Of(q) = {g[r] : r \in DOMAIN Commands(n)[q].runs}
      BY <3>4
    <3> QED
      BY <3>3, <3>5
  <2>2. f \in [Texts(n) -> {Of(q) : q \in Texts(n)}]
    OBVIOUS
  <2>3. \A q \in Texts(n) : f[q] = Of(q)
    OBVIOUS
  <2> HIDE DEF f
  <2>4. IsFiniteSet({f[q] : q \in Texts(n)})
    BY <1>2, <2>2, FiniteImage
  <2>5. \A T \in {f[q] : q \in Texts(n)} : IsFiniteSet(T)
    BY <2>1, <2>3
  <2>6. IsFiniteSet(UNION {f[q] : q \in Texts(n)})
    BY <2>4, <2>5, FS_UNION
  <2>7. Runs(n) = UNION {f[q] : q \in Texts(n)}
    BY <2>3 DEF Runs, RunOf
  <2> QED
    BY <2>6, <2>7
<1> QED
  BY <1>3, <1>4

-----------------------------------------------------------------------------
(* The inductive invariant                                                 *)

(* The pages of a PDF were read, and the crowded ones left out.            *)
Final == pc \in {"order", "reported"} /\ source.format = "pdf" /\ source.failure = "none"
Sifted == pc \in {"overlay", "compare"} \/ Final

PagesRead == IF pc = "read" THEN 1..(page - 1)
             ELSE IF pc = "triage" \/ Sifted THEN DOMAIN source.pages ELSE {}
PagesCompared == IF Sifted THEN 1..(page - 1) ELSE {}

(* What was read of the pages behind is there until the page is left out.  *)
ReadIn(n) ==
    /\ Finite(Visible(n)) \subseteq spans
    /\ \A fill \in Finite(Fills(n)) : (Sifted => IsCover(fill)) => fill \in fills
AllNumbers(n) == (\A run \in Visible(n) : run.finite) /\ (\A fill \in Fills(n) : fill.finite)

FromPages ==
    /\ \A run \in spans : run.page \in DOMAIN source.pages /\ run \in Finite(Visible(run.page))
    /\ \A fill \in fills : /\ fill.page \in DOMAIN source.pages
                           /\ fill \in Finite(Fills(fill.page))
                           /\ Sifted => IsCover(fill)

ReadWell ==
    /\ IsFiniteSet(spans) /\ IsFiniteSet(fills) /\ FromPages
    /\ pc \in {"start", "days", "period", "file", "read", "triage"} => skipped = {}
    /\ \A n \in PagesRead \ oversized : /\ unreadable = 0 => AllNumbers(n)
                                        /\ n \in skipped \/ ReadIn(n)

(* A comparison is paid for before it is made.                             *)
AllCompared(n) ==
    \A fill \in OnPage(fills, n) : \A run \in OnPage(spans, n) :
        <<n, run.seqno, fill.seqno>> \in compared

PageCompared ==
    /\ page \in DOMAIN source.pages /\ left \subseteq PageFills \X PageSpans
    /\ \A fill \in PageFills : \A run \in PageSpans :
         <<fill, run>> \in left \/ <<page, run.seqno, fill.seqno>> \in compared

CompareWell ==
    /\ IsFiniteSet(left) /\ work + Cardinality(left) <= spent /\ spent <= OverlayBudget
    /\ pc # "compare" => left = {}
    /\ pc = "compare" => PageCompared
    /\ \A n \in PagesCompared : n \in skipped \/ AllCompared(n)

(* What the fills compared so far take of a glyph is what is counted.      *)
LostCells(run, g) ==
    {c \in run.glyphs[g].from..(run.glyphs[g].to - 1) :
        \E fill \in PageFills : /\ fill.seqno > run.seqno /\ <<fill, run>> \notin left
                                /\ Inside(c, fill.box)}
Counts(run) ==
    \A g \in Inked(run) : /\ Cardinality(LostCells(run, g)) <= Already(run.seqno, g)
                          /\ ~Enough(Cardinality(LostCells(run, g)), run.glyphs[g])

ToldHidden(n, q) == \E s \in Reported("overlay_over_text") : s.page = n /\ s.text = q

UnderFill(n, q) ==
    \E r \in DrawnOver(n, q) : \E g \in {Commands(n)[q].runs[m].glyphs :
                                          m \in DOMAIN Commands(n)[q].runs} :
        /\ Commands(n)[r].opacity = 0 \/ Commands(n)[r].opacity >= Opaque
        /\ \E h \in DOMAIN g : Overlap(g[h], Commands(n)[r].box) > 0

PageHides ==
    /\ \A q \in seen : ToldHidden(page, q)
    /\ \A k \in DOMAIN covered : covered[k] > 0 => UnderFill(page, k[1])
    /\ \A run \in PageSpans : run.seqno \in seen \/ Counts(run)

HideWell ==
    /\ \A s \in Reported("overlay_over_text") : UnderFill(s.page, s.text)
    /\ pc = "compare" => PageHides
    /\ \A n \in PagesCompared : \/ n \in skipped \cup oversized
                                \/ \A q \in Hidden(n) : ToldHidden(n, q)

(* What is reported before the pages are.                                  *)
Early == {"start", "refused", "encrypted"}

SaidWell ==
    /\ pc = "start" => signals = <<>> /\ ~guarded
    /\ pc \notin Early =>
         /\ guarded => Reported("unparseable") # {}
         /\ ~guarded /\ source.breakRow # 0 => Reported("reconciliation_failed") # {}
    /\ pc \in {"order", "reported"} /\ source.failure # "none" => Reported("checks_skipped") # {}
    /\ pc = "triage" \/ Sifted =>
         /\ source.failure = "none"
         /\ "incremental_update" \in source.marks => Reported("incremental_update") # {}
    /\ Final => /\ page = Len(source.pages) + 1
                /\ skipped \cup oversized # {} \/ unreadable > 0 => Reported("checks_skipped") # {}

(* The days up to the one under way run the way `direction` says.          *)
DaysSoFar ==
    /\ i \in 2..(Len(source.days) + 1) \/ i = 2
    /\ direction = 0 => \A k \in 2..(i - 1) : Step(k) = 0
    /\ direction # 0 => /\ \E k \in 2..(i - 1) : Step(k) = direction
                        /\ \A k \in 2..(i - 1) : Step(k) # -direction
DaysDecided ==
    /\ Reported("date_out_of_order") = {} => ~Turns(Len(source.days))
    /\ \A s \in Reported("date_out_of_order") :
         s.row \in 2..Len(source.days) /\ Turns(s.row) /\ ~Turns(s.row - 1)
DaysWell ==
    /\ pc = "start" => i = 2 /\ direction = 0
    /\ pc = "days" => Reported("date_out_of_order") = {} /\ DaysSoFar
    /\ pc \notin Early \cup {"days"} /\ ~guarded => DaysDecided

IInv ==
    /\ source \in Sources /\ TypeOK
    /\ ReadWell /\ CompareWell /\ HideWell /\ SaidWell /\ DaysWell

-----------------------------------------------------------------------------
(* What a step says                                                        *)

(* The step adds the signals of S, and no other, to those told.            *)
Adds(S) == signals' \in Seq(Signals) /\ Told' = Told \cup S

LEMMA SignalType ==
    ASSUME NEW code \in Codes, NEW n \in Nat, NEW row \in Nat, NEW text \in Nat
    PROVE  Signal(code, n, row, text) \in Signals
BY DEF Signal, Signals

LEMMA AddsAll ==
    ASSUME signals \in Seq(Signals), NEW s \in Seq(Signals), Report(s)
    PROVE  Adds(ToldOf(s))
<1>1. signals' = signals \o s
  BY DEF Report
<1>2. signals' \in Seq(Signals) /\ ToldOf(signals') = ToldOf(signals) \cup ToldOf(s)
  BY <1>1, ToldMore
<1> QED
  BY <1>2, ToldIs DEF Adds

LEMMA AddsOne ==
    ASSUME signals \in Seq(Signals), NEW s \in Signals, Report(<<s>>)
    PROVE  Adds({s})
<1>1. <<s>> \in Seq(Signals)
  OBVIOUS
<1>2. Adds(ToldOf(<<s>>))
  BY <1>1, AddsAll
<1> QED
  BY <1>2, ToldOne

LEMMA AddsNone ==
    ASSUME signals \in Seq(Signals), UNCHANGED signals \/ Report(<<>>)
    PROVE  Adds({})
<1>1. CASE UNCHANGED signals
  BY <1>1, ToldIs DEF Adds
<1>2. CASE Report(<<>>)
  <2>1. <<>> \in Seq(Signals)
    OBVIOUS
  <2> QED
    BY <1>2, <2>1, ToldMore, ToldOne, ToldIs DEF Adds, Report
<1> QED
  BY <1>1, <1>2

LEMMA AddsTo ==
    ASSUME NEW S, Adds(S), NEW code
    PROVE  Reported(code)' = Reported(code) \cup {s \in S : s.code = code}
BY DEF Adds, Reported

(* The order of a report is no matter of what it holds.                    *)
LEMMA OrderAdds ==
    ASSUME signals \in Seq(Signals), Order
    PROVE  Adds({})
<1>1. PICK sorted \in [DOMAIN signals -> DOMAIN signals] :
        /\ \A k \in DOMAIN signals : \E j \in DOMAIN signals : sorted[j] = k
        /\ signals' = [k \in DOMAIN signals |-> signals[sorted[k]]]
  BY DEF Order
<1>2. DOMAIN signals = 1..Len(signals) /\ Len(signals) \in Nat
  OBVIOUS
<1>3. \A k \in 1..Len(signals) : signals[k] \in Signals
  OBVIOUS
<1>4. \A k \in 1..Len(signals) : signals[sorted[k]] \in Signals
  BY <1>1, <1>2, <1>3
<1>5. signals' \in Seq(Signals)
  BY <1>1, <1>2, <1>4
<1>6. ToldOf(signals') = ToldOf(signals)
  BY <1>1 DEF ToldOf
<1> QED
  BY <1>5, <1>6, ToldIs DEF Adds

LEMMA RejectsAdds ==
    ASSUME signals \in Seq(Signals), ParseRejects
    PROVE  Adds({Signal("unparseable", 0, 0, 0)})
BY AddsOne, SignalType DEF ParseRejects, Codes

LEMMA ReconciliationAdds ==
    ASSUME source \in Sources, signals \in Seq(Signals), Reconciliation
    PROVE  IF source.breakRow = 0 THEN Adds({})
           ELSE Adds({Signal("reconciliation_failed", 0, source.breakRow, 0)})
<1>1. Signal("reconciliation_failed", 0, source.breakRow, 0) \in Signals
  BY SourceParts, SignalType DEF Codes
<1>2. Report(IF source.breakRow = 0 THEN <<>>
             ELSE <<Signal("reconciliation_failed", 0, source.breakRow, 0)>>)
  BY DEF Reconciliation
<1>3. CASE source.breakRow = 0
  BY <1>2, <1>3, AddsNone
<1>4. CASE source.breakRow # 0
  <2>1. Report(<<Signal("reconciliation_failed", 0, source.breakRow, 0)>>)
    BY <1>2, <1>4
  <2> QED
    BY <1>1, <1>4, <2>1, AddsOne
<1> QED
  BY <1>3, <1>4

LEMMA DayStepAdds ==
    ASSUME TypeOK, DayStep
    PROVE  IF Step(i) # 0 /\ direction # 0 /\ Step(i) # direction
           THEN Adds({Signal("date_out_of_order", 0, i, 0)}) ELSE Adds({})
<1>1. signals \in Seq(Signals) /\ Signal("date_out_of_order", 0, i, 0) \in Signals
  BY SignalType DEF TypeOK, Codes
<1> QED
  BY <1>1, AddsOne, AddsNone DEF DayStep

LEMMA PeriodAdds ==
    ASSUME source \in Sources, signals \in Seq(Signals), Period
    PROVE  Adds({}) \/ \E k \in Nat : Adds({Signal("date_outside_period", 0, k, 0)})
<1>1. CASE UNCHANGED signals
  BY <1>1, AddsNone
<1>2. CASE \E k \in Outside : Report(<<Signal("date_outside_period", 0, k, 0)>>)
  <2>1. PICK k \in Outside : Report(<<Signal("date_outside_period", 0, k, 0)>>)
    BY <1>2
  <2>2. k \in DOMAIN source.days /\ source.days \in Seq(Int)
    BY SourceParts DEF Outside
  <2>3. k \in Nat
    BY <2>2
  <2>4. Signal("date_outside_period", 0, k, 0) \in Signals
    BY <2>3, SignalType DEF Codes
  <2> QED
    BY <2>1, <2>3, <2>4, AddsOne
<1> QED
  BY <1>1, <1>2 DEF Period

LEMMA XlsxAdds ==
    ASSUME signals \in Seq(Signals), XlsxFile
    PROVE  Adds({}) \/ Adds({Signal("unexpected_producer", 0, 0, 0)})
<1>1. Signal("unexpected_producer", 0, 0, 0) \in Signals
  BY SignalType DEF Codes
<1> QED
  BY <1>1, AddsOne, AddsNone DEF XlsxFile

LEMMA FailsAdds ==
    ASSUME signals \in Seq(Signals), FileFails
    PROVE  IF guarded /\ source.failure = "expected"
           THEN Adds({Signal("checks_skipped", 0, 0, 0)}) ELSE Adds({})
<1>1. Signal("checks_skipped", 0, 0, 0) \in Signals
  BY SignalType DEF Codes
<1> QED
  BY <1>1, AddsOne, AddsNone DEF FileFails

LEMMA MarkType ==
    ASSUME NEW code \in Codes
    PROVE  /\ Mark(code) \in Seq(Signals) /\ ToldOf(Mark(code)) \subseteq {Signal(code, 0, 0, 0)}
           /\ code \in source.marks /\ code \notin Baselined =>
                ToldOf(Mark(code)) = {Signal(code, 0, 0, 0)}
<1>1. Signal(code, 0, 0, 0) \in Signals
  BY SignalType
<1> QED
  BY <1>1, ToldOne DEF Mark

(* Marks are found in the file, whatever its rows and pages hold.          *)
LEMMA MarksAdd ==
    ASSUME signals \in Seq(Signals), PdfSignals
    PROVE  \E S : /\ Adds(S) /\ \A s \in S : s.code \in Marks
                  /\ "incremental_update" \in source.marks =>
                       Signal("incremental_update", 0, 0, 0) \in S
<1> DEFINE a == Mark("incremental_update")
           b == Mark("modified_after_create")
           c == Mark("unexpected_producer")
           d == Mark("id_changed")
           e == Mark("unexpected_font")
           S == ToldOf(a) \cup ToldOf(b) \cup ToldOf(c) \cup ToldOf(d) \cup ToldOf(e)
<1>1. /\ a \in Seq(Signals) /\ ToldOf(a) \subseteq {Signal("incremental_update", 0, 0, 0)}
      /\ "incremental_update" \in source.marks =>
           ToldOf(a) = {Signal("incremental_update", 0, 0, 0)}
  BY MarkType DEF Codes, Baselined
<1>2. b \in Seq(Signals) /\ ToldOf(b) \subseteq {Signal("modified_after_create", 0, 0, 0)}
  BY MarkType DEF Codes
<1>3. c \in Seq(Signals) /\ ToldOf(c) \subseteq {Signal("unexpected_producer", 0, 0, 0)}
  BY MarkType DEF Codes
<1>4. d \in Seq(Signals) /\ ToldOf(d) \subseteq {Signal("id_changed", 0, 0, 0)}
  BY MarkType DEF Codes
<1>5. e \in Seq(Signals) /\ ToldOf(e) \subseteq {Signal("unexpected_font", 0, 0, 0)}
  BY MarkType DEF Codes
<1>6. \A s \in S : s.code \in Marks
  BY <1>1, <1>2, <1>3, <1>4, <1>5 DEF Marks, Signal
<1>7. Report(a \o b \o c \o d \o e)
  BY DEF PdfSignals
<1> HIDE DEF a, b, c, d, e
<1>8. a \o b \in Seq(Signals) /\ ToldOf(a \o b) = ToldOf(a) \cup ToldOf(b)
  BY <1>1, <1>2, ToldMore
<1>9. /\ a \o b \o c \in Seq(Signals)
      /\ ToldOf(a \o b \o c) = ToldOf(a) \cup ToldOf(b) \cup ToldOf(c)
  BY <1>3, <1>8, ToldMore
<1>10. /\ a \o b \o c \o d \in Seq(Signals)
       /\ ToldOf(a \o b \o c \o d) = ToldOf(a) \cup ToldOf(b) \cup ToldOf(c) \cup ToldOf(d)
  BY <1>4, <1>9, ToldMore
<1>11. a \o b \o c \o d \o e \in Seq(Signals) /\ ToldOf(a \o b \o c \o d \o e) = S
  BY <1>5, <1>10, ToldMore
<1>12. Adds(S)
  <2>1. PICK all \in Seq(Signals) : all = a \o b \o c \o d \o e
    BY <1>11
  <2>2. Adds(ToldOf(all))
    BY <1>7, <2>1, AddsAll
  <2> QED
    BY <1>11, <2>1, <2>2
<1> QED
  BY <1>1, <1>6, <1>12

(* The warnings of what was left out: of an object, of a page.             *)
LEMMA SkippedAdds ==
    ASSUME source \in Sources, TypeOK, ReportSkipped
    PROVE  \E S : /\ Adds(S) /\ \A s \in S : s.code = "checks_skipped"
                  /\ skipped \cup oversized # {} \/ unreadable > 0 => S # {}
<1> DEFINE missing == skipped \cup oversized
           first == CHOOSE n \in missing : \A m \in missing : n <= m
           unread == IF unreadable > 0 THEN <<Signal("checks_skipped", 0, 0, 0)>> ELSE <<>>
           pages == IF missing = {} THEN <<>> ELSE <<Signal("checks_skipped", first, 0, 0)>>
<1>1. signals \in Seq(Signals) /\ missing \subseteq DOMAIN source.pages
  BY DEF TypeOK
<1>2. missing \subseteq Nat
  BY <1>1, SourceParts
<1>3. Report(unread \o pages)
  BY DEF ReportSkipped
<1>4. /\ unread \in Seq(Signals) /\ \A s \in ToldOf(unread) : s.code = "checks_skipped"
      /\ unreadable > 0 => ToldOf(unread) # {}
  <2>1. Signal("checks_skipped", 0, 0, 0) \in Signals
    BY SignalType DEF Codes
  <2>2. Signal("checks_skipped", 0, 0, 0).code = "checks_skipped"
    BY DEF Signal
  <2> QED
    BY <2>1, <2>2, ToldOne
<1>5. /\ pages \in Seq(Signals) /\ \A s \in ToldOf(pages) : s.code = "checks_skipped"
      /\ missing # {} => ToldOf(pages) # {}
  <2>1. CASE missing = {}
    <3>1. pages = <<>> /\ <<>> \in Seq(Signals)
      BY <2>1
    <3> QED
      BY <2>1, <3>1, ToldOne
  <2>2. CASE missing # {}
    <3>1. first \in missing
      BY <1>2, <2>2, Least
    <3>2. first \in Nat
      BY <1>2, <3>1
    <3> HIDE DEF first
    <3>3. Signal("checks_skipped", first, 0, 0) \in Signals
      BY <3>2, SignalType DEF Codes
    <3>4. Signal("checks_skipped", first, 0, 0).code = "checks_skipped"
      BY DEF Signal
    <3> QED
      BY <2>2, <3>3, <3>4, ToldOne
  <2> QED
    BY <2>1, <2>2
<1> HIDE DEF unread, pages
<1>6. Adds(ToldOf(unread) \cup ToldOf(pages))
  <2>1. unread \o pages \in Seq(Signals) /\ ToldOf(unread \o pages) = ToldOf(unread) \cup ToldOf(pages)
    BY <1>4, <1>5, ToldMore
  <2>2. PICK all \in Seq(Signals) : all = unread \o pages
    BY <2>1
  <2>3. Adds(ToldOf(all))
    BY <1>1, <1>3, <2>2, AddsAll
  <2> QED
    BY <2>1, <2>2, <2>3
<1> QED
  BY <1>4, <1>5, <1>6

-----------------------------------------------------------------------------
(* Runs, fills and what one takes of the other                             *)

LEMMA OverlapType ==
    ASSUME NEW a, NEW b, a.from \in Int, a.to \in Int, b.from \in Int, b.to \in Int
    PROVE  /\ Width(a) \in Nat /\ Overlap(a, b) \in Nat
           /\ Overlap(a, b) = LET lo == IF a.from >= b.from THEN a.from ELSE b.from
                                  hi == IF a.to <= b.to THEN a.to ELSE b.to
                              IN  IF hi > lo THEN hi - lo ELSE 0
BY DEF Width, Overlap

LEMMA SpanParts ==
    ASSUME source \in Sources, FromPages, NEW run \in spans
    PROVE  /\ run.page \in DOMAIN source.pages /\ run \in Runs(run.page)
           /\ run.seqno \in Texts(run.page) /\ run.seqno \in Nat
           /\ run.index \in DOMAIN Commands(run.page)[run.seqno].runs
           /\ run.glyphs = Commands(run.page)[run.seqno].runs[run.index].glyphs
           /\ run.finite /\ run.glyphs # <<>>
           /\ \A g \in DOMAIN run.glyphs :
                /\ g \in Nat /\ run.glyphs[g].from \in Int /\ run.glyphs[g].to \in Int
                /\ Width(run.glyphs[g]) \in Nat
<1>1. run.page \in DOMAIN source.pages /\ run \in Finite(Visible(run.page))
  BY DEF FromPages
<1>2. run \in Runs(run.page) /\ run.finite /\ run.glyphs # <<>>
  BY <1>1 DEF Finite, Visible
<1>3. PICK n \in DOMAIN source.pages : n = run.page
  BY <1>1
<1>4. /\ run.seqno \in Texts(n) /\ run.seqno \in Nat
      /\ run.index \in DOMAIN Commands(n)[run.seqno].runs
      /\ run.glyphs = Commands(n)[run.seqno].runs[run.index].glyphs
      /\ run.glyphs \in Seq(Boxes)
  BY <1>2, <1>3, RunParts
<1>5. ASSUME NEW g \in DOMAIN run.glyphs
      PROVE  /\ g \in Nat /\ run.glyphs[g].from \in Int /\ run.glyphs[g].to \in Int
             /\ Width(run.glyphs[g]) \in Nat
  <2>1. g \in Nat
    BY <1>4
  <2>2. run.glyphs[g] \in Boxes
    BY <1>4, Member
  <2>3. run.glyphs[g].from \in Int /\ run.glyphs[g].to \in Int
    BY <2>2 DEF Boxes
  <2> QED
    BY <2>1, <2>3 DEF Width
<1> QED
  BY <1>1, <1>2, <1>3, <1>4, <1>5

LEMMA CoverParts ==
    ASSUME source \in Sources, FromPages, NEW fill \in fills
    PROVE  /\ fill.page \in DOMAIN source.pages /\ fill \in Fills(fill.page)
           /\ fill.seqno \in Paths(fill.page) /\ fill.seqno \in Nat
           /\ fill = FillOf(fill.page, fill.seqno)
           /\ fill.box = Commands(fill.page)[fill.seqno].box
           /\ fill.opacity = Opacity(Commands(fill.page)[fill.seqno])
           /\ fill.box.from \in Int /\ fill.box.to \in Int
           /\ fill.finite /\ fill.opacity \in 1..100
<1>1. fill.page \in DOMAIN source.pages /\ fill \in Finite(Fills(fill.page))
  BY DEF FromPages
<1>2. fill \in Fills(fill.page) /\ fill.finite
  BY <1>1 DEF Finite
<1> QED
  BY <1>1, <1>2, FillParts

(* Where two boxes share a cell they overlap, and by as many as they share.*)
LEMMA CellsTaken ==
    ASSUME NEW a, NEW b, a.from \in Int, a.to \in Int, b.from \in Int, b.to \in Int
    PROVE  LET cells == {c \in a.from..(a.to - 1) : Inside(c, b)}
           IN  /\ IsFiniteSet(cells) /\ Cardinality(cells) <= Overlap(a, b)
               /\ cells # {} => Overlap(a, b) > 0
<1> DEFINE cells == {c \in a.from..(a.to - 1) : Inside(c, b)}
           lo == IF a.from >= b.from THEN a.from ELSE b.from
           hi == IF a.to <= b.to THEN a.to ELSE b.to
<1>1. lo \in Int /\ hi \in Int /\ Overlap(a, b) = IF hi > lo THEN hi - lo ELSE 0
  BY OverlapType
<1>2. cells \subseteq lo..(hi - 1)
  BY DEF Inside
<1> HIDE DEF lo, hi, cells
<1>3. /\ IsFiniteSet(lo..(hi - 1))
      /\ Cardinality(lo..(hi - 1)) = IF lo > hi - 1 THEN 0 ELSE (hi - 1) - lo + 1
  BY <1>1, FS_Interval
<1>4. IsFiniteSet(cells) /\ Cardinality(cells) <= Cardinality(lo..(hi - 1))
  BY <1>2, <1>3, FS_Subset
<1>5. Cardinality(cells) \in Nat
  BY <1>4, FS_CardinalityType
<1>6. Cardinality(cells) <= Overlap(a, b)
  BY <1>1, <1>3, <1>4, <1>5
<1>7. cells # {} => Overlap(a, b) > 0
  <2> SUFFICES ASSUME NEW c \in cells PROVE Overlap(a, b) > 0
    OBVIOUS
  <2>1. c \in lo..(hi - 1)
    BY <1>2
  <2> QED
    BY <1>1, <2>1
<1> QED
  BY <1>4, <1>6, <1>7 DEF cells

-----------------------------------------------------------------------------
(* The pages are read                                                      *)

LEMMA IInvParts ==
    ASSUME IInv
    PROVE  /\ source \in Sources /\ signals \in Seq(Signals) /\ FromPages
           /\ page \in 1..(Len(source.pages) + 1) /\ page \in Nat
           /\ IsFiniteSet(spans) /\ IsFiniteSet(fills)
           /\ unreadable \in Nat /\ oversized \subseteq DOMAIN source.pages
           /\ skipped \subseteq DOMAIN source.pages
           /\ DOMAIN source.pages = 1..Len(source.pages) /\ Len(source.pages) \in Nat
BY SourceParts DEF IInv, TypeOK, ReadWell

LEMMA SourceStays == ASSUME Next PROVE source' = source
BY DEF Next, Mismatch, ParseEncrypted, ParseRejects, Reconciliation, DayStep, DaysDone, Period,
       XlsxFile, PdfFile, OversizedPage, ReadPage, FileFails, PdfSignals, Triage, PlainPage,
       PageOverBudget, BeginPage, ComparePair, EndPage, ReportSkipped, Order, Over, vars

LEMMA PagesStay ==
    ASSUME source' = source
    PROVE  /\ \A n : Visible(n)' = Visible(n) /\ Fills(n)' = Fills(n)
           /\ \A n, q : UnderFill(n, q)' = UnderFill(n, q)
           /\ \A n : Hidden(n)' = Hidden(n)
           /\ \A n : AllNumbers(n)' = AllNumbers(n)
<1>1. \A n : Visible(n)' = Visible(n) /\ Fills(n)' = Fills(n)
  BY DEF Visible, Runs, Fills, Texts, Paths, Commands
<1>2. \A n, q : UnderFill(n, q)' = UnderFill(n, q)
  BY DEF UnderFill, DrawnOver, Commands
<1>3. \A n : Hidden(n)' = Hidden(n)
  BY DEF Hidden, HiddenRun, Lost, Hiding, DrawnOver, Texts, Commands
<1>4. \A n : AllNumbers(n)' = AllNumbers(n)
  BY <1>1 DEF AllNumbers
<1> QED
  BY <1>1, <1>2, <1>3, <1>4

(* A page that is read adds its numbers to the spans and fills.            *)
LEMMA ReadPageReads ==
    ASSUME IInv, ReadPage
    PROVE  /\ IsFiniteSet(spans') /\ IsFiniteSet(fills') /\ unreadable' \in Nat
           /\ unreadable' = 0 => unreadable = 0 /\ AllNumbers(page)
           /\ page \in DOMAIN source.pages
<1>1. page \in DOMAIN source.pages /\ source \in Sources /\ unreadable \in Nat
  BY IInvParts DEF ReadPage
<1>2. IsFiniteSet(Runs(page)) /\ IsFiniteSet(Fills(page))
  BY <1>1, PageFinite
<1> DEFINE lostRuns == Visible(page) \ Finite(Visible(page))
           lostFills == Fills(page) \ Finite(Fills(page))
<1>3. IsFiniteSet(Visible(page))
  BY <1>2, FS_Subset DEF Visible
<1>4. IsFiniteSet(Finite(Visible(page))) /\ IsFiniteSet(Finite(Fills(page)))
  BY <1>2, <1>3, FS_Subset DEF Finite
<1>5. IsFiniteSet(lostRuns) /\ IsFiniteSet(lostFills)
  BY <1>2, <1>3, FS_Difference
<1> HIDE DEF lostRuns, lostFills
<1>6. Cardinality(lostRuns) \in Nat /\ Cardinality(lostFills) \in Nat
  BY <1>5, FS_CardinalityType
<1>7. unreadable' = unreadable + Cardinality(lostRuns) + Cardinality(lostFills)
  BY DEF ReadPage, lostRuns, lostFills
<1>8. unreadable' = 0 => lostRuns = {} /\ lostFills = {}
  <2>1. unreadable' = 0 => Cardinality(lostRuns) = 0 /\ Cardinality(lostFills) = 0
    BY <1>1, <1>6, <1>7
  <2> QED
    BY <1>5, <2>1, FS_EmptySet, Zenon
<1>9. unreadable' = 0 => AllNumbers(page)
  BY <1>8 DEF lostRuns, lostFills, AllNumbers, Finite
<1>10. IsFiniteSet(spans') /\ IsFiniteSet(fills')
  BY <1>4, IInvParts, FS_Union DEF ReadPage
<1> QED
  BY <1>1, <1>6, <1>7, <1>9, <1>10

LEMMA ReadPageKeeps == ASSUME IInv, ReadPage PROVE ReadWell'
<1>1. source' = source /\ pc = "read" /\ pc' = "read" /\ page' = page + 1 /\ oversized' = oversized
      /\ skipped' = skipped /\ skipped = {} /\ ~Sifted /\ ~Sifted'
  BY DEF ReadPage, overlay, Sifted, Final, IInv, ReadWell
<1>2. spans' = spans \cup Finite(Visible(page)) /\ fills' = fills \cup Finite(Fills(page))
  BY DEF ReadPage
<1>3. page \in DOMAIN source.pages /\ source \in Sources /\ FromPages /\ page \in Nat
  BY IInvParts, ReadPageReads
<1>4. \A run \in Finite(Visible(page)) : run.page = page
  BY <1>3, RunParts DEF Finite, Visible
<1>5. \A fill \in Finite(Fills(page)) : fill.page = page
  BY <1>3, FillParts DEF Finite
<1>6. FromPages'
  <2>1. ASSUME NEW run \in spans'
        PROVE  run.page \in DOMAIN source.pages /\ run \in Finite(Visible(run.page))
    BY <1>2, <1>3, <1>4 DEF FromPages
  <2>2. ASSUME NEW fill \in fills'
        PROVE  fill.page \in DOMAIN source.pages /\ fill \in Finite(Fills(fill.page))
    BY <1>2, <1>3, <1>5 DEF FromPages
  <2> QED
    BY <1>1, <2>1, <2>2, PagesStay DEF FromPages, Finite
<1>7. PagesRead = 1..(page - 1) /\ PagesRead' = 1..page
  BY <1>1, <1>3 DEF PagesRead
<1>8. ASSUME NEW n \in 1..page, n \notin oversized
      PROVE  /\ unreadable' = 0 => AllNumbers(n)
             /\ Finite(Visible(n)) \subseteq spans' /\ Finite(Fills(n)) \subseteq fills'
  <2>1. CASE n = page
    BY <1>2, <2>1, ReadPageReads
  <2>2. CASE n # page
    <3>1. n \in PagesRead \ oversized
      BY <1>3, <1>7, <1>8, <2>2
    <3>2. (unreadable = 0 => AllNumbers(n)) /\ ReadIn(n)
      BY <1>1, <3>1 DEF IInv, ReadWell
    <3>3. Finite(Visible(n)) \subseteq spans /\ Finite(Fills(n)) \subseteq fills
      BY <1>1, <3>2 DEF ReadIn
    <3> QED
      BY <1>2, <3>2, <3>3, ReadPageReads
  <2> QED
    BY <2>1, <2>2
<1>9. ASSUME NEW n \in PagesRead' \ oversized'
      PROVE  (unreadable' = 0 => AllNumbers(n)') /\ ReadIn(n)'
  <2>1. /\ unreadable' = 0 => AllNumbers(n)
        /\ Finite(Visible(n)) \subseteq spans' /\ Finite(Fills(n)) \subseteq fills'
    BY <1>1, <1>7, <1>8, <1>9
  <2> QED
    BY <1>1, <2>1, PagesStay DEF AllNumbers, ReadIn, Finite
<1> QED
  BY <1>1, <1>6, <1>9, ReadPageReads DEF ReadWell

(* A step that reads nothing keeps what was read.                          *)
Unread == {"start", "days", "period", "file", "read", "triage"}

LEMMA NothingRead ==
    ASSUME IInv, source' = source, UNCHANGED forensics, skipped \subseteq skipped',
           pc' \in Unread => pc \in Unread /\ skipped' = skipped,
           PagesRead' \subseteq PagesRead, Sifted' => Sifted,
           Sifted' \/ ~Sifted \/ PagesRead' = {}
    PROVE  ReadWell'
<1>1. spans' = spans /\ fills' = fills /\ unreadable' = unreadable /\ oversized' = oversized
  BY DEF forensics
<1>2. FromPages'
  <2>1. FromPages
    BY IInvParts
  <2> QED
    BY <1>1, <2>1, PagesStay DEF FromPages, Finite, IsCover
<1>3. ASSUME NEW n \in PagesRead' \ oversized'
      PROVE  (unreadable' = 0 => AllNumbers(n)') /\ (n \in skipped' \/ ReadIn(n)')
  <2>1. (unreadable = 0 => AllNumbers(n)) /\ (n \in skipped \/ ReadIn(n))
    BY <1>1, <1>3 DEF IInv, ReadWell
  <2>2. ReadIn(n) => ReadIn(n)'
    BY <1>1, <1>3, PagesStay DEF ReadIn, Finite, IsCover
  <2> QED
    BY <1>1, <2>1, <2>2, PagesStay
<1>4. pc' \in Unread => skipped' = {}
  BY DEF IInv, ReadWell, Unread
<1> QED
  BY <1>1, <1>2, <1>3, <1>4, IInvParts DEF ReadWell, Unread

LEMMA OversizedPageKeeps == ASSUME IInv, OversizedPage PROVE ReadWell'
<1>1. source' = source /\ pc = "read" /\ pc' = "read" /\ page' = page + 1
      /\ oversized' = oversized \cup {page} /\ skipped' = skipped /\ ~Sifted /\ ~Sifted'
      /\ spans' = spans /\ fills' = fills /\ unreadable' = unreadable
  BY DEF OversizedPage, overlay, Sifted, Final
<1>2. FromPages /\ page \in Nat
  BY IInvParts
<1>3. FromPages'
  BY <1>1, <1>2, PagesStay DEF FromPages, Finite
<1>4. PagesRead = 1..(page - 1) /\ PagesRead' = 1..page
  BY <1>1, <1>2 DEF PagesRead
<1>5. ASSUME NEW n \in PagesRead' \ oversized'
      PROVE  (unreadable' = 0 => AllNumbers(n)') /\ (n \in skipped' \/ ReadIn(n)')
  <2>1. n \in PagesRead \ oversized
    BY <1>1, <1>2, <1>4, <1>5
  <2>2. (unreadable = 0 => AllNumbers(n)) /\ (n \in skipped \/ ReadIn(n))
    BY <2>1 DEF IInv, ReadWell
  <2> QED
    BY <1>1, <2>2, PagesStay DEF ReadIn, Finite
<1> QED
  BY <1>1, <1>3, <1>5, IInvParts DEF ReadWell, IInv

LEMMA TriageKeeps == ASSUME IInv, Triage PROVE ReadWell'
<1>1. /\ source' = source /\ pc = "triage" /\ pc' = "overlay"
      /\ spans' = OffPages(spans, Crowded) /\ fills' = OffPages(Covers, Crowded)
      /\ skipped' = Crowded /\ oversized' = oversized /\ unreadable' = unreadable
      /\ Sifted' /\ PagesRead = DOMAIN source.pages /\ PagesRead' = DOMAIN source.pages
      /\ skipped = {} /\ ~Sifted
  BY DEF Triage, Sifted, Final, PagesRead, IInv, ReadWell
<1>2. spans' \subseteq spans /\ fills' \subseteq fills /\ \A fill \in fills' : IsCover(fill)
  BY <1>1 DEF OffPages, Covers
<1>3. IsFiniteSet(spans') /\ IsFiniteSet(fills')
  BY <1>2, IInvParts, FS_Subset
<1>4. FromPages'
  <2>1. FromPages
    BY IInvParts
  <2> QED
    BY <1>1, <1>2, <2>1, PagesStay DEF FromPages, Finite, IsCover
<1>5. ASSUME NEW n \in DOMAIN source.pages \ oversized
      PROVE  (unreadable = 0 => AllNumbers(n)) /\ (n \in skipped' \/ ReadIn(n)')
  <2>1. (unreadable = 0 => AllNumbers(n)) /\ ReadIn(n)
    BY <1>1, <1>5 DEF IInv, ReadWell
  <2>2. ASSUME n \notin Crowded
        PROVE  /\ Finite(Visible(n)) \subseteq spans'
               /\ \A fill \in Finite(Fills(n)) : IsCover(fill) => fill \in fills'
    <3>1. \A run \in Finite(Visible(n)) : run.page = n
      BY IInvParts, RunParts DEF Finite, Visible
    <3>2. \A fill \in Finite(Fills(n)) : fill.page = n
      BY IInvParts, FillParts DEF Finite
    <3>3. Finite(Visible(n)) \subseteq spans /\ Finite(Fills(n)) \subseteq fills
      BY <1>1, <2>1 DEF ReadIn
    <3> QED
      BY <1>1, <2>2, <3>1, <3>2, <3>3 DEF OffPages, Covers
  <2> QED
    BY <1>1, <2>1, <2>2, PagesStay DEF ReadIn, Finite, IsCover
<1> QED
  BY <1>1, <1>3, <1>4, <1>5, PagesStay DEF ReadWell

(* What was read of the pages is kept by every step.                       *)
LEMMA ReadStep == ASSUME IInv, Next PROVE ReadWell'
<1>1. source' = source
  BY SourceStays
<1>2. page \in Nat /\ page \in 1..(Len(source.pages) + 1)
      /\ DOMAIN source.pages = 1..Len(source.pages) /\ Len(source.pages) \in Nat
  BY IInvParts
<1>3. CASE \/ Mismatch \/ ParseEncrypted \/ ParseRejects \/ Reconciliation \/ DayStep
           \/ DaysDone \/ Period \/ XlsxFile \/ FileFails
  <2>1. UNCHANGED forensics /\ skipped' = skipped /\ ~Sifted'
        /\ PagesRead' = {} /\ (pc' \in Unread => pc \in Unread)
    BY <1>1, <1>3 DEF Mismatch, ParseEncrypted, ParseRejects, Reconciliation, DayStep, DaysDone,
       Period, XlsxFile, FileFails, overlay, Unread, Sifted, Final, PagesRead
  <2> QED
    BY <1>1, <2>1, NothingRead
<1>4. CASE PdfFile
  <2>1. UNCHANGED forensics /\ skipped' = skipped /\ ~Sifted' /\ pc \in Unread
        /\ pc' = "read" /\ page' = 1
    BY <1>4 DEF PdfFile, overlay, Unread, Sifted, Final
  <2>2. PagesRead' = {} /\ ~Sifted
    BY <1>4, <2>1 DEF PagesRead, Sifted, Final, PdfFile
  <2> QED
    BY <1>1, <2>1, <2>2, NothingRead
<1>5. CASE PdfSignals
  <2>1. UNCHANGED forensics /\ skipped' = skipped /\ ~Sifted /\ ~Sifted' /\ pc \in Unread
        /\ pc = "read" /\ pc' = "triage" /\ page > Len(source.pages)
    BY <1>5 DEF PdfSignals, overlay, Unread, Sifted, Final
  <2>2. PagesRead = 1..(page - 1) /\ PagesRead' = DOMAIN source.pages
    BY <1>1, <2>1 DEF PagesRead
  <2>3. PagesRead' = PagesRead
    BY <1>2, <2>1, <2>2
  <2> QED
    BY <1>1, <2>1, <2>3, NothingRead
<1>6. CASE PlainPage \/ PageOverBudget \/ BeginPage \/ ComparePair \/ EndPage
  <2>1. UNCHANGED forensics /\ skipped \subseteq skipped' /\ Sifted /\ Sifted'
        /\ pc \in {"overlay", "compare"} /\ pc' \in {"overlay", "compare"}
    BY <1>6 DEF PlainPage, PageOverBudget, BeginPage, ComparePair, EndPage, overlay, Sifted, Final
  <2>2. PagesRead' = PagesRead /\ pc' \notin Unread
    BY <1>1, <2>1 DEF PagesRead, Unread
  <2> QED
    BY <1>1, <2>1, <2>2, NothingRead
<1>7. CASE ReportSkipped
  <2>1. UNCHANGED forensics /\ skipped' = skipped /\ Sifted /\ pc = "overlay" /\ pc' = "order"
    BY <1>7 DEF ReportSkipped, overlay, Sifted, Final
  <2>2. PagesRead = DOMAIN source.pages /\ pc' \notin Unread
        /\ PagesRead' = IF Sifted' THEN DOMAIN source.pages ELSE {}
    BY <1>1, <2>1 DEF PagesRead, Unread
  <2> QED
    BY <1>1, <2>1, <2>2, NothingRead
<1>8. CASE Order \/ Over
  <2>1. UNCHANGED forensics /\ skipped' = skipped
        /\ \/ pc = "order" /\ pc' = "reported"
           \/ pc' = pc /\ page' = page
    BY <1>8 DEF Order, Over, vars, overlay, forensics
  <2>2. (Sifted' <=> Sifted) /\ (pc' \in Unread => pc \in Unread)
    BY <1>1, <2>1 DEF Sifted, Final, Unread
  <2>3. PagesRead' = PagesRead
    BY <1>1, <2>1, <2>2 DEF PagesRead
  <2> QED
    BY <1>1, <2>1, <2>2, <2>3, NothingRead
<1> QED
  BY <1>3, <1>4, <1>5, <1>6, <1>7, <1>8, ReadPageKeeps, OversizedPageKeeps, TriageKeeps DEF Next

-----------------------------------------------------------------------------
(* One comparison                                                          *)

LEMMA PairOf ==
    ASSUME IInv, ComparePair
    PROVE  \E fill \in PageFills : \E run \in PageSpans :
             <<fill, run>> \in left /\ Compare(fill, run) /\ left' = left \ {<<fill, run>>}
<1>1. pc = "compare" /\ left \subseteq PageFills \X PageSpans
  BY DEF ComparePair, IInv, CompareWell, PageCompared
<1>2. PICK next \in left : Compare(next[1], next[2]) /\ left' = left \ {next}
  BY DEF ComparePair
<1>3. next[1] \in PageFills /\ next[2] \in PageSpans /\ next = <<next[1], next[2]>>
  BY <1>1
<1>4. PICK fill \in PageFills, run \in PageSpans : fill = next[1] /\ run = next[2]
  BY <1>3
<1> QED
  BY <1>2, <1>3, <1>4

LEMMA AlreadyType ==
    ASSUME TypeOK, NEW q, NEW g
    PROVE  Already(q, g) \in Nat
BY DEF Already, TypeOK

(* What a glyph of a run has lost once the fill was held against it.       *)
LEMMA TakenType ==
    ASSUME IInv, NEW fill \in fills, NEW run \in spans, NEW g \in DOMAIN run.glyphs
    PROVE  /\ Taken(fill, run, g) = Already(run.seqno, g) + Overlap(run.glyphs[g], fill.box)
           /\ Taken(fill, run, g) \in Nat /\ Already(run.seqno, g) \in Nat
           /\ Overlap(run.glyphs[g], fill.box) \in Nat
<1>1. source \in Sources /\ FromPages
  BY IInvParts
<1>2. /\ run.glyphs[g].from \in Int /\ run.glyphs[g].to \in Int
      /\ fill.box.from \in Int /\ fill.box.to \in Int
  BY <1>1, SpanParts, CoverParts
<1>3. Overlap(run.glyphs[g], fill.box) \in Nat
  BY <1>2, OverlapType
<1>4. Already(run.seqno, g) \in Nat
  BY AlreadyType DEF IInv
<1> QED
  BY <1>3, <1>4 DEF Taken

(* What a comparison leaves counted.                                       *)
LEMMA TallyIs ==
    ASSUME IInv, NEW fill \in fills, NEW run \in spans, covered' = Tally(fill, run)
    PROVE  /\ \A k \in DOMAIN covered' :
                \/ k \in DOMAIN covered /\ covered'[k] = covered[k]
                \/ \E g \in Counted(fill, run) :
                     k = <<run.seqno, g>> /\ covered'[k] = Taken(fill, run, g)
           /\ \A g \in Counted(fill, run) : Already(run.seqno, g)' = Taken(fill, run, g)
           /\ \A q, g : <<q, g>> \notin {<<run.seqno, h>> : h \in Counted(fill, run)}
                          => Already(q, g)' = Already(q, g)
<1> DEFINE keys == {<<run.seqno, g>> : g \in Counted(fill, run)}
<1>1. covered' = [k \in DOMAIN covered \cup keys |->
                    IF k \in keys THEN Taken(fill, run, k[2]) ELSE covered[k]]
  BY DEF Tally
<1>2. ASSUME NEW k \in DOMAIN covered'
      PROVE  \/ k \in DOMAIN covered /\ covered'[k] = covered[k]
             \/ \E g \in Counted(fill, run) :
                  k = <<run.seqno, g>> /\ covered'[k] = Taken(fill, run, g)
  BY <1>1
<1>3. ASSUME NEW g \in Counted(fill, run)
      PROVE  Already(run.seqno, g)' = Taken(fill, run, g)
  <2>1. <<run.seqno, g>> \in keys /\ <<run.seqno, g>>[2] = g
    OBVIOUS
  <2>2. <<run.seqno, g>> \in DOMAIN covered' /\ covered'[<<run.seqno, g>>] = Taken(fill, run, g)
    BY <1>1, <2>1
  <2> QED
    BY <2>2 DEF Already
<1>4. ASSUME NEW q, NEW g, <<q, g>> \notin keys
      PROVE  Already(q, g)' = Already(q, g)
  <2>1. /\ <<q, g>> \in DOMAIN covered' <=> <<q, g>> \in DOMAIN covered
        /\ <<q, g>> \in DOMAIN covered => covered'[<<q, g>>] = covered[<<q, g>>]
    BY <1>1, <1>4
  <2> QED
    BY <2>1 DEF Already
<1> QED
  BY <1>2, <1>3, <1>4

LEMMA CompareIs ==
    ASSUME IInv, NEW fill \in PageFills, NEW run \in PageSpans, Compare(fill, run),
           pc = "compare"
    PROVE  /\ compared' = compared \cup {<<page, run.seqno, fill.seqno>>}
           /\ \/ /\ run.seqno \in seen \/ run.seqno >= fill.seqno \/ ~Touches(fill, run)
                 /\ UNCHANGED <<seen, covered>> /\ Adds({})
              \/ /\ run.seqno \notin seen /\ run.seqno < fill.seqno /\ Touches(fill, run)
                 /\ covered' = Tally(fill, run) /\ Gone(fill, run) = {}
                 /\ seen' = seen /\ Adds({})
              \/ /\ run.seqno \notin seen /\ run.seqno < fill.seqno /\ Touches(fill, run)
                 /\ covered' = Tally(fill, run) /\ Gone(fill, run) # {}
                 /\ seen' = seen \cup {run.seqno}
                 /\ Adds({Signal("overlay_over_text", page, 0, run.seqno)})
<1>1. fill \in fills /\ run \in spans
  BY DEF PageFills, PageSpans, OnPage
<1>2. fill.seqno \in Nat /\ run.seqno \in Nat /\ page \in Nat /\ signals \in Seq(Signals)
  BY <1>1, IInvParts, SpanParts, CoverParts
<1>3. Signal("overlay_over_text", page, 0, run.seqno) \in Signals
  BY <1>2, SignalType DEF Codes
<1>4. compared' = compared \cup {<<page, run.seqno, fill.seqno>>}
  BY DEF Compare
<1>5. CASE run.seqno \in seen \/ run.seqno >= fill.seqno \/ ~Touches(fill, run)
  <2>1. UNCHANGED <<seen, covered, signals>>
    BY <1>5 DEF Compare
  <2> QED
    BY <1>2, <1>4, <1>5, <2>1, AddsNone
<1>6. CASE ~(run.seqno \in seen \/ run.seqno >= fill.seqno \/ ~Touches(fill, run))
  <2>1. /\ covered' = Tally(fill, run)
        /\ IF Gone(fill, run) = {} THEN UNCHANGED <<seen, signals>>
           ELSE /\ seen' = seen \cup {run.seqno}
                /\ Report(<<Signal("overlay_over_text", page, 0, run.seqno)>>)
    BY <1>6 DEF Compare
  <2>2. run.seqno \notin seen /\ run.seqno < fill.seqno /\ Touches(fill, run)
    BY <1>2, <1>6
  <2>3. CASE Gone(fill, run) = {}
    <3>1. seen' = seen /\ Adds({})
      BY <1>2, <2>1, <2>3, AddsNone
    <3> QED
      BY <1>4, <2>1, <2>2, <2>3, <3>1
  <2>4. CASE Gone(fill, run) # {}
    <3>1. seen' = seen \cup {run.seqno}
          /\ Adds({Signal("overlay_over_text", page, 0, run.seqno)})
      BY <1>2, <1>3, <2>1, <2>4, AddsOne
    <3> QED
      BY <1>4, <2>1, <2>2, <2>4, <3>1
  <2> QED
    BY <2>3, <2>4
<1> QED
  BY <1>5, <1>6

-----------------------------------------------------------------------------
(* The report only grows, and only two steps speak of days and overlays    *)

Others == Codes \ {"date_out_of_order", "overlay_over_text"}

LEMMA QuietSteps ==
    ASSUME IInv, Next, ~DayStep, ~ComparePair
    PROVE  \E S : Adds(S) /\ \A s \in S : s.code \in Others
<1>1. source \in Sources /\ TypeOK /\ signals \in Seq(Signals)
  BY IInvParts DEF IInv
<1>2. \A n, row, text : \A code \in Others : Signal(code, n, row, text).code \in Others
  BY DEF Signal
<1>3. /\ "unparseable" \in Others /\ "reconciliation_failed" \in Others
      /\ "checks_skipped" \in Others /\ "date_outside_period" \in Others
      /\ "unexpected_producer" \in Others /\ Marks \subseteq Others
  BY DEF Others, Codes, Marks
<1>4. CASE UNCHANGED signals
  BY <1>1, <1>4, AddsNone
<1>5. CASE ParseRejects
  BY <1>1, <1>2, <1>3, <1>5, RejectsAdds
<1>6. CASE Reconciliation
  BY <1>1, <1>2, <1>3, <1>6, ReconciliationAdds
<1>7. CASE Period
  <2>1. CASE Adds({})
    BY <2>1
  <2>2. CASE \E k \in Nat : Adds({Signal("date_outside_period", 0, k, 0)})
    <3>1. PICK k \in Nat : Adds({Signal("date_outside_period", 0, k, 0)})
      BY <2>2
    <3> QED
      BY <1>2, <1>3, <3>1
  <2> QED
    BY <1>1, <1>7, <2>1, <2>2, PeriodAdds
<1>8. CASE XlsxFile
  BY <1>1, <1>2, <1>3, <1>8, XlsxAdds
<1>9. CASE FileFails
  BY <1>1, <1>2, <1>3, <1>9, FailsAdds
<1>10. CASE PdfSignals
  BY <1>1, <1>3, <1>10, MarksAdd
<1>11. CASE ReportSkipped
  BY <1>1, <1>3, <1>11, SkippedAdds
<1>12. CASE Order
  BY <1>1, <1>12, OrderAdds
<1>13. CASE \/ Mismatch \/ ParseEncrypted \/ DaysDone \/ PdfFile \/ OversizedPage \/ ReadPage
            \/ Triage \/ PlainPage \/ PageOverBudget \/ BeginPage \/ EndPage \/ Over
  BY <1>4, <1>13 DEF Mismatch, ParseEncrypted, DaysDone, PdfFile, OversizedPage, ReadPage, Triage,
     PlainPage, PageOverBudget, BeginPage, EndPage, Over, vars
<1> QED
  BY <1>5, <1>6, <1>7, <1>8, <1>9, <1>10, <1>11, <1>12, <1>13 DEF Next

LEMMA SaysMore ==
    ASSUME IInv, Next
    PROVE  /\ signals' \in Seq(Signals)
           /\ \A code : Reported(code) \subseteq Reported(code)'
           /\ ~DayStep => Reported("date_out_of_order")' = Reported("date_out_of_order")
           /\ ~ComparePair => Reported("overlay_over_text")' = Reported("overlay_over_text")
<1>1. ASSUME NEW S, Adds(S), \A s \in S : s.code \in Others
      PROVE  /\ signals' \in Seq(Signals)
             /\ \A code : Reported(code) \subseteq Reported(code)'
             /\ Reported("date_out_of_order")' = Reported("date_out_of_order")
             /\ Reported("overlay_over_text")' = Reported("overlay_over_text")
  <2>1. \A s \in S : s.code # "date_out_of_order" /\ s.code # "overlay_over_text"
    BY <1>1 DEF Others
  <2> QED
    BY <1>1, <2>1 DEF Adds, Reported
<1>2. CASE ~DayStep /\ ~ComparePair
  BY <1>1, <1>2, QuietSteps
<1>3. CASE DayStep
  <2>1. Adds({}) \/ Adds({Signal("date_out_of_order", 0, i, 0)})
    BY <1>3, DayStepAdds DEF IInv
  <2>2. Signal("date_out_of_order", 0, i, 0).code # "overlay_over_text"
    BY DEF Signal
  <2>3. ~ComparePair
    BY <1>3 DEF DayStep, ComparePair
  <2> QED
    BY <1>3, <2>1, <2>2 DEF Adds, Reported
<1>4. CASE ComparePair
  <2>1. PICK fill \in PageFills, run \in PageSpans : Compare(fill, run)
    BY <1>4, PairOf
  <2>2. Adds({}) \/ Adds({Signal("overlay_over_text", page, 0, run.seqno)})
    BY <1>4, <2>1, CompareIs DEF ComparePair
  <2>3. Signal("overlay_over_text", page, 0, run.seqno).code # "date_out_of_order"
    BY DEF Signal
  <2>4. ~DayStep
    BY <1>4 DEF DayStep, ComparePair
  <2> QED
    BY <1>4, <2>2, <2>3 DEF Adds, Reported
<1> QED
  BY <1>2, <1>3, <1>4

-----------------------------------------------------------------------------
(* Types                                                                   *)

(* The loops, the counters and the locals of the cover check.              *)
Plain ==
    /\ pc \in {"start", "days", "period", "file", "read", "triage", "overlay", "compare",
               "order", "reported", "refused", "encrypted", "failed"}
    /\ guarded \in BOOLEAN /\ (guarded => source.parse = "rejected")
    /\ i \in Nat \ {0} /\ direction \in {-1, 0, 1}
    /\ page \in 1..(Len(source.pages) + 1) /\ left \subseteq fills \X spans
    /\ unreadable \in Nat /\ oversized \subseteq DOMAIN source.pages
    /\ seen \subseteq Nat /\ spent \in Nat /\ work \in Nat
    /\ \A k \in DOMAIN covered : covered[k] \in Nat
    /\ skipped \subseteq DOMAIN source.pages

LEMMA PlainTypes ==
    ASSUME source \in Sources, FromPages, signals \in Seq(Signals), Plain
    PROVE  TypeOK
<1>1. \A run \in spans : run.page \in DOMAIN source.pages /\ run.finite /\ run.glyphs # <<>>
  BY SpanParts
<1>2. \A fill \in fills : /\ fill.page \in DOMAIN source.pages /\ fill.finite
                          /\ fill.opacity \in 1..100
  BY CoverParts
<1> QED
  BY <1>1, <1>2 DEF TypeOK, Plain

LEMMA StepTypes == \A k \in Int : Step(k) \in {-1, 0, 1}
BY DEF Step

LEMMA CostType == ASSUME IInv PROVE Cost \in Nat /\ IsFiniteSet(PageFills) /\ IsFiniteSet(PageSpans)
<1>1. IsFiniteSet(PageFills) /\ IsFiniteSet(PageSpans)
  BY IInvParts, FS_Subset DEF PageFills, PageSpans, OnPage
<1>2. Cardinality(PageFills) \in Nat /\ Cardinality(PageSpans) \in Nat
  BY <1>1, FS_CardinalityType
<1> QED
  BY <1>1, <1>2 DEF Cost

LEMMA PlainStep == ASSUME IInv, Next PROVE Plain'
<1>1. Plain /\ source' = source /\ source \in Sources
  BY SourceStays, IInvParts DEF IInv, TypeOK, Plain
<1>2. page \in Nat /\ page \in 1..(Len(source.pages) + 1)
      /\ DOMAIN source.pages = 1..Len(source.pages) /\ Len(source.pages) \in Nat
  BY IInvParts
<1>3. CASE \/ Mismatch \/ ParseEncrypted \/ ParseRejects \/ Reconciliation
           \/ DaysDone \/ Period \/ XlsxFile \/ FileFails
  <2>1. UNCHANGED <<source, rowLoop, page, forensics, overlay>>
    BY <1>3 DEF Mismatch, ParseEncrypted, ParseRejects, Reconciliation,
       DaysDone, Period, XlsxFile, FileFails
  <2>2. pc' \in {"refused", "encrypted", "file", "days", "period", "order", "failed"}
    BY <1>3 DEF Mismatch, ParseEncrypted, ParseRejects, Reconciliation,
       DaysDone, Period, XlsxFile, FileFails
  <2>3. CASE ParseRejects
    BY <1>1, <2>1, <2>2, <2>3, SourceParts DEF ParseRejects, overlay, rowLoop, forensics, Plain
  <2>4. CASE ~ParseRejects
    <3>1. guarded' = guarded
      BY <1>3, <2>4 DEF Mismatch, ParseEncrypted, Reconciliation,
         DaysDone, Period, XlsxFile, FileFails
    <3> QED
      BY <1>1, <2>1, <2>2, <3>1 DEF overlay, rowLoop, forensics, Plain
  <2> QED
    BY <2>3, <2>4
<1>4. CASE DayStep
  <2>1. i' \in Nat \ {0} /\ direction' \in {-1, 0, 1} /\ i \in Int
    BY <1>1, <1>4, StepTypes DEF DayStep, Plain
  <2> QED
    BY <1>1, <1>4, <2>1 DEF DayStep, overlay, forensics, Plain
<1>5. CASE PdfFile \/ PdfSignals
  <2>1. /\ UNCHANGED <<source, guarded, rowLoop, forensics, overlay>>
        /\ pc' \in {"read", "triage"} /\ page' \in {1, page}
    BY <1>5 DEF PdfFile, PdfSignals
  <2>2. page' \in 1..(Len(source.pages) + 1)
    BY <1>2, <2>1
  <2> QED
    BY <1>1, <2>1, <2>2 DEF overlay, rowLoop, forensics, Plain
<1>6. CASE OversizedPage
  <2>1. page \in DOMAIN source.pages /\ page + 1 \in 1..(Len(source.pages) + 1)
    BY <1>2, <1>6 DEF OversizedPage
  <2> QED
    BY <1>1, <1>6, <2>1 DEF OversizedPage, overlay, rowLoop, Plain
<1>7. CASE ReadPage
  <2>1. page + 1 \in 1..(Len(source.pages) + 1) /\ unreadable' \in Nat
    BY <1>2, <1>7, ReadPageReads DEF ReadPage
  <2>2. left \subseteq fills' \X spans'
    BY <1>1, <1>7 DEF ReadPage, Plain
  <2> QED
    BY <1>1, <1>7, <2>1, <2>2 DEF ReadPage, overlay, rowLoop, Plain
<1>8. CASE Triage
  <2>1. left = {} /\ Crowded \subseteq DOMAIN source.pages
    BY <1>8 DEF Triage, IInv, CompareWell, Crowded
  <2> QED
    BY <1>1, <1>2, <1>8, <2>1 DEF Triage, rowLoop, Plain
<1>9. CASE PlainPage \/ PageOverBudget
  <2>1. page \in DOMAIN source.pages /\ page + 1 \in 1..(Len(source.pages) + 1)
    BY <1>2, <1>9 DEF PlainPage, PageOverBudget
  <2>2. /\ page' = page + 1 /\ skipped' \subseteq skipped \cup {page}
        /\ UNCHANGED <<source, pc, guarded, rowLoop, forensics, left, seen, covered, spent,
                       work, compared, signals>>
    BY <1>9 DEF PlainPage, PageOverBudget, overlay
  <2> QED
    BY <1>1, <2>1, <2>2 DEF rowLoop, forensics, Plain
<1>10. CASE BeginPage
  <2>1. spent' \in Nat
    BY <1>1, <1>10, CostType DEF BeginPage, Plain
  <2>2. left' \subseteq fills' \X spans' /\ covered' = <<>> /\ DOMAIN covered' = {}
    BY <1>10 DEF BeginPage, PageFills, PageSpans, OnPage, forensics
  <2> QED
    BY <1>1, <1>10, <2>1, <2>2 DEF BeginPage, rowLoop, forensics, Plain
<1>11. CASE ComparePair
  <2>1. PICK fill \in PageFills, run \in PageSpans :
          Compare(fill, run) /\ left' = left \ {<<fill, run>>}
    BY <1>11, PairOf
  <2>2. fill \in fills /\ run \in spans /\ run.seqno \in Nat
    BY IInvParts, SpanParts DEF PageFills, PageSpans, OnPage
  <2>3. /\ seen' = seen \/ seen' = seen \cup {run.seqno}
        /\ covered' = covered \/ covered' = Tally(fill, run)
    BY <1>11, <2>1, CompareIs DEF ComparePair
  <2>4. seen' \subseteq Nat
    BY <1>1, <2>2, <2>3 DEF Plain
  <2>5. \A g \in Counted(fill, run) : Taken(fill, run, g) \in Nat
    BY <2>2, TakenType DEF Counted, Inked
  <2>6. \A k \in DOMAIN covered : covered[k] \in Nat
    BY <1>1 DEF Plain
  <2>7. \A k \in DOMAIN covered' : covered'[k] \in Nat
    BY <2>2, <2>3, <2>5, <2>6, TallyIs
  <2>8. /\ pc' = pc /\ work' = work + 1
        /\ UNCHANGED <<source, guarded, rowLoop, page, forensics, spent, skipped>>
    BY <1>11 DEF ComparePair
  <2> QED
    BY <1>1, <2>1, <2>4, <2>7, <2>8 DEF rowLoop, forensics, Plain
<1>12. CASE EndPage
  <2>1. page \in DOMAIN source.pages /\ page + 1 \in 1..(Len(source.pages) + 1)
    BY <1>2, <1>12 DEF EndPage, IInv, CompareWell, PageCompared
  <2> QED
    BY <1>1, <1>12, <2>1 DEF EndPage, overlay, rowLoop, forensics, Plain
<1>13. CASE ReportSkipped \/ Order \/ Over
  BY <1>1, <1>13 DEF ReportSkipped, Order, Over, vars, overlay, rowLoop, forensics, Plain
<1> QED
  BY <1>3, <1>4, <1>5, <1>6, <1>7, <1>8, <1>9, <1>10, <1>11, <1>12, <1>13 DEF Next

LEMMA TypesStep == ASSUME IInv, Next PROVE TypeOK'
<1>1. (source \in Sources)' /\ FromPages' /\ (signals \in Seq(Signals))' /\ Plain'
  BY IInvParts, SourceStays, ReadStep, SaysMore, PlainStep DEF ReadWell
<1> QED
  BY <1>1, PlainTypes, PTL

-----------------------------------------------------------------------------
(* The comparisons and the budget                                          *)

(* A step that compares nothing keeps what was compared.                   *)
LEMMA NothingCompared ==
    ASSUME IInv, UNCHANGED <<left, work, spent, compared>>, pc # "compare", pc' # "compare",
           \/ PagesCompared' = {}
           \/ /\ fills' = fills /\ spans' = spans
              /\ PagesCompared' \subseteq PagesCompared /\ skipped' = skipped
    PROVE  CompareWell'
<1>1. /\ IsFiniteSet(left) /\ work + Cardinality(left) <= spent /\ spent <= OverlayBudget
      /\ left = {} /\ \A n \in PagesCompared : n \in skipped \/ AllCompared(n)
  BY DEF IInv, CompareWell
<1>2. \A n \in PagesCompared' : n \in skipped' \/ AllCompared(n)'
  <2>1. CASE PagesCompared' = {}
    BY <2>1
  <2>2. CASE /\ fills' = fills /\ spans' = spans
             /\ PagesCompared' \subseteq PagesCompared /\ skipped' = skipped
    BY <1>1, <2>2 DEF AllCompared, OnPage
  <2> QED
    BY <2>1, <2>2
<1> QED
  BY <1>1, <1>2 DEF CompareWell

(* The page is done with: what was compared of it joins the pages behind.  *)
LEMMA PageDone ==
    ASSUME IInv, Sifted, Sifted', page' = page + 1, page \in skipped' \/ AllCompared(page),
           UNCHANGED <<fills, spans, left, work, spent, compared>>, skipped \subseteq skipped',
           left = {}, pc' # "compare"
    PROVE  CompareWell'
<1>1. page \in Nat /\ PagesCompared = 1..(page - 1) /\ PagesCompared' = 1..page
  BY IInvParts DEF PagesCompared
<1>2. /\ IsFiniteSet(left) /\ work + Cardinality(left) <= spent /\ spent <= OverlayBudget
      /\ \A n \in PagesCompared : n \in skipped \/ AllCompared(n)
  BY DEF IInv, CompareWell
<1>3. ASSUME NEW n \in 1..page
      PROVE  n \in skipped' \/ AllCompared(n)'
  <2>1. n \in skipped' \/ AllCompared(n)
    <3>1. CASE n = page
      BY <3>1
    <3>2. CASE n # page
      <4>1. n \in PagesCompared
        BY <1>1, <1>3, <3>2
      <4> QED
        BY <1>2, <4>1
    <3> QED
      BY <3>1, <3>2
  <2>2. AllCompared(n) => AllCompared(n)'
    BY DEF AllCompared, OnPage
  <2> QED
    BY <2>1, <2>2
<1> QED
  BY <1>1, <1>2, <1>3 DEF CompareWell

LEMMA BeginPageCompares == ASSUME IInv, BeginPage PROVE CompareWell'
<1>1. /\ pc = "overlay" /\ pc' = "compare" /\ page' = page /\ page \in DOMAIN source.pages
      /\ spent + Cost <= OverlayBudget /\ spent' = spent + Cost
      /\ left' = PageFills \X PageSpans /\ source' = source
      /\ UNCHANGED <<fills, spans, skipped, work, compared>>
  BY DEF BeginPage, forensics
<1>2. /\ left = {} /\ work + Cardinality(left) <= spent
      /\ \A n \in PagesCompared : n \in skipped \/ AllCompared(n)
  BY <1>1 DEF IInv, CompareWell
<1>3. work \in Nat /\ spent \in Nat /\ Cost \in Nat
  BY CostType DEF IInv, TypeOK
<1>4. IsFiniteSet(left') /\ Cardinality(left') = Cost
  BY <1>1, CostType, FS_Product DEF Cost
<1>5. work' + Cardinality(left') <= spent' /\ spent' <= OverlayBudget
  <2>1. Cardinality(left) = 0
    BY <1>2, FS_EmptySet
  <2> QED
    BY <1>1, <1>2, <1>3, <1>4, <2>1
<1>6. PageFills' = PageFills /\ PageSpans' = PageSpans
  BY <1>1 DEF PageFills, PageSpans, OnPage
<1>7. PageCompared'
  BY <1>1, <1>6 DEF PageCompared
<1>8. PagesCompared' = PagesCompared
  BY <1>1 DEF PagesCompared, Sifted
<1>9. \A n \in PagesCompared' : n \in skipped' \/ AllCompared(n)'
  BY <1>1, <1>2, <1>8 DEF AllCompared, OnPage
<1> QED
  BY <1>1, <1>4, <1>5, <1>7, <1>9 DEF CompareWell

LEMMA ComparePairCompares == ASSUME IInv, ComparePair PROVE CompareWell'
<1>1. PICK fill \in PageFills, run \in PageSpans :
        <<fill, run>> \in left /\ Compare(fill, run) /\ left' = left \ {<<fill, run>>}
  BY PairOf
<1>2. /\ pc = "compare" /\ pc' = pc /\ page' = page /\ work' = work + 1 /\ source' = source
      /\ UNCHANGED <<fills, spans, skipped, spent>>
  BY DEF ComparePair, forensics
<1>3. compared' = compared \cup {<<page, run.seqno, fill.seqno>>}
  BY <1>1, <1>2, CompareIs
<1>4. /\ IsFiniteSet(left) /\ work + Cardinality(left) <= spent /\ spent <= OverlayBudget
      /\ PageCompared /\ \A n \in PagesCompared : n \in skipped \/ AllCompared(n)
  BY <1>2 DEF IInv, CompareWell
<1>5. IsFiniteSet(left') /\ Cardinality(left') = Cardinality(left) - 1
  BY <1>1, <1>4, FS_RemoveElement
<1>6. Cardinality(left) \in Nat /\ work \in Nat /\ spent \in Nat
  BY <1>4, FS_CardinalityType DEF IInv, TypeOK
<1>7. work' + Cardinality(left') <= spent' /\ spent' <= OverlayBudget
  BY <1>2, <1>4, <1>5, <1>6
<1>8. PageFills' = PageFills /\ PageSpans' = PageSpans
  BY <1>2 DEF PageFills, PageSpans, OnPage
<1>9. PageCompared'
  <2>1. left' \subseteq PageFills' \X PageSpans' /\ page' \in DOMAIN source'.pages
    BY <1>1, <1>2, <1>4, <1>8 DEF PageCompared
  <2>2. ASSUME NEW f \in PageFills, NEW r \in PageSpans
        PROVE  <<f, r>> \in left' \/ <<page, r.seqno, f.seqno>> \in compared'
    <3>1. CASE f = fill /\ r = run
      BY <1>3, <3>1
    <3>2. CASE ~(f = fill /\ r = run)
      <4>1. <<f, r>> # <<fill, run>>
        BY <3>2
      <4> QED
        BY <1>1, <1>3, <1>4, <4>1 DEF PageCompared
    <3> QED
      BY <3>1, <3>2
  <2> QED
    BY <1>2, <1>8, <2>1, <2>2 DEF PageCompared
<1>10. PagesCompared' = PagesCompared
  BY <1>2 DEF PagesCompared, Sifted
<1>11. \A n \in PagesCompared' : n \in skipped' \/ AllCompared(n)'
  BY <1>2, <1>3, <1>4, <1>10 DEF AllCompared, OnPage
<1> QED
  BY <1>2, <1>5, <1>7, <1>9, <1>11 DEF CompareWell

LEMMA CompareStep == ASSUME IInv, Next PROVE CompareWell'
<1>1. CASE \/ Mismatch \/ ParseEncrypted \/ ParseRejects \/ Reconciliation \/ DayStep
           \/ DaysDone \/ Period \/ XlsxFile \/ PdfFile \/ OversizedPage \/ ReadPage
           \/ FileFails \/ PdfSignals
  <2>1. /\ UNCHANGED <<left, work, spent, compared>> /\ pc # "compare" /\ pc' # "compare"
        /\ ~Sifted'
    BY <1>1 DEF Mismatch, ParseEncrypted, ParseRejects, Reconciliation, DayStep, DaysDone,
       Period, XlsxFile, PdfFile, OversizedPage, ReadPage, FileFails, PdfSignals, overlay,
       Sifted, Final
  <2>2. PagesCompared' = {}
    BY <2>1 DEF PagesCompared
  <2> QED
    BY <2>1, <2>2, NothingCompared
<1>2. CASE Triage
  <2>1. /\ UNCHANGED <<left, work, spent, compared>> /\ pc # "compare" /\ pc' # "compare"
        /\ Sifted' /\ page' = 1
    BY <1>2 DEF Triage, Sifted
  <2>2. PagesCompared' = {}
    BY <2>1 DEF PagesCompared
  <2> QED
    BY <2>1, <2>2, NothingCompared
<1>3. CASE PlainPage \/ PageOverBudget
  <2>1. /\ UNCHANGED <<fills, spans, left, work, spent, compared>> /\ page' = page + 1
        /\ pc = "overlay" /\ pc' = "overlay" /\ Sifted /\ Sifted' /\ skipped \subseteq skipped'
        /\ page \in skipped' \/ PageFills = {}
    BY <1>3 DEF PlainPage, PageOverBudget, overlay, forensics, Sifted
  <2>2. left = {} /\ (PageFills = {} => AllCompared(page))
    BY <2>1 DEF IInv, CompareWell, AllCompared, PageFills
  <2> QED
    BY <2>1, <2>2, PageDone
<1>4. CASE EndPage
  <2>1. /\ UNCHANGED <<fills, spans, left, work, spent, compared, skipped>> /\ page' = page + 1
        /\ pc = "compare" /\ pc' = "overlay" /\ Sifted /\ Sifted' /\ left = {}
    BY <1>4 DEF EndPage, overlay, forensics, Sifted
  <2>2. AllCompared(page)
    BY <2>1 DEF IInv, CompareWell, PageCompared, AllCompared, PageFills, PageSpans
  <2> QED
    BY <2>1, <2>2, PageDone
<1>5. CASE ReportSkipped \/ Order
  <2>1. /\ UNCHANGED <<fills, spans, left, work, spent, compared, skipped, page, source>>
        /\ pc # "compare" /\ pc' # "compare" /\ (Sifted' => Sifted)
    BY <1>5 DEF ReportSkipped, Order, overlay, forensics, Sifted, Final
  <2>2. PagesCompared' \subseteq PagesCompared
    BY <2>1 DEF PagesCompared
  <2> QED
    BY <2>1, <2>2, NothingCompared
<1>6. CASE Over
  <2>1. /\ UNCHANGED <<fills, spans, left, work, spent, compared, skipped>>
        /\ pc # "compare" /\ pc' # "compare" /\ UNCHANGED vars
    BY <1>6 DEF Over, vars, overlay, forensics
  <2>2. PagesCompared' = PagesCompared
    BY <2>1 DEF PagesCompared, Sifted, Final, vars
  <2> QED
    BY <2>1, <2>2, NothingCompared
<1> QED
  BY <1>1, <1>2, <1>3, <1>4, <1>5, <1>6, BeginPageCompares, ComparePairCompares DEF Next

-----------------------------------------------------------------------------
(* What is hidden is counted                                               *)

LEMMA Products ==
    /\ \A x, y \in Nat \ {0} : x * y > 0
    /\ \A x, y, z \in Nat : x <= y => x * z <= y * z
<1>1. ASSUME NEW x \in Nat \ {0}, NEW y \in Nat \ {0}
      PROVE  x * y > 0
  BY <1>1
<1>2. ASSUME NEW x \in Nat, NEW y \in Nat, NEW z \in Nat, x <= y
      PROVE  x * z <= y * z
  BY <1>2
<1> QED
  BY <1>1, <1>2

(* A glyph of some width is not gone for nothing, and more is enough where *)
(* less was.                                                               *)
LEMMA EnoughIs ==
    ASSUME NEW glyph, Width(glyph) \in Nat, Width(glyph) > 0
    PROVE  /\ ~Enough(0, glyph)
           /\ \A x, y \in Nat : x <= y /\ Enough(x, glyph) => Enough(y, glyph)
<1>1. PICK w \in Nat \ {0} : w = Width(glyph)
  OBVIOUS
<1>2. CoverNum \in Nat \ {0} /\ CoverDen \in Nat \ {0}
  BY InspectAssumption
<1>3. CoverNum * w > 0 /\ CoverNum * w \in Int
  BY <1>2, Products
<1>4. ~Enough(0, glyph)
  BY <1>1, <1>2, <1>3 DEF Enough
<1>5. ASSUME NEW x \in Nat, NEW y \in Nat, x <= y, Enough(x, glyph)
      PROVE  Enough(y, glyph)
  <2>1. x * CoverDen >= CoverNum * w
    BY <1>1, <1>5 DEF Enough
  <2>2. x * CoverDen <= y * CoverDen /\ x * CoverDen \in Int /\ y * CoverDen \in Int
    BY <1>2, <1>5, Products
  <2>3. y * CoverDen >= CoverNum * w
    BY <1>3, <2>1, <2>2
  <2> QED
    BY <1>1, <2>3 DEF Enough
<1> QED
  BY <1>4, <1>5

LEMMA LostCellsFinite ==
    ASSUME source \in Sources, FromPages, NEW run \in spans, NEW g \in DOMAIN run.glyphs
    PROVE  /\ IsFiniteSet(LostCells(run, g)) /\ Cardinality(LostCells(run, g)) \in Nat
<1>1. IsFiniteSet(run.glyphs[g].from..(run.glyphs[g].to - 1))
  <2>1. PICK a \in Int, b \in Int : a = run.glyphs[g].from /\ b = run.glyphs[g].to - 1
    BY SpanParts
  <2>2. IsFiniteSet(a..b)
    BY FS_Interval
  <2> QED
    BY <2>1, <2>2
<1>2. IsFiniteSet(LostCells(run, g))
  BY <1>1, FS_Subset DEF LostCells
<1> QED
  BY <1>2, FS_CardinalityType

(* A fill that is compared is a cover the page shows above the text.       *)
LEMMA CoverShown ==
    ASSUME IInv, Sifted, NEW fill \in PageFills, NEW run \in PageSpans, run.seqno < fill.seqno
    PROVE  /\ fill.seqno \in DrawnOver(page, run.seqno) /\ fill.box = Commands(page)[fill.seqno].box
           /\ \/ Commands(page)[fill.seqno].opacity = 0
              \/ Commands(page)[fill.seqno].opacity >= Opaque
           /\ run.glyphs \in {Commands(page)[run.seqno].runs[m].glyphs :
                                m \in DOMAIN Commands(page)[run.seqno].runs}
<1>1. fill \in fills /\ fill.page = page /\ run \in spans /\ run.page = page
      /\ source \in Sources /\ FromPages
  BY IInvParts DEF PageFills, PageSpans, OnPage
<1>2. /\ fill.seqno \in Paths(page) /\ fill.box = Commands(page)[fill.seqno].box
      /\ fill.opacity = Opacity(Commands(page)[fill.seqno]) /\ fill.seqno \in Nat
  BY <1>1, CoverParts
<1>3. /\ run.seqno \in Nat /\ run.index \in DOMAIN Commands(page)[run.seqno].runs
      /\ run.glyphs = Commands(page)[run.seqno].runs[run.index].glyphs
  BY <1>1, SpanParts
<1>4. fill.opacity >= Opaque
  BY <1>1 DEF FromPages, IsCover
<1>5. fill.seqno \in DrawnOver(page, run.seqno)
  BY <1>2, <1>3 DEF Paths, DrawnOver
<1> QED
  BY <1>2, <1>3, <1>4, <1>5 DEF Opacity

LEMMA TakenUnder ==
    ASSUME IInv, pc = "compare", NEW fill \in PageFills, NEW run \in PageSpans,
           run.seqno < fill.seqno, NEW g \in DOMAIN run.glyphs, Taken(fill, run, g) > 0
    PROVE  UnderFill(page, run.seqno)
<1>1. fill \in fills /\ run \in spans
  BY DEF PageFills, PageSpans, OnPage
<1>2. CASE Overlap(run.glyphs[g], fill.box) > 0
  <2>1. Sifted
    BY DEF Sifted
  <2> QED
    BY <1>2, <2>1, CoverShown DEF UnderFill
<1>3. CASE Already(run.seqno, g) > 0
  <2>1. <<run.seqno, g>> \in DOMAIN covered /\ covered[<<run.seqno, g>>] > 0
    BY <1>3 DEF Already
  <2>2. UnderFill(page, <<run.seqno, g>>[1])
    BY <2>1 DEF IInv, HideWell, PageHides
  <2> QED
    BY <2>2
<1> QED
  BY <1>1, <1>2, <1>3, TakenType

(* On a page that was compared to its end, what hides a glyph was counted. *)
LEMMA HiddenFound ==
    ASSUME IInv, Sifted, page \in DOMAIN source.pages, page \notin skipped \cup oversized,
           left = {}, NEW q \in Hidden(page)
    PROVE  \E run \in PageSpans : /\ run.seqno = q
                                  /\ \E g \in Inked(run) : Enough(Cardinality(LostCells(run, g)),
                                                                  run.glyphs[g])
<1>1. source \in Sources /\ FromPages
  BY IInvParts
<1>2. PICK k \in DOMAIN Commands(page)[q].runs :
        q \in Texts(page) /\ HiddenRun(page, q, Commands(page)[q].runs[k])
  BY DEF Hidden
<1>3. PICK run : run = RunOf(page, q, k)
  OBVIOUS
<1>4. run \in Runs(page)
  BY <1>2, <1>3, RunsHold
<1>5. /\ run.page = page /\ run.seqno = q
      /\ run.glyphs = Commands(page)[q].runs[k].glyphs
      /\ run.finite = Commands(page)[q].runs[k].finite
  BY <1>3 DEF RunOf
<1>6. PICK g \in DOMAIN run.glyphs :
        Width(run.glyphs[g]) > 0 /\ Enough(Lost(page, q, run.glyphs[g]), run.glyphs[g])
  BY <1>2, <1>5 DEF HiddenRun
<1>7. ReadIn(page)
  <2>1. page \in PagesRead \ oversized
    BY DEF PagesRead, Sifted, Final
  <2> QED
    BY <2>1 DEF IInv, ReadWell
<1>8. run \in PageSpans
  <2>1. run.glyphs # <<>> /\ run.finite
    BY <1>2, <1>5, <1>6 DEF HiddenRun
  <2>2. run \in Finite(Visible(page))
    BY <1>4, <2>1 DEF Finite, Visible
  <2> QED
    BY <1>5, <1>7, <2>2 DEF ReadIn, PageSpans, OnPage
<1>9. run \in spans /\ q \in Nat /\ Width(run.glyphs[g]) \in Nat
      /\ run.glyphs[g].from \in Int /\ run.glyphs[g].to \in Int
  BY <1>1, <1>5, <1>6, <1>8, SpanParts DEF PageSpans, OnPage
<1> DEFINE cells == {c \in run.glyphs[g].from..(run.glyphs[g].to - 1) :
                       \E r \in Hiding(page, q) : Inside(c, Commands(page)[r].box)}
<1>10. cells \subseteq LostCells(run, g)
  <2> SUFFICES ASSUME NEW c \in cells PROVE c \in LostCells(run, g)
    OBVIOUS
  <2>1. PICK r \in Hiding(page, q) : Inside(c, Commands(page)[r].box)
    OBVIOUS
  <2>2. r \in Paths(page) /\ r > q /\ Commands(page)[r].finite /\ Commands(page)[r].opacity >= Opaque
    BY <2>1 DEF Hiding, DrawnOver, Paths
  <2>3. PICK fill : fill = FillOf(page, r)
    OBVIOUS
  <2>4. /\ fill.page = page /\ fill.seqno = r /\ fill.box = Commands(page)[r].box
        /\ fill.opacity = Opacity(Commands(page)[r]) /\ fill.finite = Commands(page)[r].finite
    BY <2>3 DEF FillOf
  <2>5. /\ Commands(page)[r].box.from \in Int /\ Commands(page)[r].box.to \in Int
        /\ Commands(page)[r].opacity \in 0..100 /\ r \in Nat
    BY <1>1, <2>2, PathType
  <2>6. IsCover(fill)
    <3>1. fill.opacity >= Opaque
      BY <2>2, <2>4, <2>5, InspectAssumption DEF Opacity
    <3>2. c \in Int
      BY <1>9
    <3>3. Width(fill.box) > 0
      BY <2>1, <2>4, <2>5, <3>2 DEF Inside, Width
    <3> QED
      BY <3>1, <3>3 DEF IsCover
  <2>7. fill \in Finite(Fills(page))
    BY <2>2, <2>3, <2>4, FillsHold DEF Finite
  <2>8. fill \in PageFills
    BY <1>7, <2>4, <2>6, <2>7 DEF ReadIn, PageFills, OnPage
  <2> QED
    BY <1>5, <2>1, <2>2, <2>4, <2>8 DEF LostCells
<1>11. Lost(page, q, run.glyphs[g]) = Cardinality(cells)
  BY DEF Lost
<1> HIDE DEF cells
<1>12. IsFiniteSet(LostCells(run, g)) /\ Cardinality(LostCells(run, g)) \in Nat
  BY <1>1, <1>9, LostCellsFinite
<1>13. Cardinality(cells) \in Nat /\ Cardinality(cells) <= Cardinality(LostCells(run, g))
  BY <1>10, <1>12, FS_Subset, FS_CardinalityType
<1>14. Enough(Cardinality(LostCells(run, g)), run.glyphs[g])
  BY <1>6, <1>9, <1>11, <1>12, <1>13, EnoughIs
<1> QED
  BY <1>5, <1>6, <1>8, <1>14 DEF Inked

(* A step outside a page's comparisons keeps what is said of what is       *)
(* hidden: a page that joins those behind hides nothing that was not told. *)
LEMMA NothingHidden ==
    ASSUME IInv, Next, ~ComparePair, pc' # "compare",
           \A n \in PagesCompared' : \/ n \in PagesCompared
                                     \/ n \in skipped' \cup oversized'
                                     \/ \A q \in Hidden(n) : ToldHidden(n, q),
           PagesCompared' = {} \/ (skipped \subseteq skipped' /\ oversized \subseteq oversized')
    PROVE  HideWell'
<1>1. Reported("overlay_over_text")' = Reported("overlay_over_text") /\ source' = source
  BY SaysMore, SourceStays
<1>2. \A s \in Reported("overlay_over_text")' : UnderFill(s.page, s.text)'
  BY <1>1, PagesStay DEF IInv, HideWell
<1>3. ASSUME NEW n \in PagesCompared'
      PROVE  n \in (skipped \cup oversized)' \/ \A q \in Hidden(n)' : ToldHidden(n, q)'
  <2>1. n \in skipped' \cup oversized' \/ \A q \in Hidden(n) : ToldHidden(n, q)
    BY <1>3 DEF IInv, HideWell
  <2>2. \A q : ToldHidden(n, q)' = ToldHidden(n, q)
    BY <1>1 DEF ToldHidden
  <2> QED
    BY <1>1, <2>1, <2>2, PagesStay
<1> QED
  BY <1>2, <1>3 DEF HideWell

LEMMA BeginPageHides == ASSUME IInv, Next, BeginPage PROVE HideWell'
<1>1. /\ pc = "overlay" /\ pc' = "compare" /\ page' = page /\ page \in DOMAIN source.pages
      /\ left' = PageFills \X PageSpans /\ source' = source /\ seen' = {} /\ covered' = <<>>
      /\ UNCHANGED <<fills, spans, skipped, oversized>> /\ ~ComparePair
  BY DEF BeginPage, forensics, ComparePair
<1>2. Reported("overlay_over_text")' = Reported("overlay_over_text")
  BY <1>1, SaysMore
<1>3. \A s \in Reported("overlay_over_text")' : UnderFill(s.page, s.text)'
  BY <1>1, <1>2, PagesStay DEF IInv, HideWell
<1>4. PageFills' = PageFills /\ PageSpans' = PageSpans
  BY <1>1 DEF PageFills, PageSpans, OnPage
<1>5. ASSUME NEW run \in PageSpans
      PROVE  Counts(run)'
  <2>1. run \in spans /\ source \in Sources /\ FromPages
    BY IInvParts DEF PageSpans, OnPage
  <2>2. ASSUME NEW g \in Inked(run)
        PROVE  /\ Cardinality(LostCells(run, g)') <= Already(run.seqno, g)'
               /\ ~Enough(Cardinality(LostCells(run, g)'), run.glyphs[g])
    <3>1. LostCells(run, g)' = {}
      BY <1>1, <1>4 DEF LostCells
    <3>2. Cardinality(LostCells(run, g)') = 0
      BY <3>1, FS_EmptySet
    <3>3. Already(run.seqno, g)' = 0
      BY <1>1 DEF Already
    <3>4. Width(run.glyphs[g]) \in Nat /\ Width(run.glyphs[g]) > 0
      BY <2>1, SpanParts DEF Inked
    <3> QED
      BY <3>2, <3>3, <3>4, EnoughIs
  <2> QED
    BY <2>2 DEF Counts
<1>6. PageHides'
  <2>1. DOMAIN covered' = {}
    BY <1>1
  <2> QED
    BY <1>1, <1>4, <1>5, <2>1 DEF PageHides
<1>7. PagesCompared' = PagesCompared
  BY <1>1 DEF PagesCompared, Sifted
<1>8. \A n \in PagesCompared' : \/ n \in (skipped \cup oversized)'
                                \/ \A q \in Hidden(n)' : ToldHidden(n, q)'
  BY <1>1, <1>2, <1>7, PagesStay DEF IInv, HideWell, ToldHidden
<1> QED
  BY <1>3, <1>6, <1>8 DEF HideWell

(* The page under way is behind: its comparisons have run to the end.      *)
LEMMA EndPageHides == ASSUME IInv, Next, EndPage \/ PlainPage \/ PageOverBudget PROVE HideWell'
<1>1. /\ Sifted /\ pc' # "compare" /\ page' = page + 1 /\ page \in DOMAIN source.pages
      /\ skipped \subseteq skipped' /\ oversized' = oversized /\ ~ComparePair /\ Sifted'
      /\ left = {}
  BY DEF EndPage, PlainPage, PageOverBudget, forensics, overlay, ComparePair, Sifted, IInv,
     CompareWell, PageCompared
<1>2. page \in Nat /\ PagesCompared = 1..(page - 1) /\ PagesCompared' = 1..page
  BY <1>1, IInvParts DEF PagesCompared
<1>3. ASSUME page \notin skipped' \cup oversized, NEW q \in Hidden(page)
      PROVE  ToldHidden(page, q)
  <2>1. PICK run \in PageSpans :
          /\ run.seqno = q
          /\ \E g \in Inked(run) : Enough(Cardinality(LostCells(run, g)), run.glyphs[g])
    BY <1>1, <1>3, HiddenFound
  <2>2. PICK g \in Inked(run) : Enough(Cardinality(LostCells(run, g)), run.glyphs[g])
    BY <2>1
  <2>3. CASE EndPage
    <3>1. q \in seen
      BY <2>1, <2>2, <2>3 DEF EndPage, IInv, HideWell, PageHides, Counts
    <3> QED
      BY <2>3, <3>1 DEF EndPage, IInv, HideWell, PageHides
  <2>4. CASE PlainPage
    <3>1. PageFills = {}
      BY <2>4 DEF PlainPage
    <3>2. LostCells(run, g) = {}
      BY <3>1 DEF LostCells
    <3>3. Cardinality(LostCells(run, g)) = 0
      BY <3>2, FS_EmptySet
    <3>4. Width(run.glyphs[g]) \in Nat /\ Width(run.glyphs[g]) > 0
      BY IInvParts, SpanParts DEF Inked, PageSpans, OnPage
    <3> QED
      BY <2>2, <3>3, <3>4, EnoughIs
  <2>5. CASE PageOverBudget
    BY <1>3, <2>5 DEF PageOverBudget
  <2> QED
    BY <2>3, <2>4, <2>5
<1>4. ASSUME NEW n \in PagesCompared'
      PROVE  \/ n \in PagesCompared
             \/ n \in skipped' \cup oversized'
             \/ \A q \in Hidden(n) : ToldHidden(n, q)
  <2>1. CASE n = page
    BY <1>1, <1>3, <2>1
  <2>2. CASE n # page
    BY <1>2, <1>4, <2>2
  <2> QED
    BY <2>1, <2>2
<1> QED
  BY <1>1, <1>4, NothingHidden

(* A comparison adds to what a run has lost what the fill takes of it.     *)
LEMMA CellsMore ==
    ASSUME NEW fill \in PageFills, NEW run \in PageSpans, PageFills' = PageFills,
           left' = left \ {<<fill, run>>}, NEW g
    PROVE  /\ \A other \in PageSpans : other # run => LostCells(other, g)' = LostCells(other, g)
           /\ LostCells(run, g)' \subseteq
                LostCells(run, g)
                \cup {c \in run.glyphs[g].from..(run.glyphs[g].to - 1) :
                        fill.seqno > run.seqno /\ Inside(c, fill.box)}
<1>1. ASSUME NEW other \in PageSpans, other # run
      PROVE  LostCells(other, g)' = LostCells(other, g)
  <2>1. \A f \in PageFills : <<f, other>> # <<fill, run>>
    BY <1>1
  <2>2. \A f \in PageFills : <<f, other>> \in left' <=> <<f, other>> \in left
    BY <2>1
  <2> QED
    BY <2>2 DEF LostCells, Inside
<1>2. ASSUME NEW f \in PageFills, <<f, run>> \notin left'
      PROVE  <<f, run>> \notin left \/ f = fill
  BY <1>2
<1>3. ASSUME NEW c \in LostCells(run, g)'
      PROVE  \/ c \in LostCells(run, g)
             \/ /\ c \in run.glyphs[g].from..(run.glyphs[g].to - 1)
                /\ fill.seqno > run.seqno /\ Inside(c, fill.box)
  <2>1. PICK f \in PageFills : /\ f.seqno > run.seqno /\ <<f, run>> \notin left'
                               /\ Inside(c, f.box)
                               /\ c \in run.glyphs[g].from..(run.glyphs[g].to - 1)
    BY <1>3 DEF LostCells, Inside
  <2> QED
    BY <1>2, <2>1 DEF LostCells
<1> QED
  BY <1>1, <1>3

(* A fill that does not touch the box of a run takes none of its glyphs.   *)
LEMMA Untouched ==
    ASSUME source \in Sources, FromPages, NEW fill \in fills, NEW run \in spans,
           NEW g \in DOMAIN run.glyphs, ~Touches(fill, run)
    PROVE  {c \in run.glyphs[g].from..(run.glyphs[g].to - 1) : Inside(c, fill.box)} = {}
<1>1. PICK b : b = [from |-> run.glyphs[g].from, to |-> run.glyphs[g].to]
  OBVIOUS
<1>2. b.from = run.glyphs[g].from /\ b.to = run.glyphs[g].to
  BY <1>1
<1>3. b.from \in Int /\ b.to \in Int /\ fill.box.from \in Int /\ fill.box.to \in Int
  BY <1>2, SpanParts, CoverParts
<1>4. ~(Overlap(b, fill.box) > 0)
  BY <1>1 DEF Touches
<1>5. {c \in b.from..(b.to - 1) : Inside(c, fill.box)} = {}
  BY <1>3, <1>4, CellsTaken
<1> QED
  BY <1>2, <1>5

(* The counts stay right for every run that is not reported yet.           *)
LEMMA CountsKept ==
    ASSUME IInv, pc = "compare", NEW fill \in PageFills, NEW run \in PageSpans,
           Compare(fill, run), PageFills' = PageFills, left' = left \ {<<fill, run>>},
           NEW other \in PageSpans, other.seqno \notin seen'
    PROVE  Counts(other)'
<1>1. /\ fill \in fills /\ run \in spans /\ other \in spans
      /\ source \in Sources /\ FromPages
  BY IInvParts DEF PageFills, PageSpans, OnPage
<1>2. /\ \/ /\ run.seqno \in seen \/ run.seqno >= fill.seqno \/ ~Touches(fill, run)
            /\ UNCHANGED <<seen, covered>>
         \/ /\ run.seqno \notin seen /\ run.seqno < fill.seqno /\ Touches(fill, run)
            /\ covered' = Tally(fill, run) /\ Gone(fill, run) = {} /\ seen' = seen
         \/ /\ run.seqno \notin seen /\ run.seqno < fill.seqno /\ Touches(fill, run)
            /\ covered' = Tally(fill, run) /\ seen' = seen \cup {run.seqno}
  BY CompareIs
<1>3. Counts(other)
  BY <1>2 DEF IInv, HideWell, PageHides
<1>4. SUFFICES ASSUME NEW g \in Inked(other)
               PROVE  /\ Cardinality(LostCells(other, g)') <= Already(other.seqno, g)'
                      /\ ~Enough(Cardinality(LostCells(other, g)'), other.glyphs[g])
  BY DEF Counts, Inked, Enough, Width
<1>5. /\ g \in DOMAIN other.glyphs /\ Width(other.glyphs[g]) \in Nat
      /\ Width(other.glyphs[g]) > 0
  BY <1>1, SpanParts DEF Inked
<1>6. /\ Cardinality(LostCells(other, g)) <= Already(other.seqno, g)
      /\ ~Enough(Cardinality(LostCells(other, g)), other.glyphs[g])
  BY <1>3 DEF Counts
<1>7. /\ IsFiniteSet(LostCells(other, g)) /\ Cardinality(LostCells(other, g)) \in Nat
      /\ Already(other.seqno, g) \in Nat
  BY <1>1, <1>5, LostCellsFinite, AlreadyType DEF IInv
<1>8. /\ other # run => LostCells(other, g)' = LostCells(other, g)
      /\ LostCells(run, g)' \subseteq
           LostCells(run, g)
           \cup {c \in run.glyphs[g].from..(run.glyphs[g].to - 1) :
                   fill.seqno > run.seqno /\ Inside(c, fill.box)}
  BY CellsMore
<1>9. CASE UNCHANGED <<seen, covered>>
           /\ (run.seqno \in seen \/ run.seqno >= fill.seqno \/ ~Touches(fill, run))
  <2>1. Already(other.seqno, g)' = Already(other.seqno, g)
    BY <1>9 DEF Already
  <2>2. LostCells(other, g)' \subseteq LostCells(other, g)
    <3>1. CASE other # run
      BY <1>8, <3>1
    <3>2. CASE other = run /\ run.seqno >= fill.seqno
      <4>1. run.seqno \in Nat /\ fill.seqno \in Nat
        BY <1>1, SpanParts, CoverParts
      <4> QED
        BY <1>8, <3>2, <4>1
    <3>3. CASE other = run /\ ~Touches(fill, run)
      <4>1. {c \in run.glyphs[g].from..(run.glyphs[g].to - 1) : Inside(c, fill.box)} = {}
        BY <1>1, <1>5, <3>3, Untouched
      <4> QED
        BY <1>8, <3>3, <4>1
    <3> QED
      BY <1>9, <3>1, <3>2, <3>3
  <2>3. /\ Cardinality(LostCells(other, g)') \in Nat
        /\ Cardinality(LostCells(other, g)') <= Cardinality(LostCells(other, g))
    BY <1>7, <2>2, FS_Subset, FS_CardinalityType
  <2> QED
    BY <1>5, <1>6, <1>7, <2>1, <2>3, EnoughIs
<1>10. CASE /\ run.seqno < fill.seqno /\ covered' = Tally(fill, run)
            /\ Gone(fill, run) = {} /\ seen' = seen
  <2>1. Counted(fill, run) = Inked(run)
    BY <1>10 DEF Counted
  <2>2. CASE other = run
    <3> DEFINE cells == {c \in run.glyphs[g].from..(run.glyphs[g].to - 1) : Inside(c, fill.box)}
    <3>1. Already(run.seqno, g)' = Taken(fill, run, g)
      BY <1>1, <1>10, <2>1, <2>2, TallyIs
    <3>2. /\ Taken(fill, run, g) = Already(run.seqno, g) + Overlap(run.glyphs[g], fill.box)
          /\ Taken(fill, run, g) \in Nat /\ Overlap(run.glyphs[g], fill.box) \in Nat
      BY <1>1, <1>5, <2>2, TakenType
    <3>3. IsFiniteSet(cells) /\ Cardinality(cells) <= Overlap(run.glyphs[g], fill.box)
      <4>1. /\ run.glyphs[g].from \in Int /\ run.glyphs[g].to \in Int
            /\ fill.box.from \in Int /\ fill.box.to \in Int
        BY <1>1, <1>5, <2>2, SpanParts, CoverParts
      <4> QED
        BY <4>1, CellsTaken
    <3>4. LostCells(run, g)' \subseteq LostCells(run, g) \cup cells
      BY <1>8
    <3> HIDE DEF cells
    <3>5. /\ IsFiniteSet(LostCells(run, g) \cup cells) /\ Cardinality(cells) \in Nat
          /\ Cardinality(LostCells(run, g) \cap cells) \in Nat
          /\ Cardinality(LostCells(run, g) \cup cells)
               = Cardinality(LostCells(run, g)) + Cardinality(cells)
                 - Cardinality(LostCells(run, g) \cap cells)
      BY <1>7, <2>2, <3>3, FS_Union, FS_Intersection, FS_CardinalityType
    <3>6. /\ Cardinality(LostCells(run, g)') \in Nat
          /\ Cardinality(LostCells(run, g)') <= Cardinality(LostCells(run, g) \cup cells)
      BY <3>4, <3>5, FS_Subset, FS_CardinalityType
    <3>7. Cardinality(LostCells(run, g)') <= Taken(fill, run, g)
      BY <1>6, <1>7, <2>2, <3>2, <3>3, <3>5, <3>6
    <3>8. ~Enough(Taken(fill, run, g), run.glyphs[g])
      BY <1>10, <2>2 DEF Gone
    <3> QED
      BY <1>5, <2>2, <3>1, <3>2, <3>6, <3>7, <3>8, EnoughIs
  <2>3. CASE other # run
    <3>1. /\ Already(other.seqno, g)' \in Nat
          /\ Already(other.seqno, g)' >= Already(other.seqno, g)
      <4>1. CASE other.seqno = run.seqno /\ g \in Inked(run)
        <5>1. Already(other.seqno, g)' = Taken(fill, run, g)
          BY <1>1, <1>10, <2>1, <4>1, TallyIs
        <5>2. g \in DOMAIN run.glyphs
          BY <4>1 DEF Inked
        <5> QED
          BY <1>1, <4>1, <5>1, <5>2, TakenType
      <4>2. CASE ~(other.seqno = run.seqno /\ g \in Inked(run))
        <5>1. <<other.seqno, g>> \notin {<<run.seqno, h>> : h \in Counted(fill, run)}
          BY <2>1, <4>2
        <5>2. Already(other.seqno, g)' = Already(other.seqno, g)
          BY <1>1, <1>10, <5>1, TallyIs
        <5> QED
          BY <1>7, <5>2
      <4> QED
        BY <4>1, <4>2
    <3> QED
      BY <1>6, <1>7, <1>8, <2>3, <3>1
  <2> QED
    BY <2>2, <2>3
<1>11. CASE covered' = Tally(fill, run) /\ seen' = seen \cup {run.seqno}
  <2>1. other.seqno # run.seqno /\ other # run
    BY <1>11
  <2>2. <<other.seqno, g>> \notin {<<run.seqno, h>> : h \in Counted(fill, run)}
    BY <2>1
  <2>3. Already(other.seqno, g)' = Already(other.seqno, g)
    BY <1>1, <1>11, <2>2, TallyIs
  <2> QED
    BY <1>6, <1>8, <2>1, <2>3
<1> QED
  BY <1>2, <1>9, <1>10, <1>11

LEMMA ComparePairHides == ASSUME IInv, Next, ComparePair PROVE HideWell'
<1>1. PICK fill \in PageFills, run \in PageSpans :
        <<fill, run>> \in left /\ Compare(fill, run) /\ left' = left \ {<<fill, run>>}
  BY PairOf
<1>2. /\ pc = "compare" /\ pc' = pc /\ page' = page /\ source' = source
      /\ UNCHANGED <<fills, spans, skipped, oversized>>
  BY DEF ComparePair, forensics
<1>3. PageFills' = PageFills /\ PageSpans' = PageSpans
  BY <1>2 DEF PageFills, PageSpans, OnPage
<1>4. /\ fill \in fills /\ run \in spans /\ source \in Sources /\ FromPages /\ PageHides
      /\ \A s \in Reported("overlay_over_text") : UnderFill(s.page, s.text)
  BY <1>2, IInvParts DEF PageFills, PageSpans, OnPage, IInv, HideWell
<1> DEFINE told == Signal("overlay_over_text", page, 0, run.seqno)
<1>5. /\ told.page = page /\ told.text = run.seqno /\ told.code = "overlay_over_text"
  BY DEF Signal
<1> HIDE DEF told
<1>6. \/ UNCHANGED <<seen, covered>> /\ Adds({})
      \/ /\ run.seqno < fill.seqno /\ covered' = Tally(fill, run)
         /\ seen' = seen /\ Adds({})
      \/ /\ run.seqno < fill.seqno /\ covered' = Tally(fill, run) /\ Gone(fill, run) # {}
         /\ seen' = seen \cup {run.seqno} /\ Adds({told})
  BY <1>1, <1>2, CompareIs DEF told
<1>7. \A g \in DOMAIN run.glyphs :
        run.seqno < fill.seqno /\ Taken(fill, run, g) > 0 => UnderFill(page, run.seqno)
  BY <1>2, TakenUnder
<1>8. \A n, q : ToldHidden(n, q) => ToldHidden(n, q)'
  BY SaysMore DEF ToldHidden
<1>9. \A s \in Reported("overlay_over_text")' : UnderFill(s.page, s.text)'
  <2>1. CASE Adds({})
    BY <1>2, <1>4, <2>1, PagesStay DEF Adds, Reported
  <2>2. CASE run.seqno < fill.seqno /\ Gone(fill, run) # {} /\ Adds({told})
    <3>1. PICK g \in Inked(run) : Enough(Taken(fill, run, g), run.glyphs[g])
      BY <2>2 DEF Gone
    <3>2. g \in DOMAIN run.glyphs /\ Width(run.glyphs[g]) \in Nat /\ Width(run.glyphs[g]) > 0
      BY <1>4, SpanParts DEF Inked
    <3>3. Taken(fill, run, g) \in Nat
      BY <1>4, <3>2, TakenType
    <3>4. Taken(fill, run, g) > 0
      BY <3>1, <3>2, <3>3, EnoughIs
    <3>5. UnderFill(told.page, told.text)
      BY <1>5, <1>7, <2>2, <3>2, <3>4
    <3>6. Reported("overlay_over_text")' = Reported("overlay_over_text") \cup {told}
      BY <1>5, <2>2 DEF Adds, Reported
    <3> QED
      BY <1>2, <1>4, <3>5, <3>6, PagesStay
  <2> QED
    BY <1>6, <2>1, <2>2
<1>10. \A q \in seen' : ToldHidden(page, q)'
  <2>1. \A q \in seen : ToldHidden(page, q)'
    BY <1>2, <1>4, <1>8 DEF PageHides
  <2>2. CASE seen' = seen
    BY <2>1, <2>2
  <2>3. CASE seen' = seen \cup {run.seqno} /\ Adds({told})
    <3>1. told \in Reported("overlay_over_text")'
      BY <1>5, <2>3 DEF Adds, Reported
    <3>2. ToldHidden(page, run.seqno)'
      BY <1>2, <1>5, <3>1 DEF ToldHidden
    <3> QED
      BY <2>1, <2>3, <3>2
  <2> QED
    BY <1>6, <2>2, <2>3
<1>11. \A k \in DOMAIN covered' : covered'[k] > 0 => UnderFill(page, k[1])
  <2>1. \A k \in DOMAIN covered : covered[k] > 0 => UnderFill(page, k[1])
    BY <1>4 DEF PageHides
  <2>2. CASE covered' = covered
    BY <2>1, <2>2
  <2>3. CASE run.seqno < fill.seqno /\ covered' = Tally(fill, run)
    <3> SUFFICES ASSUME NEW k \in DOMAIN covered', covered'[k] > 0
                 PROVE  UnderFill(page, k[1])
      OBVIOUS
    <3>1. CASE k \in DOMAIN covered /\ covered'[k] = covered[k]
      BY <2>1, <3>1
    <3>2. CASE \E g \in Counted(fill, run) :
                 k = <<run.seqno, g>> /\ covered'[k] = Taken(fill, run, g)
      <4>1. PICK g \in Counted(fill, run) :
              k = <<run.seqno, g>> /\ covered'[k] = Taken(fill, run, g)
        BY <3>2
      <4>2. g \in DOMAIN run.glyphs /\ k[1] = run.seqno
        BY <4>1 DEF Counted, Inked
      <4> QED
        BY <1>7, <2>3, <4>1, <4>2
    <3> QED
      BY <1>4, <2>3, <3>1, <3>2, TallyIs
  <2> QED
    BY <1>6, <2>2, <2>3
<1>12. \A other \in PageSpans : other.seqno \in seen' \/ Counts(other)'
  BY <1>1, <1>2, <1>3, CountsKept
<1>13. PageHides'
  BY <1>2, <1>3, <1>10, <1>11, <1>12, PagesStay DEF PageHides
<1>14. PagesCompared' = PagesCompared
  BY <1>2 DEF PagesCompared, Sifted
<1>15. \A n \in PagesCompared' : \/ n \in (skipped \cup oversized)'
                                 \/ \A q \in Hidden(n)' : ToldHidden(n, q)'
  BY <1>2, <1>8, <1>14, PagesStay DEF IInv, HideWell
<1> QED
  BY <1>9, <1>13, <1>15 DEF HideWell

LEMMA HideStep == ASSUME IInv, Next PROVE HideWell'
<1>1. CASE \/ Mismatch \/ ParseEncrypted \/ ParseRejects \/ Reconciliation \/ DayStep
           \/ DaysDone \/ Period \/ XlsxFile \/ PdfFile \/ OversizedPage \/ ReadPage
           \/ FileFails \/ PdfSignals \/ Triage
  <2>1. ~ComparePair /\ pc' # "compare" /\ (~Sifted' \/ page' = 1)
    BY <1>1 DEF Mismatch, ParseEncrypted, ParseRejects, Reconciliation, DayStep, DaysDone,
       Period, XlsxFile, PdfFile, OversizedPage, ReadPage, FileFails, PdfSignals, Triage,
       ComparePair, Sifted, Final
  <2>2. PagesCompared' = {}
    BY <2>1 DEF PagesCompared
  <2> QED
    BY <2>1, <2>2, NothingHidden
<1>2. CASE ReportSkipped \/ Order
  <2>1. /\ ~ComparePair /\ pc' # "compare" /\ (Sifted' => Sifted)
        /\ UNCHANGED <<skipped, oversized, page>>
    BY <1>2 DEF ReportSkipped, Order, ComparePair, overlay, forensics, Sifted, Final
  <2>2. PagesCompared' \subseteq PagesCompared
    BY <2>1 DEF PagesCompared
  <2> QED
    BY <2>1, <2>2, NothingHidden
<1>3. CASE Over
  <2>1. ~ComparePair /\ pc' # "compare" /\ UNCHANGED <<skipped, oversized, page, pc, source>>
    BY <1>3 DEF Over, ComparePair, vars
  <2>2. PagesCompared' = PagesCompared
    BY <2>1 DEF PagesCompared, Sifted, Final
  <2> QED
    BY <2>1, <2>2, NothingHidden
<1> QED
  BY <1>1, <1>2, <1>3, BeginPageHides, EndPageHides, ComparePairHides DEF Next

-----------------------------------------------------------------------------
(* What is said of the parse, the marks and what was left out              *)

LEMMA SaidStep == ASSUME IInv, Next PROVE SaidWell'
<1>1. source' = source /\ \A code : Reported(code) \subseteq Reported(code)'
  BY SourceStays, SaysMore
<1>2. SaidWell /\ page \in 1..(Len(source.pages) + 1) /\ Len(source.pages) \in Nat
      /\ DOMAIN source.pages = 1..Len(source.pages)
      /\ source \in Sources /\ signals \in Seq(Signals) /\ TypeOK
  BY IInvParts DEF IInv
<1>3. pc' # "start" \/ UNCHANGED vars
  BY DEF Next, Mismatch, ParseEncrypted, ParseRejects, Reconciliation, DayStep, DaysDone, Period,
     XlsxFile, PdfFile, OversizedPage, ReadPage, FileFails, PdfSignals, Triage, PlainPage,
     PageOverBudget, BeginPage, ComparePair, EndPage, ReportSkipped, Order, Over
<1>4. CASE Mismatch \/ ParseEncrypted
  <2>1. pc' \in {"refused", "encrypted"}
    BY <1>4 DEF Mismatch, ParseEncrypted
  <2> QED
    BY <2>1 DEF SaidWell, Early, Sifted, Final
<1>5. CASE ParseRejects
  <2>1. pc' = "file" /\ guarded' = TRUE /\ Adds({Signal("unparseable", 0, 0, 0)})
    BY <1>2, <1>5, RejectsAdds DEF ParseRejects
  <2>2. Signal("unparseable", 0, 0, 0) \in Reported("unparseable")'
    BY <2>1 DEF Adds, Reported, Signal
  <2> QED
    BY <2>1, <2>2 DEF SaidWell, Early, Sifted, Final
<1>6. CASE Reconciliation
  <2>1. pc' = "days" /\ guarded' = guarded /\ guarded = FALSE
    BY <1>2, <1>6 DEF Reconciliation, SaidWell
  <2>2. source.breakRow # 0 => Reported("reconciliation_failed")' # {}
    <3> SUFFICES ASSUME source.breakRow # 0 PROVE Reported("reconciliation_failed")' # {}
      OBVIOUS
    <3>1. Adds({Signal("reconciliation_failed", 0, source.breakRow, 0)})
      BY <1>2, <1>6, ReconciliationAdds
    <3>2. Signal("reconciliation_failed", 0, source.breakRow, 0) \in Reported("reconciliation_failed")'
      BY <3>1 DEF Adds, Reported, Signal
    <3> QED
      BY <3>2
  <2> QED
    BY <1>1, <2>1, <2>2 DEF SaidWell, Early, Sifted, Final
<1>7. CASE DayStep \/ DaysDone \/ Period \/ PdfFile \/ OversizedPage \/ ReadPage
  <2>1. pc \notin Early /\ pc' \in {"days", "period", "file", "read"} /\ guarded' = guarded
    BY <1>7 DEF DayStep, DaysDone, Period, PdfFile, OversizedPage, ReadPage, Early
  <2> QED
    BY <1>1, <1>2, <2>1 DEF SaidWell, Early, Sifted, Final
<1>8. CASE XlsxFile
  <2>1. /\ pc = "file" /\ pc' = "order" /\ guarded' = guarded
        /\ source.format = "xlsx" /\ source.failure = "none"
    BY <1>8 DEF XlsxFile
  <2> QED
    BY <1>1, <1>2, <2>1 DEF SaidWell, Early, Sifted, Final
<1>9. CASE FileFails
  <2>1. /\ pc \notin Early /\ pc' \in {"order", "failed"} /\ guarded' = guarded
        /\ source.failure # "none"
        /\ pc' = "order" => guarded /\ source.failure = "expected"
    BY <1>9 DEF FileFails, Early
  <2>2. pc' = "order" => Reported("checks_skipped")' # {}
    <3> SUFFICES ASSUME pc' = "order" PROVE Reported("checks_skipped")' # {}
      OBVIOUS
    <3>1. Adds({Signal("checks_skipped", 0, 0, 0)})
      BY <1>2, <1>9, <2>1, FailsAdds
    <3>2. Signal("checks_skipped", 0, 0, 0) \in Reported("checks_skipped")'
      BY <3>1 DEF Adds, Reported, Signal
    <3> QED
      BY <3>2
  <2> QED
    BY <1>1, <1>2, <1>9, <2>1, <2>2 DEF SaidWell, Early, Sifted, Final, FileFails
<1>10. CASE PdfSignals
  <2>1. pc = "read" /\ pc' = "triage" /\ guarded' = guarded /\ source.failure = "none"
    BY <1>10 DEF PdfSignals
  <2>2. ASSUME "incremental_update" \in source.marks
        PROVE  Reported("incremental_update")' # {}
    <3>1. PICK S : Adds(S) /\ Signal("incremental_update", 0, 0, 0) \in S
      BY <1>2, <1>10, <2>2, MarksAdd
    <3>2. Signal("incremental_update", 0, 0, 0) \in Reported("incremental_update")'
      BY <3>1 DEF Adds, Reported, Signal
    <3> QED
      BY <3>2
  <2> QED
    BY <1>1, <1>2, <2>1, <2>2 DEF SaidWell, Early, Sifted, Final
<1>11. CASE Triage \/ PlainPage \/ PageOverBudget \/ BeginPage \/ ComparePair \/ EndPage
  <2>1. /\ pc \in {"triage", "overlay", "compare"} /\ pc' \in {"overlay", "compare"}
        /\ guarded' = guarded
    BY <1>11 DEF Triage, PlainPage, PageOverBudget, BeginPage, ComparePair, EndPage
  <2> QED
    BY <1>1, <1>2, <2>1 DEF SaidWell, Early, Sifted, Final
<1>12. CASE ReportSkipped
  <2>1. /\ pc = "overlay" /\ pc' = "order" /\ guarded' = guarded /\ page \notin DOMAIN source.pages
        /\ UNCHANGED <<page, skipped, oversized, unreadable>>
    BY <1>12 DEF ReportSkipped, overlay, forensics
  <2>2. page = Len(source.pages) + 1
    BY <1>2, <2>1
  <2>3. PICK S : /\ Adds(S) /\ \A s \in S : s.code = "checks_skipped"
                 /\ skipped \cup oversized # {} \/ unreadable > 0 => S # {}
    BY <1>2, <1>12, SkippedAdds
  <2>4. S # {} => Reported("checks_skipped")' # {}
    BY <2>3 DEF Adds, Reported
  <2>5. source.failure = "none"
    BY <1>2, <2>1 DEF SaidWell, Sifted
  <2> QED
    BY <1>1, <1>2, <2>1, <2>2, <2>3, <2>4, <2>5 DEF SaidWell, Early, Sifted, Final
<1>13. CASE Order
  <2>1. /\ pc = "order" /\ pc' = "reported" /\ guarded' = guarded
        /\ UNCHANGED <<page, skipped, oversized, unreadable>>
    BY <1>13 DEF Order, overlay, forensics
  <2> QED
    BY <1>1, <1>2, <2>1 DEF SaidWell, Early, Sifted, Final
<1>14. CASE Over
  BY <1>1, <1>2, <1>14 DEF Over, vars, SaidWell, Early, Sifted, Final, Reported, Told
<1> QED
  BY <1>4, <1>5, <1>6, <1>7, <1>8, <1>9, <1>10, <1>11, <1>12, <1>13, <1>14 DEF Next

-----------------------------------------------------------------------------
(* The days                                                                *)

LEMMA TurnsStay ==
    ASSUME source' = source
    PROVE  /\ \A k : Turns(k)' = Turns(k) /\ Step(k)' = Step(k)
           /\ Reported("date_out_of_order")' = Reported("date_out_of_order") =>
                (DaysDecided => DaysDecided')
<1>1. \A k : Step(k)' = Step(k)
  BY DEF Step
<1>2. \A k : Turns(k)' = Turns(k)
  BY <1>1 DEF Turns
<1>3. ASSUME Reported("date_out_of_order")' = Reported("date_out_of_order"), DaysDecided
      PROVE  DaysDecided'
  BY <1>2, <1>3 DEF DaysDecided
<1> QED
  BY <1>1, <1>2, <1>3

(* Days that have run one way, or no way, do not turn.                     *)
LEMMA NoTurn ==
    ASSUME DaysSoFar, direction \in {-1, 0, 1}, NEW k \in Int, k <= i - 1, i \in Int
    PROVE  ~Turns(k)
<1> SUFFICES ASSUME NEW a \in 2..k, NEW b \in 2..k, Step(a) = 1, Step(b) = -1
             PROVE  FALSE
  BY DEF Turns
<1>1. a \in 2..(i - 1) /\ b \in 2..(i - 1)
  OBVIOUS
<1> QED
  BY <1>1 DEF DaysSoFar

LEMMA DayStepDays == ASSUME IInv, DayStep PROVE DaysWell'
<1>1. /\ pc = "days" /\ i <= Len(source.days) /\ i \in Nat /\ Len(source.days) \in Nat
      /\ Reported("date_out_of_order") = {} /\ DaysSoFar /\ direction \in {-1, 0, 1}
      /\ source' = source /\ i' = i + 1 /\ guarded' = guarded /\ signals \in Seq(Signals)
      /\ direction' = (IF direction = 0 THEN Step(i) ELSE direction)
  BY IInvParts, SourceParts DEF DayStep, IInv, DaysWell, TypeOK
<1>2. Step(i) \in {-1, 0, 1} /\ i >= 2
  BY <1>1, StepTypes DEF DaysSoFar
<1>3. CASE Step(i) # 0 /\ direction # 0 /\ Step(i) # direction
  <2>1. pc' = "period" /\ Adds({Signal("date_out_of_order", 0, i, 0)})
    BY <1>3, DayStepAdds DEF DayStep, IInv
  <2>2. Reported("date_out_of_order")' = {Signal("date_out_of_order", 0, i, 0)}
    BY <1>1, <2>1 DEF Adds, Reported, Signal
  <2>3. Signal("date_out_of_order", 0, i, 0).row = i
    BY DEF Signal
  <2>4. PICK b \in 2..(i - 1) : Step(b) = direction
    BY <1>1, <1>3 DEF DaysSoFar
  <2>5. Turns(i)
    <3>1. b \in 2..i /\ i \in 2..i
      BY <1>1, <1>2
    <3>2. Step(i) = -direction /\ direction \in {-1, 1}
      BY <1>1, <1>2, <1>3
    <3>3. \/ Step(b) = 1 /\ Step(i) = -1
          \/ Step(i) = 1 /\ Step(b) = -1
      BY <2>4, <3>2
    <3> QED
      BY <3>1, <3>3 DEF Turns
  <2>6. ~Turns(i - 1)
    BY <1>1, NoTurn
  <2>7. DaysDecided'
    <3>1. \A s \in Reported("date_out_of_order")' :
            s.row \in 2..Len(source.days) /\ Turns(s.row) /\ ~Turns(s.row - 1)
      BY <1>1, <1>2, <2>2, <2>3, <2>5, <2>6
    <3>2. Reported("date_out_of_order")' # {}
      BY <2>2
    <3>3. \A k : Turns(k)' = Turns(k)
      BY <1>1, TurnsStay
    <3> QED
      BY <1>1, <3>1, <3>2, <3>3 DEF DaysDecided
  <2> QED
    BY <2>1, <2>7 DEF DaysWell, Early
<1>4. CASE ~(Step(i) # 0 /\ direction # 0 /\ Step(i) # direction)
  <2>1. pc' = pc /\ Adds({})
    BY <1>4, DayStepAdds DEF DayStep, IInv
  <2>2. Reported("date_out_of_order")' = {}
    BY <1>1, <2>1 DEF Adds, Reported
  <2>3. /\ i + 1 \in 2..(Len(source.days) + 1)
        /\ direction' = 0 => \A k \in 2..i : Step(k) = 0
        /\ direction' # 0 => /\ \E k \in 2..i : Step(k) = direction'
                             /\ \A k \in 2..i : Step(k) # -direction'
    <3>1. i \in 2..i /\ \A k \in 2..i : k = i \/ k \in 2..(i - 1)
      BY <1>1, <1>2
    <3>2. \A k \in 2..(i - 1) : k \in 2..i
      BY <1>1
    <3>3. i + 1 \in 2..(Len(source.days) + 1)
      BY <1>1, <1>2
    <3>4. CASE direction = 0
      BY <1>1, <1>2, <3>1, <3>3, <3>4 DEF DaysSoFar
    <3>5. CASE direction # 0
      BY <1>1, <1>2, <1>4, <3>1, <3>2, <3>3, <3>5 DEF DaysSoFar
    <3> QED
      BY <3>4, <3>5
  <2>4. i' - 1 = i
    BY <1>1
  <2>5. DaysSoFar'
    BY <1>1, <2>3, <2>4, TurnsStay DEF DaysSoFar
  <2> QED
    BY <1>1, <2>1, <2>2, <2>5 DEF DaysWell, Early
<1> QED
  BY <1>3, <1>4

LEMMA DaysStep == ASSUME IInv, Next PROVE DaysWell'
<1>1. source' = source /\ DaysWell /\ signals \in Seq(Signals) /\ direction \in {-1, 0, 1}
      /\ i \in Nat /\ Len(source.days) \in Nat
  BY SourceStays, IInvParts, SourceParts DEF IInv, TypeOK
<1>2. CASE DayStep
  BY <1>2, DayStepDays
<1>3. CASE ~DayStep
  <2>1. Reported("date_out_of_order")' = Reported("date_out_of_order")
    BY <1>3, SaysMore
  <2>2. DaysDecided => DaysDecided'
    BY <1>1, <2>1, TurnsStay
  <2>3. CASE Mismatch \/ ParseEncrypted \/ ParseRejects
    BY <2>3 DEF Mismatch, ParseEncrypted, ParseRejects, DaysWell, Early
  <2>4. CASE Reconciliation
    <3>1. pc = "start" /\ pc' = "days" /\ i' = i /\ direction' = direction /\ signals = <<>>
      BY <2>4 DEF Reconciliation, rowLoop, IInv, SaidWell
    <3>2. Reported("date_out_of_order") = {}
      BY <3>1 DEF Reported, Told
    <3>3. i = 2 /\ direction = 0
      BY <1>1, <3>1 DEF DaysWell
    <3>4. DaysSoFar'
      BY <3>1, <3>3 DEF DaysSoFar
    <3> QED
      BY <2>1, <3>1, <3>2, <3>4 DEF DaysWell, Early
  <2>5. CASE DaysDone
    <3>1. /\ pc = "days" /\ pc' = "period" /\ i > Len(source.days) /\ DaysSoFar
          /\ Reported("date_out_of_order") = {}
      BY <1>1, <2>5 DEF DaysDone, DaysWell
    <3>2. ~Turns(Len(source.days))
      BY <1>1, <3>1, NoTurn
    <3>3. DaysDecided
      BY <3>1, <3>2 DEF DaysDecided
    <3> QED
      BY <2>2, <3>1, <3>3 DEF DaysWell, Early
  <2>6. CASE \/ Period \/ XlsxFile \/ PdfFile \/ OversizedPage \/ ReadPage \/ FileFails
             \/ PdfSignals \/ Triage \/ PlainPage \/ PageOverBudget \/ BeginPage
             \/ ComparePair \/ EndPage \/ ReportSkipped \/ Order
    <3>1. /\ pc \notin Early \cup {"days"} /\ pc' \notin {"start", "days"} /\ guarded' = guarded
      BY <2>6 DEF Period, XlsxFile, PdfFile, OversizedPage, ReadPage, FileFails, PdfSignals,
         Triage, PlainPage, PageOverBudget, BeginPage, ComparePair, EndPage, ReportSkipped,
         Order, Early
    <3> QED
      BY <1>1, <2>2, <3>1 DEF DaysWell
  <2>7. CASE Over
    BY <1>1, <2>2, <2>7 DEF Over, DaysWell, vars, Early
  <2> QED
    BY <1>3, <2>3, <2>4, <2>5, <2>6, <2>7 DEF Next
<1> QED
  BY <1>2, <1>3

-----------------------------------------------------------------------------
(* The theorems                                                            *)

LEMMA InitKeeps == ASSUME Init PROVE IInv
<1>1. /\ source \in Sources /\ pc = "start" /\ guarded = FALSE /\ i = 2 /\ direction = 0
      /\ page = 1 /\ left = {} /\ spans = {} /\ fills = {} /\ unreadable = 0 /\ oversized = {}
      /\ seen = {} /\ covered = <<>> /\ spent = 0 /\ skipped = {}
      /\ signals = <<>> /\ work = 0 /\ compared = {}
  BY DEF Init
<1>2. Len(source.pages) \in Nat /\ <<>> \in Seq(Signals) /\ DOMAIN covered = {}
  BY <1>1, SourceParts
<1>3. TypeOK
  <2>1. guarded \in BOOLEAN /\ (guarded => source.parse = "rejected")
    BY <1>1
  <2>2. page \in 1..(Len(source.pages) + 1) /\ DOMAIN covered = {} /\ signals \in Seq(Signals)
    BY <1>1, <1>2
  <2> QED
    BY <1>1, <2>1, <2>2 DEF TypeOK
<1>4. ReadWell
  BY <1>1, FS_EmptySet DEF ReadWell, FromPages, PagesRead, Sifted, Final
<1>5. PagesCompared = {}
  BY <1>1 DEF PagesCompared, Sifted, Final
<1>6. CompareWell
  BY <1>1, <1>5, FS_EmptySet, InspectAssumption DEF CompareWell
<1>7. \A code : Reported(code) = {}
  BY <1>1 DEF Reported, Told
<1>8. HideWell
  BY <1>1, <1>5, <1>7 DEF HideWell
<1>9. SaidWell /\ DaysWell
  BY <1>1 DEF SaidWell, DaysWell, Early, Sifted, Final
<1> QED
  BY <1>1, <1>3, <1>4, <1>6, <1>8, <1>9 DEF IInv

LEMMA StutterKeeps == ASSUME IInv, UNCHANGED vars PROVE IInv'
<1>1. UNCHANGED <<source, pc, guarded, i, direction, page, left, spans, fills, unreadable,
                  oversized, seen, covered, spent, skipped, signals, work, compared>>
  BY DEF vars
<1>2. (source \in Sources)' /\ TypeOK'
  BY <1>1 DEF IInv, TypeOK
<1>3. (Sifted' <=> Sifted) /\ PagesRead' = PagesRead /\ PagesCompared' = PagesCompared
  BY <1>1 DEF Sifted, Final, PagesRead, PagesCompared
<1>4. ReadWell'
  BY <1>1, <1>3, NothingRead DEF forensics
<1>5. PageFills' = PageFills /\ PageSpans' = PageSpans
  BY <1>1 DEF PageFills, PageSpans, OnPage
<1>6. CompareWell'
  BY <1>1, <1>3, <1>5 DEF IInv, CompareWell, PageCompared, AllCompared, OnPage
<1>7. \A code : Reported(code)' = Reported(code)
  BY <1>1 DEF Reported, Told
<1>8. \A run : Counts(run)' = Counts(run)
  <2>1. \A run, g : LostCells(run, g)' = LostCells(run, g)
    BY <1>1, <1>5 DEF LostCells, Inside
  <2>2. \A q, g : Already(q, g)' = Already(q, g)
    BY <1>1 DEF Already
  <2> QED
    BY <2>1, <2>2 DEF Counts, Inked, Enough, Width
<1>9. PageHides => PageHides'
  BY <1>1, <1>5, <1>7, <1>8, PagesStay DEF PageHides, ToldHidden
<1>10. HideWell'
  BY <1>1, <1>3, <1>7, <1>9, PagesStay DEF IInv, HideWell, ToldHidden
<1>11. SaidWell'
  BY <1>1, <1>3, <1>7 DEF IInv, SaidWell, Final
<1>12. DaysWell'
  <2>1. DaysDecided => DaysDecided'
    BY <1>1, <1>7, TurnsStay
  <2>2. DaysSoFar => DaysSoFar'
    BY <1>1, TurnsStay DEF DaysSoFar
  <2> QED
    BY <1>1, <1>7, <2>1, <2>2 DEF IInv, DaysWell
<1> QED
  BY <1>2, <1>4, <1>6, <1>10, <1>11, <1>12 DEF IInv

LEMMA IInvStep == IInv /\ [Next]_vars => IInv'
<1>1. ASSUME IInv, Next
      PROVE  IInv'
  <2>1. (source \in Sources)'
    BY <1>1, SourceStays, IInvParts
  <2> QED
    BY <1>1, <2>1, TypesStep, ReadStep, CompareStep, HideStep, SaidStep, DaysStep DEF IInv
<1> QED
  BY <1>1, StutterKeeps

(* The inductive invariant holds in every state of every behaviour.        *)
THEOREM IInvariant == Spec => []IInv
BY InitKeeps, IInvStep, PTL DEF Spec

(* Every variable of Inspect keeps to its type; an opacity that is kept is *)
(* never zero (pdf_forensics in _pymupdf.py).                              *)
THEOREM InspectTypes == Spec => []TypeOK
<1>1. IInv => TypeOK
  BY DEF IInv
<1> QED
  BY <1>1, IInvariant, PTL

LEMMA HiddenFromInv == ASSUME IInv PROVE HiddenReported
<1>1. ASSUME pc = "reported", source.format = "pdf", source.failure = "none",
             NEW n \in DOMAIN source.pages \ (skipped \cup oversized), NEW q \in Hidden(n)
      PROVE  ToldHidden(n, q)
  <2>1. Final /\ Sifted
    BY <1>1 DEF Final, Sifted
  <2>2. page = Len(source.pages) + 1 /\ n \in 1..Len(source.pages) /\ Len(source.pages) \in Nat
    BY <2>1, IInvParts DEF IInv, SaidWell
  <2>3. n \in PagesCompared
    BY <2>1, <2>2 DEF PagesCompared
  <2> QED
    BY <1>1, <2>3 DEF IInv, HideWell
<1>2. \A s \in Reported("overlay_over_text") : UnderFill(s.page, s.text)
  BY DEF IInv, HideWell
<1> QED
  BY <1>1, <1>2 DEF HiddenReported, ToldHidden, UnderFill

(* Text that later opaque fills hide past the line is reported, however    *)
(* the cover is cut, on every page that was not left out, and no text is   *)
(* that lies under no fill (_overlays and _hides_a_glyph).                 *)
THEOREM HiddenCorrect == Spec => []HiddenReported
BY HiddenFromInv, IInvariant, PTL

LEMMA SilenceFromInv == ASSUME IInv PROVE SilenceMeansCompared
<1>1. work <= OverlayBudget
  <2>1. IsFiniteSet(left) /\ work + Cardinality(left) <= spent /\ spent <= OverlayBudget
    BY DEF IInv, CompareWell
  <2>2. Cardinality(left) \in Nat /\ work \in Nat /\ spent \in Nat /\ OverlayBudget \in Nat
    BY <2>1, FS_CardinalityType, InspectAssumption DEF IInv, TypeOK
  <2> QED
    BY <2>1, <2>2
<1>2. ASSUME pc = "reported", source.format = "pdf", Reported("checks_skipped") = {},
             NEW n \in DOMAIN source.pages, NEW q \in Texts(n),
             NEW k \in DOMAIN Commands(n)[q].runs, Commands(n)[q].runs[k].glyphs # <<>>,
             NEW r \in DrawnOver(n, q), Commands(n)[r].opacity \notin 1..(Opaque - 1),
             Width(Commands(n)[r].box) # 0
      PROVE  <<n, q, r>> \in compared
  <2>1. source \in Sources /\ FromPages /\ unreadable \in Nat
        /\ n \in 1..Len(source.pages) /\ Len(source.pages) \in Nat
    BY IInvParts
  <2>2. source.failure = "none"
    BY <1>2 DEF IInv, SaidWell
  <2>3. Final /\ Sifted
    BY <1>2, <2>2 DEF Final, Sifted
  <2>4. page = Len(source.pages) + 1 /\ skipped \cup oversized = {} /\ unreadable = 0
    BY <1>2, <2>1, <2>3 DEF IInv, SaidWell
  <2>5. AllNumbers(n) /\ ReadIn(n)
    <3>1. n \in PagesRead \ oversized /\ n \notin skipped
      BY <2>3, <2>4 DEF PagesRead, Sifted, Final
    <3> QED
      BY <2>4, <3>1 DEF IInv, ReadWell
  <2>6. AllCompared(n)
    <3>1. n \in PagesCompared /\ n \notin skipped
      BY <2>1, <2>3, <2>4 DEF PagesCompared
    <3> QED
      BY <3>1 DEF IInv, CompareWell
  <2>7. PICK run : run = RunOf(n, q, k)
    OBVIOUS
  <2>8. /\ run.page = n /\ run.seqno = q /\ run.glyphs = Commands(n)[q].runs[k].glyphs
    BY <2>7 DEF RunOf
  <2>9. run \in OnPage(spans, n)
    <3>1. run \in Visible(n)
      BY <1>2, <2>7, <2>8, RunsHold DEF Visible
    <3> QED
      BY <2>5, <2>8, <3>1 DEF AllNumbers, ReadIn, Finite, OnPage
  <2>10. PICK fill : fill = FillOf(n, r)
    OBVIOUS
  <2>11. /\ fill.page = n /\ fill.seqno = r /\ fill.box = Commands(n)[r].box
         /\ fill.opacity = Opacity(Commands(n)[r])
    BY <2>10 DEF FillOf
  <2>12. r \in Paths(n)
    BY DEF DrawnOver, Paths
  <2>13. fill \in OnPage(fills, n)
    <3>1. fill \in Fills(n)
      BY <2>10, <2>12, FillsHold
    <3>2. /\ Commands(n)[r].opacity \in 0..100 /\ Opaque \in 1..100
          /\ Commands(n)[r].box.from \in Int /\ Commands(n)[r].box.to \in Int
      BY <2>1, <2>12, PathType, InspectAssumption
    <3>3. fill.opacity >= Opaque
      <4>1. PICK o \in 0..100 : o = Commands(n)[r].opacity
        BY <3>2
      <4>2. o = 0 \/ o >= Opaque
        <5>1. o \notin 1..(Opaque - 1)
          BY <1>2, <4>1
        <5>2. o \in Int /\ o >= 0 /\ Opaque \in Int
          BY <3>2, <4>1
        <5> QED
          BY <5>1, <5>2
      <4>3. fill.opacity = IF o = 0 THEN 100 ELSE o
        BY <2>11, <4>1 DEF Opacity
      <4> QED
        BY <3>2, <4>2, <4>3
    <3>4. Width(fill.box) > 0
      BY <1>2, <2>11, <3>2 DEF Width
    <3> QED
      BY <2>5, <2>11, <3>1, <3>3, <3>4 DEF AllNumbers, ReadIn, Finite, OnPage, IsCover
  <2> QED
    BY <2>6, <2>8, <2>9, <2>11, <2>13 DEF AllCompared
<1> QED
  BY <1>1, <1>2 DEF SilenceMeansCompared

(* No report is silent about what was not looked at, and the comparisons   *)
(* stay within the budget (_content_signals and _overlays).                *)
THEOREM SilenceCorrect == Spec => []SilenceMeansCompared
BY SilenceFromInv, IInvariant, PTL

LEMMA DatesFromInv == ASSUME IInv PROVE DatesHonest
<1> SUFFICES ASSUME pc = "reported", ~guarded
             PROVE  /\ Reported("date_out_of_order") = {} <=> Ascending \/ Descending
                    /\ \A s \in Reported("date_out_of_order") : Turns(s.row) /\ ~Turns(s.row - 1)
  BY DEF DatesHonest
<1>1. DaysDecided /\ source.days \in Seq(Int) /\ Len(source.days) \in Nat
  BY IInvParts, SourceParts DEF IInv, DaysWell, Early
<1>2. \A k \in 2..Len(source.days) : source.days[k] \in Int /\ source.days[k - 1] \in Int
  <2> TAKE k \in 2..Len(source.days)
  <2>1. k \in DOMAIN source.days /\ k - 1 \in DOMAIN source.days
    BY <1>1
  <2> QED
    BY <1>1, <2>1
<1>3. /\ Ascending <=> \A k \in 2..Len(source.days) : Step(k) # -1
      /\ Descending <=> \A k \in 2..Len(source.days) : Step(k) # 1
  <2>1. \A k \in 2..Len(source.days) :
          /\ Step(k) # -1 <=> (source.days[k - 1] <= source.days[k])
          /\ Step(k) # 1 <=> (source.days[k - 1] >= source.days[k])
    BY <1>2 DEF Step
  <2> QED
    BY <2>1 DEF Ascending, Descending
<1>4. ~Turns(Len(source.days)) <=> Ascending \/ Descending
  BY <1>3 DEF Turns
<1>5. \A s \in Reported("date_out_of_order") : Turns(Len(source.days))
  <2> TAKE s \in Reported("date_out_of_order")
  <2>1. s.row \in 2..Len(source.days) /\ Turns(s.row)
    BY <1>1 DEF DaysDecided
  <2>2. 2..s.row \subseteq 2..Len(source.days)
    BY <1>1, <2>1
  <2> QED
    BY <2>1, <2>2 DEF Turns
<1> QED
  BY <1>1, <1>4, <1>5 DEF DaysDecided

(* Days that run neither way are reported, at the first row that turns     *)
(* (_rows).                                                                *)
THEOREM DatesCorrect == Spec => []DatesHonest
BY DatesFromInv, IInvariant, PTL

LEMMA CleanFromInv == ASSUME IInv PROVE CleanMeansChecked
<1> SUFFICES ASSUME pc = "reported", signals = <<>>
             PROVE  /\ ~guarded /\ source.breakRow = 0 /\ source.failure = "none"
                    /\ Ascending \/ Descending
                    /\ source.format = "pdf" =>
                         /\ "incremental_update" \notin source.marks
                         /\ \A n \in DOMAIN source.pages : Hidden(n) = {}
  BY DEF CleanMeansChecked
<1>1. \A code : Reported(code) = {}
  BY DEF Reported, Told
<1>2. guarded \in BOOLEAN /\ SaidWell
  BY DEF IInv, TypeOK
<1>3. ~guarded /\ source.breakRow = 0 /\ source.failure = "none"
  BY <1>1, <1>2 DEF SaidWell, Early
<1>4. Ascending \/ Descending
  BY <1>1, <1>3, DatesFromInv DEF DatesHonest
<1>5. ASSUME source.format = "pdf"
      PROVE  /\ "incremental_update" \notin source.marks
             /\ \A n \in DOMAIN source.pages : Hidden(n) = {}
  <2>1. Final /\ Sifted
    BY <1>3, <1>5 DEF Final, Sifted
  <2>2. skipped \cup oversized = {} /\ "incremental_update" \notin source.marks
    BY <1>1, <1>2, <2>1 DEF SaidWell
  <2>3. ASSUME NEW n \in DOMAIN source.pages, NEW q \in Hidden(n)
        PROVE  FALSE
    BY <1>1, <1>3, <1>5, <2>2, <2>3, HiddenFromInv DEF HiddenReported
  <2> QED
    BY <2>2, <2>3
<1> QED
  BY <1>3, <1>4, <1>5

(* A clean report is never the absence of a check (_inspect and            *)
(* _file_checked).                                                         *)
THEOREM CleanCorrect == Spec => []CleanMeansChecked
BY CleanFromInv, IInvariant, PTL
=============================================================================
