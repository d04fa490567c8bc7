# bankstract in TLA+

Models, model checks and proofs of `bankstract`, the library and command line
that turn statements of four Nigerian banks (FBN, Zenith, OPay, PalmPay) into
CSV or JSON. Paths below are relative to the repository; `parsers/opay.py` is
short for `src/bankstract/parsers/opay.py`.

Check a module with `tlc -config MCIsolate.cfg MCIsolate.tla`, prove one with
`tlapm IsolateProofs.tla`.

## 1. The system

| part | state | operations | what makes it correct |
|---|---|---|---|
| Isolated worker, `_isolate.py` | child process, pipe, deadline, outcome | `run_isolated`, `run_isolated_call`, `_child` | events in order and none lost, then one outcome that is the call's own; no false `ResourceLimitError`; the child is gone on every way out; the call ends |
| Public API, `_api.py`, and scopes, `_progress.py` | contextvar of the callback, bank of a result and of an exception | `parse`, `convert`, `redact`, `detect`, `reconcile_result` | a callback hears its own call only; scopes are undone by every failure; `done` once, last, on success; nothing unchecked is returned |
| Throttle, `_progress.py` | `last` and `seen_stage` of a closure, across calls | `throttle` | rate limited, never starved, start and end of each stage shown |
| Reconciliation, `reconcile.py` | running sums, statuses | `reconcile`, `verify_totals`, `_checks` | a pass stands on evidence, an error names the first break |
| Row walker, `parsers/_columnar.py`, with FBN and Zenith | pending row, tail of narration lines | `walk_rows`, `parse` | each movement once, with its own narration, and no page furniture |
| OPay parser, `parsers/opay.py` | page and row loops | `parse` of PDF and XLSX | the first section and nothing else; lines join the right movement |
| PalmPay parser, `parsers/palmpay.py` | pending row, tail | `parse` | as the row walker, without columns and furniture; header totals are required and decide |
| Integrity, `integrity.py`, `_pymupdf.py` | list of signals, budget, area lost per glyph | `inspect` | covered text is reported, a check that did not run says so, work is bounded |
| Command line, `cli.py` | exit code, output file, line of the terminal | `auto`, one command a bank, `inspect`, `redact` | the exit code says what became of the output; stdout holds data alone; a command under `--isolate` ends |
| Redactors, `redactors/` | marked boxes, report and audit | `redact` | the copy reads as the original: same movements and amounts, narrations gone |
| Writers, registries, format facades, money and layout helpers, schema | - | - | pure functions and dictionaries filled at import |

How they meet. `convert(isolate=True)` is `run_isolated_call`: a spawned child
runs the same function in process, with a `progress_callback` that writes each
event to a pipe. The parent reads it against a deadline, hands events to the
caller's callback, and ends with the pickled outcome. In process, `convert` opens
a scope (a contextvar holds the callback), detects the bank if it has to, calls
the parser, whose loops `emit` page events, runs the checks, and serializes.
`inspect` parses, reconciles, and then reads the file again through another
library. `redact` walks the same rows as the parser and marks what goes; its
copy is meant to be parsed again. The command line wraps any of these calls,
twice for `auto` (detection, then conversion), reads the input, writes the
output, and turns outcomes into exit codes.

What is hard: a child that dies, hangs, floods or runs out of memory at any point
of a message, against a parent that reads, waits, calls back or kills (`Isolate`);
threads that install callbacks at the same time and calls that fail between two
emits (`Api`); closure state that outlives a call (`Throttle`); rows whose role
depends on what came before, or on the closest neighbour (`WalkRows`,
`OpayRows`), and what the checks still see of the rows a walk lost
(`Statement`, `OpayStatement`); two passes over a page that must agree with a third,
the parser's (`Redact`); checks that are quietly left out (`Inspect`, `Reconcile`); and one
command with two workers, a disk that fails and a Ctrl-C at any step
(`Command`).
Nothing is persisted, so there is no recovery to model.

## 2. The modules

One module per component. `MC*` instantiates it for TLC: either constants only,
or the set of inputs a run starts from and the properties that need the truth
behind an input (which row really was a movement).

| module | code | state and actions |
|---|---|---|
| `IsolatedCall` | the promise of `isolate=True` in the docstrings and `README.md` | `seen`, `outcome`, `working`; `Deliver`, `Work`, `Finish` |
| `Isolate` | `_isolate.py`, with `multiprocessing` as its users see it (external) | child program counter `cpc`, `outgoing` parts of a message, bounded `pipe`, open write ends, parent program counter `ppc`; one action per step of `_child` and of `run_isolated`, `Crash` and `DeadlinePasses` for the environment |
| `Api` | `_api.py`, `progress_scope`/`emit`, `reconcile_result`, the loops that emit | per thread: request, program counter, contextvar and reset tokens, whether the result names its bank (`named`), the fault that unwinds; `events` of each call as its callback saw them. A walk may end on any page (OPay's does, at the end of the section), a workbook is walked as one page that nobody extracts |
| `Throttle` | `throttle()` fed with the events of `convert` | clock, stage under way, `last`, `seenStage`, what was `shown` |
| `Reconcile` | `reconcile.py` | one step per row and per comparison |
| `Ledger` | what `Reconcile` is given: a statement as printed, distorted in one place | `Printed`, `Distorted`, `Parsed`; the steps of `Reconcile` |
| `WalkRows` | `_columnar.walk_rows`, furniture predicates and `parse` of `fbn.py`, `zenith.py`, and the loop of `palmpay.py` with its `_row_kind` | `pending`, `tail`; one step per row by its role |
| `Statement` | `convert` of such a statement: the walk, then the checks; its redacted copy | `WalkRows` composed with `Reconcile`: `Walks`, `HandOver`, `ChecksStep`; the figures as printed; the rows of the copy |
| `OpayRows` | `opay.py` | one step per page (`_process_page`), one per row of a sheet |
| `OpayStatement` | `convert` of an OPay statement: the parser, then the checks; its redacted copy | `OpayRows` composed with `Reconcile`: `Walks`, `HandOver`, `ChecksStep`; `header` says which totals were read; `copy`, `Again` |
| `Redact` | `redactors/`: header pass and body pass of each bank | operators only: what is left of each row of a page or a sheet |
| `Inspect` | `integrity._inspect` and `_pymupdf.pdf_forensics` | one step per row, page, and pair of fill and text run; the runs and fills read are sets of records (page and `seqno` tell them apart), `left` the pairs of a page still to compare, taken in the order of the code's two loops |
| `Command` | `cli.py` | request (with the severity of what `inspect` finds in this file), program counter, exit code, `stdout` and what its `buffer` holds back, `file`, `line`; one action per step of a command, the library call in the middle by its promise, `Interrupt` for Ctrl-C until the code is set, `Exit` for the interpreter's last flush |
| `IsolateProofs`, `ApiProofs`, `ThrottleProofs`, `ReconcileProofs`, `WalkRowsProofs`, `CommandProofs`, `InspectProofs`, `OpayRowsProofs` | | theorems about the module of the same name |

Abstractions. A message is a whole part or a header, body and rest, so that a
child can die inside a long one. A source is its pages; a page of a PDF is its
rows, a row the columns it fills and the marker words it holds; amounts are
integers of the last printed digit. In `Inspect` a page is its drawing commands
(the position of one is its `seqno`), a box an interval of one line, and a share
of an area a share of a length: the code compares areas the same way. Several
runs may share a `seqno`, because one text command can print several. Wording of
messages, formatting of numbers and the regular expressions of headers are left
out. A definition commented "Mutation" is not part of a specification: it is a
plausible bug of the definition below it, used to see that a property notices.

`Isolate` implements `IsolatedCall` (`Promised == Promise!Spec`, with `working`
mapped to "the child still runs and was not killed"), checked by TLC and proved.
`Command` stands on that promise: its `Library` is an instance of `IsolatedCall`.
`Statement` and `OpayStatement` hand the result of a parser to an instance of
`Reconcile`, with the code's tolerance of one unit; `Ledger` relates a result
distorted in one place to the ledger it was printed from. The redacted copy is
read again with the parser's own tests: `Statement` takes it row by row (`IsTx`),
`OpayStatement` with a second instance of the parser (`Again == INSTANCE OpayRows WITH pages <- copy`).
`Inspect` takes the outcome of parse and reconciliation as input.

## 3. The runs

| run | instance | what it shows |
|---|---|---|
| `isolate` | up to 2 events and `done`, pipe of 2 parts; 55,624 states | `Faithful`, `NoFalseAlarm`, `StoppedForGood`, the refinement `Promised`, and under fairness `Terminates`: a call ends once the clock runs, and a dead child is noticed without it |
| `isolate_died` | 1 event | violated: see 5 |
| `api` | 2 threads, 2 calls in all, sources of up to 2 pages, every request; 1,435,260 states up to symmetry | a callback hears its own call and nothing after it (`OwnEvents`); stages in order, the walk after all of the extraction, `done` last, on success only and after the page events it promises, with a walk that may end early and a workbook that is not extracted (`StagesInOrder`); nothing unchecked is returned; errors of a parser and of `convert` name the bank, one of `reconcile_result` the bank its result names, which may be none (`ErrorsNameTheBank`) |
| `throttle` | 4 pages, interval 2, clock to 4, 2 calls; 518,322 states | rate limit on a bar that only advances (`RateLimited`), no starving, both ends of a stage are shown (`StageEndsShown`), the last one unless the parser leaves its loop early |
| `reconcile` | all ledgers of up to 3 moves of up to 2 units, one distortion each, tolerance 1; 335,742 states | a report is honest, the first break is named, a distortion is caught by a check that has the evidence and a genuine statement passes (`DistortionCaught`) |
| `reconcile_dropped` | same | violated: see 5 |
| `walk` | three banks, 2 pages of up to 2 rows between header and footer, every row ordinary but at most one odd one, movements of 1 or 2 units, tolerance 1; 1,318,132 states | each movement once and in order, narrations own exactly their lines, what is booked is what is printed (`BookedAsPrinted`), what a report lost comes to the tolerance of 0.01 at most where the checks could see it (`LossShows`), the redacted copy reads alike (`RedactedAlike`) |
| `opay` | 2 pages of up to 2 movements with lines above and below, one more page of savings; sheets of up to 5 rows; amounts of 1 or 2 units, tolerance 1; both header totals, or any of them for a statement of one page; 533,476 states | first section only, every movement booked with its own lines, a report is refused when a misread statement lost more than 0.01 in either column (`LossShows`), the redacted copy reads alike |
| `opay_anchor` | 1 movement a page | violated: see 5 |
| `inspect` | every way a call starts and fails, all sequences of up to 4 days, all drawings of up to 4 commands out of 13, files of 2 or 3 pages out of 6 kinds; 440,139 states | hidden text is reported and nothing without a cover is (`HiddenReported`), silence means compared and work stays within the budget (`SilenceMeansCompared`), dates honest, clean means checked |
| `inspect_opens` | small | violated: see 5 |
| `command` | every command line, 1 event and `done` from the library; a write, a flush or a message that fails, a stdout flushed only when the interpreter ends, and Ctrl-C until the exit code is set; 57,192 states | the exit code says what became of the output and what a report found: 0 complete and without errors, 2 an unfinished worker or a report that names an error, 120 a stdout not taken in full (`ExitHonest`); stdout holds the data alone (`StdoutClean`), and under `--isolate` every command ends (`CommandEnds`) |

Why the bounds are enough. In `Isolate` a pipe of two parts blocks a writer in
every part of a long message, and two events with a `done` let the parent lag,
catch up, and meet the end of the pipe with messages unread; a call that fires
for ever is a loop of events numbered 0. In `Api` two calls meet on two threads
or follow each other on one; a third adds no pair. In `Throttle` the clock spans
two intervals and the second call begins with the state of any first. A chain of
balances breaks between two rows, so three hold a first, an inner and a last
row. A narration can cross one page end or one neighbour, so two pages of two
movements hold all neighbourhoods; in `walk` one odd row (marker words in a
narration, an amount left of its date, a label of the redactor, a date alone) among
ordinary ones meets each of its neighbours, and a second would only repeat that.
Movements of one unit and of two stand on both sides of a tolerance of one unit:
a loss of 0.01 passes, one of 0.02 does not.
In `Command` the events matter for the line of the terminal, so one and `done`
are the whole difference. In `Inspect` four commands hold a run, two
strips and a decoy; at two thirds of three cells two strips are needed, where
the code has a tenth; a page of more than three objects is crowded, and five
pairs of budget run out on the second or third page.

Fairness. `FairSpec` asks that the parent keeps running (weak fairness of
`Parent`): it is the caller's own thread, and its callback returns. `Terminates`
also needs `ClockRuns`: the clock reaches the deadline, and a child in the middle
of a write goes on or dies. The child gets no fairness beyond that; it may hang or
emit for ever. A worker that is stopped (not killed) in the middle of a message
does hold the parent, as `docs/integrity-gaps.md` says, and is outside this
assumption. The second half of `Terminates`, a death that is noticed, uses only the
parent's fairness. `Command` assumes that its own steps go on (`WF(Own)`: its
stdin ends and its stdout is drained, which no deadline covers) and that a worker
answers (`WF(WorkerAnswers)`), which is what `Terminates` shows of `Isolate`; a
call in process gets no fairness, so `CommandEnds` is about `--isolate`. The other
specifications state no liveness: they are sequential programs over finite loops.

Deadlock is checked everywhere but in `Throttle`, whose clock and calls stop at
their bounds.

## 4. The proofs

All for every value of the constants, by `tlapm`, with no unproved leaf. What is
assumed of the constants is what the code gives: sizes are natural numbers, a
pipe holds a part and a source a page, `Absent` is no integer, no callback is
`None`, and in `Api` the threads are finitely many (the bound on calls counts
them). The properties the runs check speak of promises and few of them are
inductive; each module ends with the supporting invariants that say why they
hold. TLC checks these too when they are added to the cfg of their module; they
are left out of the runs because they speak of the code's bookkeeping.

- `IsolateProofs`. `Faithful` says nothing of the messages under way.
  `IInv == TypeOK /\ StreamInOrder` adds them: the child's counter and reply
  (`ChildInOrder`), the pipe as "the events sent and not taken, in order, then at
  most the reply" (`PipeInOrder`), and the parent's event in hand
  (`ParentInOrder`). `StoppedCorrect` is an action property and follows from
  `ChildStopped`: past the kill no child runs and the pipe is empty and closed.
  `AlarmCorrect` needs to know why the parent saw an end of file: `AnswerWaits`
  says that a child that answered has left the end of its answer in the pipe, and
  `VerdictHonest` what each verdict says of the call. From all of these
  (`CallInv`), `PromiseCorrect` is the refinement: every step of `Isolate` is a
  step of `IsolatedCall` under the mapping of `Promise`, or leaves its variables
  alone; a delivery is `Deliver`, the step that sets the caller's result `Finish`.
- `ApiProofs`. A step is a step of one call, so the invariant of a thread is
  stated for values (`CallOK`), `StepKeeps` carries it back to the state, and one
  lemma a step remains. `ScopeHeld` (the scope of a context is the call's own, or
  there is none) makes `EmitParts` true: an event goes to the call that fires it
  and nowhere else, whatever the other threads do, so `foreign` stays empty.
  `EventsSoFar` bounds the rank of the events heard by the place the call has come
  to (`Highest`) and counts its page events against the loop variable (`Due`): all
  pages extracted when the walk begins and none of a workbook, one page of the walk
  at least and no more than there are when it is over; `StagesInOrder` follows.
  `OnItsWay` says which steps a call of each kind comes to, and carries the passed
  check, the bank of the result (`named`) and the bank of the exception to where
  they are used; `NothingEarly` starts a call with no events.
- `ThrottleProofs`. `RateLimited` relates two events shown one after the other, the
  closure only what it remembers: `LastRemembered` says that this is the last
  event shown and that the call under way has passed it. `FirstShown` and
  `WithinStage` do the same for `StageEndsShown`. `NotStarved` is an action
  property of `EmitEvent`.
- `ReconcileProofs`. `ReportHonest` and `FirstBreakNamed` follow from `LoopHonest`:
  what the loop has compared at index `i` and why each status was given.
  Statements of any length, amounts of any size. `VerdictCorrect` says what the
  loops decide in one formula, `Accepts`: the header totals match the sums of the
  rows, the balances follow from each other, and one of the two was there to check.
  `Judged` is its invariant: the running sums are `Sums` of the rows behind the loop
  (`SumsSoFar`), and what each check settled (`Settled`). `DistortionsCaught` is then
  about statements only: what a row taken out, doubled or altered does to a total
  (`TotalWithout`, `TotalAltered`) and to the chain (`RowsDecide`). `Sums` is a
  recursive function; that it exists and what it satisfies is an induction over the
  rows, by the least position that fails (`Induct`, from `WFMin` of the library, with
  a set where the induction theorems have an operator). For the two parsers that
  are composed with the checks, `WeightOfSequence` says that the `Sums` of a list
  of rows, each of another movement, is the `Weight` of the set of these movements:
  the number of their units.
- `WalkRowsProofs`. `EachRowOnce` is about the rows behind the loop; it is
  inductive with `PendingLast` (the pending row is later than every built one, and
  none is pending past the last flush). `TailsOwned` speaks of the result only:
  `TailsSoFar` says of each transaction that its tail holds the lines it owns among
  those passed, and that a row which ends tails has followed it, so that no later
  line is its own. The lemmas about `Before` and about the row after a row (over a
  page end, and over empty pages) are stated for values.
  `StatementBooked` is about a statement laid out as its bank does, the hypothesis
  `LaidOut` of `WalkRows`: a page ends in a footer, the rest of its furniture stands
  above its movements; a movement has a date and an amount and holds a mark of
  furniture in its narration at most; of the rest only an opening balance is dated.
  `LaidOut` reads only the file, and TLC finds it true in every state of the run
  `walk` when it is added to the cfg. A later page's header lines that look like
  narration are kept out by the footer above them (`FooterBetween`).
  `LossesShow` is about `Statement`, where the checks follow the walk: `SInv` says
  that they judge the result of the walk (`Judged` of `ReconcileProofs`, taken over
  with `INSTANCE ... WITH`). What they summed is the weight of the booked movements
  on either side (`TotalsOfHeads`, by `WeightOfSequence`), which are among the
  printed ones, so totals that agree within the tolerance leave no more than that
  lost (`LittleLost`); the balance moves by what lies between two movements and by
  the second (`BalanceStep`), so rows that follow from each other have lost between
  them what cancels out, up to the tolerance (`LossesCancel`). It is stated for
  every tolerance, the code's one unit among them. The
  statement need not read as printed: a movement dropped for a word in its narration
  is such a loss. `WalkOfStatement` carries the theorems about the walk over.
  `CopyReadsAlike` needs a second layout, `LaidOutToRedact`: a label of the page
  header stands in a narration at most, no movement where the boxes below a label
  reach, and on a Zenith page that has a column header the movements and their
  lines stand below it; TLC finds it true in every state of the run `walk` when it
  is added to the cfg. What a redactor leaves of a row (`LeftOf`) is its words, its
  date and, out of the boxes (`Boxed`), its amount; a movement is in no box
  (`MovesNotBoxed`), so a row plays the part it played (`CopyPlays`).
- `CommandProofs`. `ExitHonest` and `StdoutClean` compare the end of a command with
  what it did: `CallInOrder` and `OutputInOrder` say for each program counter what
  is known of the outcome, the file, stdout, its buffer and the bar, and
  `CodeInOrder` what the code that is set will mean once stdout is flushed, or is
  not: between the two the output may still be in the buffer. The library call is the
  promise `IsolatedCall`, which `PromiseCorrect` shows of the worker.
- `InspectProofs`. All that a report says or leaves unsaid, for files of any number
  of pages and commands and for every cap, budget, opacity and ratio
  (`InspectAssumption` alone; that the input is one of `Sources` is part of
  `Init`). None of the properties speaks of a step before the last, so the
  invariant `IInv` carries each along the way. `ReadWell`: what was read of the
  pages behind is in `spans` and `fills`, or the page is in `skipped` or `oversized`,
  or something on it is counted in `unreadable`. `CompareWell`: comparisons made
  plus pairs left are at most `spent`, and `spent` at most the budget, which is the
  bound on `work`; a pair of a page behind was compared unless the page was skipped.
  `HideWell`: of a run not yet reported, no glyph has lost cells to the fills
  compared so far (`LostCells`) that are more than what `covered` counts, nor enough
  of them to be hidden; a glyph with anything counted lies under a fill drawn later,
  and a `seqno` in `seen` was reported. At the end of a page no pair is left, so
  `LostCells` is what the page really hides. `SaidWell`: each check that failed or
  was left out has its signal. `DaysWell`: `direction` is the first step that is not
  0, and none before `i` goes against it. The proof uses the order of the
  pairs nowhere: these properties hold in whatever order they are taken.
- `OpayRowsProofs`. The rows of a page are booked by rank (`Rank`), which states
  their order without a walk over the page. `IInv` says where the loops are
  (`LoopsOK`), that the rows booked are those behind them (`HeadsSoFar`, in order),
  each with the lines closest to it (`LinesSoFar`), and that no page or row behind
  them ended the section (`SectionSoFar`); it needs no assumption. What is booked
  is what was printed only of a statement laid out as the bank does, which is
  the hypothesis `LaidOut` of `OneSectionBooked` and `StatementBooked`: below the
  anchor, movements are stamped and their lines stand closer to their own movement
  than to another, anything else that is stamped or holds a narration stands after
  a title of the second section, and that title after the movements.
  `LaidOut` reads only the file, and TLC finds it true in every state of the run
  `opay` when it is added to the cfg; a page 1 without its anchor does not satisfy it
  (finding 3 below). `StatementBooked` adds the precondition `ReadsAsPrinted` of the
  property itself. `LossesShow` and `CopyReadsAlike` are about `OpayStatement`. The
  first is about the parser and the checks after it, in the way of `WalkRowsProofs`
  (`SInv`, `TotalsOfHeads`, `LittleLost`): the rows booked are movements of the first
  section (`LaidOut`), a report without the balances this parser opts out of needs both totals,
  and totals that agree leave out no more than the tolerance. `ParserOfStatement`
  carries the theorems about the parser over. The copy, page by page, holds the
  same stamped rows below the same anchor (`LaidOutToRedact`: label and holder
  stand above the anchor, the title and the words of the anchor in no narration,
  a sheet has no lines beside its movements; TLC finds it true in every state of
  the run `opay`).

Only model-checked: liveness (`Terminates`, `CommandEnds`), out of the prover's
reach, and that the layouts assumed (`LaidOut`, `LaidOutToRedact`) hold of the
statements the runs start from.

## 5. What the runs found

Code and documentation disagree, each with a violated run:

1. `_isolate.py:165`: a child that dies in the middle of a long message surfaces
   as a bare `OSError`, where the docstring promises `ResourceLimitError` for a
   child that "dies without a result".
2. `reconcile.py:42`: a statement without header totals that lost its first or
   last row passes row-wise, where `README.md` has "Both catch silently-dropped
   rows".
3. `parsers/opay.py:158`: a page 1 without the word `Trans.` returns before the
   end of the section is looked for. If the section ends on that page, the savings
   rows of the next pages are booked.
4. `integrity.py:199`: a file that parses, or whose result is given, and does not
   open for the file checks makes `inspect` raise, where
   `docs/rules/integrity.md` has "becomes a `checks_skipped` warning". Only the
   path of a rejected file does that.

Seen on the way, with no run of their own:

- `_progress.py:103`: a callback wrapped by `throttle` and reused for a second
  call drops the first page of a stage it saw before, where `README.md` has "Stage
  transitions and terminal events always pass": the closure outlives the call.
- `parsers/fbn.py:96`: a movement whose narration holds a marker word
  (`Opening`, `Page`, ...) is dropped whole. `BookedAsPrinted` holds where a
  statement reads as printed; without that condition it is violated, and
  `LossShows` says that the checks see the loss if it is over the tolerance.
- `reconcile.py:72`: the tolerance is 0.01 and the test is `>`, so a lost movement of
  0.01 passes the totals and the balances, and so do two of 0.01 if one is a debit
  and one a credit.
- `parsers/palmpay.py:224`: PalmPay has no test for furniture, so the footer of a
  page and the header of the next join the narration of the last movement.
- `redactors/fbn.py:72`, `redactors/palmpay.py:125`: a label (`Dear`, `Name`) is
  searched on the whole page; one inside a narration draws a box over the amounts
  of its row. `RedactedAlike` leaves such statements out.
- `redactors/zenith.py:19`: the account number is "replaced wherever it appears",
  but the sweep of the body is for phone numbers and emails.
- `cli.py:253`: "Exits 0 otherwise", but a protected or unreadable file exits 1.
- `cli.py:40`: the data goes to a buffer that is flushed when the interpreter ends;
  if that fails the code is 120, which no document names.
- `reconcile.py:103`: the bank of a `ReconciliationError` is that of the result,
  which is `None` for one built by hand.
- `cli.py:42`: the output file is emptied before the bytes are in it, so a failed
  write loses the older file; `redact` onto its own source loses the source.
- `cli.py:154`: `auto --isolate` gives each of its two workers the whole timeout.
  `--timeout` covers neither the reading of stdin nor the writing.
- A message that ends a command in the middle of a page loop is appended to the
  bar: `StdoutClean` promises a fresh line on success only.
- `parsers/opay.py:398`: leaving the page loop at the section's end means the
  last `walk_page` is not terminal, so a throttled bar may stop short.
- `_api.py:132`: `open` is emitted before the source is opened.
- `_isolate.py:107`: a `MemoryError` while the result is pickled ends as
  `RuntimeError`, not as `ResourceLimitError`.
- `reconcile.py:57`: a statement of one row passes row-wise with nothing compared.
- `_pymupdf.py:210`: a fill of opacity 0 reads as opaque, so an invisible fill is
  an overlay error.
- `parsers/opay.py:341` and `redactors/opay.py:81`: the parser of a workbook
  skips blank rows and stops at an unknown one, the redactor stops at a blank one,
  so that narrations below it stay. `RedactedAlike` covers the rows above it.
- `parsers/opay.py:157`: a missing anchor is no `LayoutDriftError`; the movements
  of page 1 are left out and only the totals show it.

## 6. What is not modelled

- The offset of a stream: every reader goes through `read_bytes`, `rewind` or a seek
  of its own before it reads, so none depends on where another left it.
- Redactors: the replacements that keep the shape of a reference or a number, the
  sweeps for phone numbers and emails (they replace a word by one of the same
  kind, which no property here tells apart), the placeholders, the audit and the
  properties of a workbook. That nothing private is left is a question of patterns
  over text, not of states.
- Command line: options that click itself refuses (also exit 2), `list` and
  `redact list`, which print names.
- The order of the words within a row, and the coordinates behind columns: a row
  says which columns it fills.
- `integrity._size_outliers`, `_layout`, `_money`, header regular expressions:
  arithmetic on floats and strings. `_revisions` and `_id_halves` are facts of
  the file in `Inspect`.
- Registries, writers, facades over pdfplumber, pymupdf and openpyxl: pure calls,
  whose outcomes are choices in `Api` and `Inspect`.
- The spawn of an interpreter and `setrlimit` are single steps with their
  outcomes.

## 7. Plan

The components that carry the logic are modelled. Left for a model: a source that
is replaced between two reads of its path.
